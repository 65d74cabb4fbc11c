----------------------------- MODULE MCBindings -----------------------------
(* Small instances of Bindings for TLC.                                    *)
EXTENDS BindingsProperties, TLC

CONSTANTS r1, r2, i1, i2, i3, spaceA, dA, dB, dC, b1, b2, b3, b4, x1, x2, x3

Symmetry == Permutations(Binders)
SymmetryBoth == Permutations(Binders) \cup Permutations({x1, x2})

OneExisting == (dA :> [name |-> i1, type |-> "mongodb", space |-> spaceA])

\* One of each engine, and one of a type the broker has no engine for.
ThreeExisting == OneExisting @@
  (dB :> [name |-> i2, type |-> "elastic_search", space |-> spaceA]) @@
  (dC :> [name |-> i3, type |-> "postgresql", space |-> spaceA])

OnePlan == [mongo |-> [small |-> "mongodb"]]
NoIPs == <<>>

Deprovisioning == [r \in Requests |-> {"Deprovision"}]

\* Two bindings of one instance.
TwoOfOne == (x1 :> i1) @@ (x2 :> i1)
\* One of each instance.
OneOfEach == (x1 :> i1) @@ (x2 :> i2) @@ (x3 :> i3)

\* "admin" is always there and never a binding's.
FreshContents == {{"admin"}, {"admin", "default"}}
AnyContents == {{"admin"}, {"admin", "default"}, {"admin", "db_1"}}
LegacyContents == {{"admin", "db_1"}}
=============================================================================
