---------------------------- MODULE MCLifecycle ----------------------------
(* Small instances of Lifecycle for TLC.                                   *)
EXTENDS LifecycleProperties, TLC

CONSTANTS i1, i2, spaceA, x1, x2, r1, r2, r3, r4, r5, r6, b1, b2, b3

NoneExisting == [d \in {} |-> d]
OnePlan == [mongo |-> [small |-> "mongodb"]]
NoIPs == <<>>
AnyOp == [r \in Requests |-> AllOps]
FreshContents == {{"admin"}}
BothInstances == (x1 :> i1) @@ (x2 :> i2)

\* Bound of run restored: a test makes five requests, enough to repeat a PUT and
\* to deprovision nevertheless, but four once there is a backup to restore.
FewRequests ==
  Cardinality({r \in Requests : pc[r] # "idle"}) <= IF backups = <<>> THEN 5 ELSE 4

Of(do, i, source, x) == [do |-> do, instance |-> i, source |-> source, binding |-> x]

\* The scripts are parts of integration_tests/mongodb_test.go.  This one is
\* whitelist_test.go, and elastic_search_test.go up to its backup.
ShortScript == <<Of("Provision", i1, Nil, Nil), Of("Bind", i1, Nil, x1)>>

BackupScript == <<Of("Provision", i1, Nil, Nil), Of("Backup", i1, Nil, Nil)>>

\* Restoring only.
RestoreScript ==
  <<Of("Provision", i1, Nil, Nil), Of("Backup", i1, Nil, Nil), Of("Provision", i2, i1, Nil)>>

Binding == {ShortScript}
Restoring == {RestoreScript}
BindingOrBackingUp == {ShortScript, BackupScript}
=============================================================================
