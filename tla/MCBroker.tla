------------------------------ MODULE MCBroker ------------------------------
(* Small instances of Broker for TLC.                                      *)
EXTENDS BrokerRefinement, TLC

CONSTANTS r1, r2, r3, i1, i2, i3, spaceA, spaceB, dA, dB

Symmetry == Permutations(Requests)
\* The polls, where r1 is what they poll.
PollSymmetry == Permutations(Requests \ {r1})

NoneExisting == [d \in {} |-> d]

OneExisting == (dA :> [name |-> i1, type |-> "mongodb", space |-> spaceA])

OnePlan == [mongo |-> [small |-> "mongodb"]]

TwoServices == [mongo |-> [small |-> "mongodb"], elastic |-> [tiny |-> "elastic_search"]]

TwoPlans == [mongo |-> [small |-> "mongodb", large |-> "mongodb"]]

\* r1 changes something; the others poll it.
ProvisionThenPoll == [r \in Requests |-> IF r = r1 THEN {"Provision"} ELSE {"LastOperation"}]
RetireThenPoll ==
  [r \in Requests |-> IF r = r3 THEN {"LastOperation"} ELSE {"Deprovision", "Update"}]

RestoreOps == [r \in Requests |-> {"Provision", "Deprovision"}]
ChangeThenPoll ==
  [r \in Requests |-> IF r = r1 THEN AllOps \ {"LastOperation"} ELSE {"LastOperation"}]

NoIPs == <<>>
OneIP == <<"1.1.1.1">>
TwoIPs == <<"1.1.1.1", "2.2.2.2">>
=============================================================================
