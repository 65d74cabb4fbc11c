----------------------------- MODULE Operation -----------------------------
(***************************************************************************)
(* What the asynchronous operations of the broker promise the platform, as *)
(* one reads it in broker.go: an operation that was accepted is in         *)
(* progress, succeeds or fails, and once it has succeeded or failed it     *)
(* stays so; asking for its state gives the state it is in.  Nothing here  *)
(* says that an operation is several recipes, which the broker reads one   *)
(* after the other while Compose works on them.                            *)
(***************************************************************************)
CONSTANTS Requests, None

VARIABLES
  outcome,    \* request -> the state of the operation it started
  verdict     \* request -> what it was told of an operation: [of, state]

States == {"op in progress", "op succeeded", "op failed"}

NoVerdict == [of |-> None, state |-> "none"]

OpInit ==
  /\ outcome = [q \in Requests |-> "none"]
  /\ verdict = [p \in Requests |-> NoVerdict]

\* The platform is told that its operation was accepted.
Accept(q) ==
  /\ outcome[q] = "none"
  /\ \E state \in States : outcome' = [outcome EXCEPT ![q] = state]
  /\ UNCHANGED verdict

\* Operations come to their ends.
Work ==
  /\ outcome' \in [Requests -> States \cup {"none"}]
  /\ \A q \in Requests :
       outcome'[q] = outcome[q]
         \/ (outcome[q] = "op in progress" /\ outcome'[q] \in {"op succeeded", "op failed"})
  /\ UNCHANGED verdict

\* The platform is told the state of q.
Ask(p, q) ==
  /\ verdict[p] = NoVerdict /\ outcome[q] # "none"
  /\ verdict' = [verdict EXCEPT ![p] = [of |-> q, state |-> outcome[q]]]
  /\ UNCHANGED outcome

OpNext ==
  \/ \E q \in Requests : Accept(q)
  \/ Work
  \/ \E p, q \in Requests : Ask(p, q)

OpSpec == OpInit /\ [][OpNext]_<<outcome, verdict>>
=============================================================================
