-------------------------- MODULE BrokerRefinement --------------------------
(***************************************************************************)
(* The broker's operations, read recipe by recipe, implement the           *)
(* operations of module Operation, which are asked in one step.            *)
(***************************************************************************)
EXTENDS BrokerProperties

Done(x) == recipes[x].status = "complete"

\* Recipe i of data decides: all before it are complete and it is not.
Decides(data, i) ==
  LET list == RecipesOf(data)
  IN  /\ i \in DOMAIN list /\ ~Done(list[i])
      /\ \A j \in 1 .. i - 1 : Done(list[j])

\* The state of an operation: that of the first recipe that is not complete.
OutcomeOf(data) ==
  IF \A i \in DOMAIN RecipesOf(data) : Done(RecipesOf(data)[i]) THEN "op succeeded"
  ELSE IF \E i \in DOMAIN RecipesOf(data) :
            Decides(data, i) /\ State(recipes[RecipesOf(data)[i]].status) = "op failed"
  THEN "op failed" ELSE "op in progress"

Outcome == [q \in Requests |-> IF reply[q] = "accepted" THEN OutcomeOf(opdata[q]) ELSE "none"]

Verdicts == {"op in progress", "op succeeded", "op failed"}

Verdict ==
  [p \in Requests |->
     IF reply[p] \in Verdicts THEN [of |-> arg[p].of, state |-> reply[p]]
                             ELSE [of |-> Nil, state |-> "none"]]

Abstract == INSTANCE Operation WITH None <- Nil, outcome <- Outcome, verdict <- Verdict

\* A poll that takes several calls, each at a different moment, still gives
\* the state its operation is in at one moment, the last of them; and an
\* operation that has once succeeded or failed never changes again.  Without
\* faults of decoding, and for the statuses that the broker knows.
ImplementsOperation == Abstract!OpSpec

---------------------------------------------------------------------------
(* The inductive invariant behind ImplementsOperation and VerdictsAgree.   *)

\* Compose has handed out no recipe for r beyond the counter.
CountInv ==
  \A r \in Requests : \A x \in DOMAIN recipes : x \in {r} \X Nat => x[2] <= made[r]

\* Operation data names recipes that there are, all of them once accepted; a
\* request is answered once and for all.
OpDataInv ==
  \A r \in Requests :
    /\ opdata[r].recipe \in DOMAIN recipes \cup {Nil}
    /\ \A i \in DOMAIN opdata[r].whitelist : opdata[r].whitelist[i] \in DOMAIN recipes
    /\ pc[r] \in {"patch", "whitelist"} => opdata[r].recipe \in DOMAIN recipes
    /\ reply[r] = "accepted" => pc[r] = "done" /\ opdata[r].recipe \in DOMAIN recipes
    /\ reply[r] # "none" => pc[r] \in {"done", "cleanup"}
    /\ reply[r] \in Verdicts => pc[r] = "done"

\* A poll has read a part of the list, and all of it was complete.
ReadSoFar(list, rest) ==
  /\ Len(rest) <= Len(list)
  /\ \A i \in 1 .. Len(rest) : rest[i] = list[Len(list) - Len(rest) + i]
  /\ \A i \in 1 .. Len(list) - Len(rest) : Done(list[i])

PollInv ==
  \A p \in Requests : pc[p] = "poll" =>
    /\ arg[p].of \in Requests
    /\ reply[arg[p].of] = "accepted"
    /\ ReadSoFar(RecipesOf(opdata[arg[p].of]), todo[p])

\* A final verdict is the outcome of its operation.
VerdictInv ==
  \A p \in Requests : reply[p] \in {"op succeeded", "op failed"} =>
    /\ arg[p].of \in Requests
    /\ Outcome[arg[p].of] = reply[p]

KnownInv == CountInv /\ OpDataInv

\* The conditions under which the refinement holds: bodies decode, and every
\* status Compose uses is one the broker knows.
Decodes == "blank" \notin Faults
KnownStatuses == Statuses \subseteq DOMAIN BrokerState

---------------------------------------------------------------------------
(* The inductive invariant behind SucceededMeansDone, on top of the others.*)

\* What a recipe was to do is done once it is complete, and not undone.
EffectInv ==
  \A x \in DOMAIN recipes : Done(x) =>
    /\ recipes[x].kind = "whitelist" => recipes[x].ip \in deployments[recipes[x].on].admits
    /\ recipes[x].kind = "deprovision" => ~deployments[recipes[x].on].live

\* The operation data of a Deprovision names a recipe that deprovisions what
\* it found.
RetireInv ==
  \A r \in Requests : arg[r].op \in {"none", "Deprovision"} =>
    /\ pc[r] # "done" => opdata[r].recipe = Nil
    /\ arg[r].op = "Deprovision" /\ opdata[r].recipe # Nil =>
         /\ opdata[r].recipe \in DOMAIN recipes
         /\ recipes[opdata[r].recipe].kind = "deprovision"
         /\ recipes[opdata[r].recipe].on = found[r]

\* All recipes of what a poll called a success are complete.
SuccessInv ==
  \A p \in Requests : reply[p] = "op succeeded" =>
    /\ arg[p].of \in Requests
    /\ reply[arg[p].of] = "accepted"
    /\ \A i \in DOMAIN RecipesOf(opdata[arg[p].of]) : Done(RecipesOf(opdata[arg[p].of])[i])
=============================================================================
