-------------------------- MODULE BrokerProperties --------------------------
(***************************************************************************)
(* What the asynchronous operations of the broker promise.                 *)
(***************************************************************************)
EXTENDS Broker

\* Answered Provisions, and polls of request q.
Provisions == {r \in Requests : arg[r].op = "Provision" /\ pc[r] = "done"}
PollsOf(q) == {p \in Requests : arg[p].op = "LastOperation" /\ arg[p].of = q}

\* Some deprovision of d was accepted by Compose.
Deprovisioned(d) ==
  \E x \in DOMAIN recipes : recipes[x].kind = "deprovision" /\ recipes[x].on = d

\* The recipes that the operation data of an accepted Provision lists are one
\* for every configured address, in order, and all on the deployment whose
\* provisioning the operation data also names, whatever was retried meanwhile.
AcceptedCoversWhitelist ==
  \A r \in Provisions : reply[r] = "accepted" =>
    /\ Len(opdata[r].whitelist) = Len(IPWhitelist)
    /\ \A i \in DOMAIN IPWhitelist :
         LET x == opdata[r].whitelist[i]
         IN  /\ recipes[x].kind = "whitelist"
             /\ recipes[x].ip = IPWhitelist[i]
             /\ recipes[x].on = opdata[r].recipe

\* When LastOperation, reading recipes one at a time, says that an operation
\* succeeded, it has: a provisioned deployment is complete and admits every
\* configured address, a deprovisioned one is gone.
SucceededMeansDone ==
  \A q \in Requests : \A p \in PollsOf(q) : reply[p] = "op succeeded" =>
    /\ recipes[opdata[q].recipe].status = "complete"
    /\ arg[q].op = "Provision" =>
         \A i \in DOMAIN IPWhitelist :
           IPWhitelist[i] \in deployments[opdata[q].recipe].admits
    /\ arg[q].op = "Deprovision" => ~Live(found[q])

\* Two polls of one operation, in whatever processes they run and however
\* they interleave with Compose, never contradict each other for good.
VerdictsAgree ==
  \A q \in Requests : \A p1, p2 \in PollsOf(q) :
    ~(reply[p1] = "op succeeded" /\ reply[p2] = "op failed")

\* A Provision that answers an error while it holds a deployment leaves a
\* trace: Compose has accepted to deprovision it, or the log says it did not.
NoSilentLeak ==
  \A r \in Provisions : reply[r] = "failed" /\ dep[r] # Nil =>
    Deprovisioned(dep[r]) \/ logged[r]

\* The same for every deployment Compose has told the broker of, held or not.
\* api_test.go has it that an error situation deprovisions.
ErrorsDeprovision ==
  \A r \in Provisions : reply[r] = "failed" /\ opdata[r].recipe # Nil =>
    Deprovisioned(opdata[r].recipe) \/ logged[r]

\* No space ever gets a deployment filled with the data of another space,
\* also along chains of restores and whatever happens to the source between
\* the check and the restore.
OnlyOwnData ==
  \A r \in Requests : \A d \in DOMAIN deployments :
    d \in {r} \X Nat => deployments[d].data = arg[r].space

\* Every deployment is of the type of the plan that was asked for, though a
\* restore never tells Compose the type.
OnlyWantedType ==
  \A r \in Requests : \A d \in DOMAIN deployments :
    d \in {r} \X Nat => deployments[d].type = WantedType(r)

\* "Latest snapshot": a restored deployment is no older than any restorable
\* backup of its source that was there when the request came in, and it comes
\* from a backup of the instance that was named.
FreshSnapshot ==
  \A r \in Requests : \A d \in DOMAIN deployments :
    d \in {r} \X Nat /\ deployments[d].from # 0 =>
      LET b == deployments[d].from
      IN  /\ b \in Restorable(backups[b].of)
          /\ deployments[backups[b].of].name = arg[r].source
          /\ \A c \in Restorable(backups[b].of) : c <= began[r] => c <= b

\* Whatever a request changes at Compose is on the instance it names; only a
\* Deprovision, and a Provision that is not accepted, gets a deployment
\* deprovisioned, the latter only one of its own: a failed restore never
\* touches its source.
TouchesOnlyNamed ==
  \A r \in Requests : \A x \in DOMAIN recipes : x \in {r} \X Nat =>
    /\ deployments[recipes[x].on].name = arg[r].instance
    /\ recipes[x].kind = "deprovision" =>
         \/ arg[r].op = "Deprovision"
         \/ /\ arg[r].op = "Provision"
            /\ recipes[x].on \in {r} \X Nat
            /\ reply[r] \notin {"none", "accepted"}

\* No more than one deployment was ever called i.
Single(i) == \A c, d \in DOMAIN deployments :
  deployments[c].name = i /\ deployments[d].name = i => c = d

\* "Instance does not exist" is true: no deployment that was there before the
\* requests came in, and is called so, is still alive.  The platform forgets
\* the instance on this answer.  Of two deployments of one name, which the
\* broker makes when a PUT is repeated, it may find the other.
GoneMeansGone ==
  \A r \in Requests : reply[r] = "gone" /\ Single(arg[r].instance) =>
    \A d \in DOMAIN Existing : Existing[d].name = arg[r].instance => ~Live(d)

Loop == INSTANCE NewestBackup

\* The orders in which Compose may list the backups of d.
ListOrders(d) ==
  LET mine == {b \in DOMAIN backups : backups[b].of = d}
  IN  {order \in [1 .. Cardinality(mine) -> mine] : \A b \in mine : \E k \in DOMAIN order : order[k] = b}

\* Compose's answer with the backups in this order; a position is a date.
Listed(order) ==
  [k \in DOMAIN order |-> [createdAt |-> order[k], restorable |-> backups[order[k]].restorable]]

\* When a request has come to GetBackups, the loop of newestRestorableBackup
\* chooses what GetBackups takes for its result, in whatever order Compose lists
\* the backups that there are by then.
ChoosesNewest ==
  \A r \in Requests : pc[r] = "backups" =>
    \A order \in ListOrders(found[r]) :
      LET n == Loop!newestRestorableBackup(Listed(order))
      IN  IF Restorable(found[r]) = {} THEN n = 0
          ELSE n \in DOMAIN order /\ IsNewestRestorable(order[n], found[r])

\* Every request that comes in is answered, through repetitions, clean-up and
\* panics.
EveryRequestAnswered ==
  \A r \in Requests : pc[r] # "idle" ~> pc[r] = "done"

---------------------------------------------------------------------------
(* The inductive invariant behind TypeOK, OnlyOwnData and OnlyWantedType.  *)

\* What a request asks for is complete where the code relies on it.
ArgsInv ==
  \A r \in Requests :
    /\ pc[r] \in {"create", "backups", "restore", "patch", "whitelist", "cleanup"}
         => arg[r].op = "Provision"
    /\ arg[r].op = "Provision" =>
         /\ arg[r].instance \in Instances
         /\ arg[r].space \in Spaces
         /\ Offered(arg[r].service, arg[r].plan)

\* The loops have something left to do while they run.
LoopInv ==
  \A r \in Requests :
    /\ pc[r] = "whitelist" => Len(opdata[r].whitelist) < Len(IPWhitelist)
    /\ pc[r] \notin {"whitelist", "cleanup", "done"} => opdata[r].whitelist = <<>>
    /\ pc[r] = "poll" => todo[r] # <<>>

\* A whitelist recipe admits an address.
RecipeInv == \A x \in DOMAIN recipes : recipes[x].kind = "whitelist" => recipes[x].ip \in IPs

TypeInv == TypeOK /\ ArgsInv /\ LoopInv /\ RecipeInv

\* What request r made is as it asked, and there is none before it came in.
OwnInv ==
  \A r \in Requests : \A d \in DOMAIN deployments : d \in {r} \X Nat =>
    /\ pc[r] # "idle"
    /\ deployments[d].data = arg[r].space
    /\ deployments[d].type = WantedType(r)

\* The billing code, once written, tells whose data a deployment holds.
SpaceInv == \A d \in DOMAIN deployments : deployments[d].space \in {Nil, deployments[d].data}

\* A source that passed the checks still passes them when it is restored.
SourceInv ==
  \A r \in Requests : pc[r] \in {"backups", "restore"} =>
    /\ found[r] \in DOMAIN deployments
    /\ deployments[found[r]].data = arg[r].space
    /\ deployments[found[r]].type = WantedType(r)

\* Provision goes on only with a deployment of its own.
TargetInv == \A r \in Requests : dep[r] \in {Nil} \cup {r} \X Nat

DataInv == OwnInv /\ SpaceInv /\ SourceInv /\ TargetInv

BrokerInv == TypeInv /\ DataInv

---------------------------------------------------------------------------
(* The inductive invariant behind AcceptedCoversWhitelist, NoSilentLeak,   *)
(* TouchesOnlyNamed and FreshSnapshot, on top of BrokerInv.                *)

\* What r has made.
OwnDeployments(r) == DOMAIN deployments \cap ({r} \X Nat)
OwnRecipes(r) == DOMAIN recipes \cap ({r} \X Nat)

\* Recipes and backups are of deployments there are, and Compose has handed
\* out no identifier for r beyond the counter.
ReferInv ==
  /\ \A x \in DOMAIN recipes : recipes[x].on \in DOMAIN deployments
  /\ \A b \in DOMAIN backups : backups[b].of \in DOMAIN deployments
  /\ \A r \in Requests : \A e \in OwnDeployments(r) \cup OwnRecipes(r) : e[2] <= made[r]

\* Before it comes in a request has made nothing, until its last call it has
\* no answer, and what Provision holds is a deployment there is.
CourseInv(r) ==
  /\ pc[r] = "idle" =>
       arg[r].op = "none" /\ OwnDeployments(r) = {} /\ OwnRecipes(r) = {}
  /\ pc[r] = "deprovision" => arg[r].op = "Deprovision"
  /\ pc[r] = "scale" => arg[r].op = "Update"
  /\ reply[r] # "none" => pc[r] \in {"cleanup", "done"}
  /\ pc[r] = "cleanup" => reply[r] \in {"failed", "dropped"}
  /\ dep[r] # Nil => dep[r] \in DOMAIN deployments
  /\ pc[r] \notin {"patch", "whitelist", "cleanup", "done"} => dep[r] = Nil

\* b is a backup of d, as recent as any there was when r came in.
IsFresh(r, b, d) ==
  b \in Restorable(d) /\ \A c \in Restorable(d) : c <= began[r] => c <= b

\* b is such a backup of a deployment called as the source r names.
WellChosen(r, b) ==
  /\ b \in DOMAIN backups
  /\ IsFresh(r, b, backups[b].of)
  /\ deployments[backups[b].of].name = arg[r].source

\* What r made is, or is on, the instance it names, and what it restored is
\* from a backup that is still well chosen.
MadeInv(r) ==
  /\ began[r] <= Len(backups)
  /\ \A d \in OwnDeployments(r) :
       /\ deployments[d].name = arg[r].instance
       /\ deployments[d].from # 0 => WellChosen(r, deployments[d].from)
  /\ \A x \in OwnRecipes(r) : deployments[recipes[x].on].name = arg[r].instance

\* What r found is called as it should be, and so is what it will restore.
FoundInv(r) ==
  /\ pc[r] \in {"get", "backups", "restore", "deprovision", "scale"} /\ found[r] # Nil =>
       found[r] \in DOMAIN deployments /\ deployments[found[r]].name = Sought(r)
  /\ pc[r] = "restore" => IsFresh(r, snap[r], found[r])

\* Who may have a deployment deprovisioned: see TouchesOnlyNamed.
TouchInv(r) ==
  \A x \in OwnRecipes(r) : recipes[x].kind = "deprovision" =>
    \/ arg[r].op = "Deprovision"
    \/ /\ arg[r].op = "Provision"
       /\ recipes[x].on \in {r} \X Nat
       /\ reply[r] \notin {"none", "accepted"}

\* x is a recipe that whitelists the i-th address on deployment d.
Whitelists(x, i, d) ==
  /\ x \in DOMAIN recipes
  /\ recipes[x].kind = "whitelist"
  /\ recipes[x].ip = IPWhitelist[i]
  /\ recipes[x].on = d

\* The whitelist recipes r has so far are those of the first addresses.
CoverInv(r) ==
  arg[r].op = "Provision" =>
    /\ dep[r] # Nil => dep[r] = opdata[r].recipe
    /\ \A i \in DOMAIN opdata[r].whitelist :
         Whitelists(opdata[r].whitelist[i], i, opdata[r].recipe)
    /\ reply[r] = "accepted" => Len(opdata[r].whitelist) = Len(IPWhitelist)

\* NoSilentLeak for r.
LeakInv(r) ==
  arg[r].op = "Provision" /\ pc[r] = "done" /\ reply[r] = "failed" /\ dep[r] # Nil =>
    Deprovisioned(dep[r]) \/ logged[r]

SafeInv ==
  /\ ReferInv
  /\ \A r \in Requests :
       CourseInv(r) /\ MadeInv(r) /\ FoundInv(r) /\ TouchInv(r) /\ CoverInv(r) /\ LeakInv(r)
---------------------------------------------------------------------------
(* The inductive invariant behind GoneMeansGone, on top of those above.    *)

\* No deployment is forgotten, and whoever looks a deployment up has found
\* one to look up.
GoneInv ==
  /\ \A d \in DOMAIN Existing :
       d \in DOMAIN deployments /\ deployments[d].name = Existing[d].name
  /\ \A r \in Requests : pc[r] = "get" => found[r] # Nil
  /\ GoneMeansGone
---------------------------------------------------------------------------
(* Who made what, on top of BrokerInv and SafeInv.                         *)

\* Only Provision makes deployments, and operation data names one's own.
MakerInv ==
  \A r \in Requests :
    /\ OwnDeployments(r) # {} => arg[r].op = "Provision"
    /\ opdata[r].recipe \in {Nil} \cup {r} \X Nat
=============================================================================
