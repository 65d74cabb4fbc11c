------------------------------- MODULE Broker -------------------------------
(***************************************************************************)
(* The handlers of broker/broker.go that run asynchronous operations:      *)
(* Provision, Deprovision, Update and LastOperation.                       *)
(*                                                                         *)
(* The broker keeps no state of its own.  Each request runs in a goroutine *)
(* of one of the broker's processes and holds only local variables; what   *)
(* the handlers share is the state of Compose.  So every request r is a    *)
(* little process, pc[r] names the call to Compose it makes next, and one  *)
(* step is that call with the code up to the next one.  The steps of       *)
(* requests interleave freely, in one process or in several.               *)
(***************************************************************************)
EXTENDS Compose

CONSTANTS
  Catalog,       \* service -> plan -> database type (catalog/catalog.go)
  IPWhitelist,   \* the configured addresses, in order (config/config.go)
  Ops,           \* request -> the operations it may ask for
  Faults,        \* what can go wrong besides an error status: see Answers
  Retries        \* how often the client repeats a call that may be repeated

VARIABLES
  pc,       \* request -> the call it makes next, "idle" or "done"
  arg,      \* request -> what it asks for
  found,    \* request -> what findDeployment returned
  dep,      \* request -> the deployment Provision made, Nil when it has none
  snap,     \* request -> the backup chosen to restore, 0 before
  opdata,   \* request -> the operation data being put together
  todo,     \* request -> the recipes LastOperation has yet to read
  tries,    \* request -> how often the current call was repeated
  logged,   \* request -> whether "failed-deprovision" was logged
  reply,    \* request -> the answer to the platform
  began     \* history: how many backups there were when the request came in

locals == <<pc, arg, found, dep, snap, opdata, todo, tries, logged, reply, began>>
vars == <<composeVars, locals>>

AllFaults == {"again", "blank", "panic", "crash"}
AllOps == {"Provision", "Deprovision", "Update", "LastOperation"}

ASSUME CatalogAssumption ==
  /\ \A s \in DOMAIN Catalog : Catalog[s] \in [DOMAIN Catalog[s] -> Types]
  /\ Nil \notin DOMAIN Catalog
  /\ \A s \in DOMAIN Catalog : Nil \notin DOMAIN Catalog[s]

ASSUME WhitelistAssumption == IPWhitelist \in Seq(IPs)

ASSUME InputAssumption == Faults \subseteq AllFaults /\ Ops \in [Requests -> SUBSET AllOps]

ASSUME RetryAssumption == Retries \in Nat

Services == DOMAIN Catalog \cup {Nil}
OfferedPlans == UNION {DOMAIN Catalog[s] : s \in DOMAIN Catalog}
Plans == OfferedPlans \cup {Nil}

\* Catalog.GetService and Service.GetPlan both find what they look for.
Offered(s, p) == s \in DOMAIN Catalog /\ p \in DOMAIN Catalog[s]

\* plan.Compose.DatabaseType of the plan request r asks for.
WantedType(r) == Catalog[arg[r].service][arg[r].plan]

Arg ==
  [op : AllOps \cup {"none"}, instance : Instances \cup {Nil},
   service : Services, plan : Plans, previous : Plans,
   space : Spaces \cup {Nil}, source : Instances \cup {Nil},
   of : Requests \cup {Nil}]

NoArg ==
  [op |-> "none", instance |-> Nil, service |-> Nil, plan |-> Nil,
   previous |-> Nil, space |-> Nil, source |-> Nil, of |-> Nil]

NoOpData == [recipe |-> Nil, whitelist |-> <<>>]

Calls == {"create", "list", "get", "backups", "restore", "patch", "whitelist",
          "cleanup", "deprovision", "scale", "poll"}

Replies == {"none", "accepted", "refused", "gone", "failed", "dropped",
            "op succeeded", "op in progress", "op failed"}

LocalsTypeOK ==
  /\ pc \in [Requests -> Calls \cup {"idle", "done"}]
  /\ arg \in [Requests -> Arg]
  /\ found \in [Requests -> Ids \cup {Nil}]
  /\ dep \in [Requests -> Ids \cup {Nil}]
  /\ snap \in [Requests -> Nat]
  /\ opdata \in [Requests -> [recipe : Ids \cup {Nil}, whitelist : Seq(Ids)]]
  /\ todo \in [Requests -> Seq(Ids \cup {Nil})]
  /\ tries \in [Requests -> 0 .. Retries]
  /\ logged \in [Requests -> BOOLEAN]
  /\ reply \in [Requests -> Replies]
  /\ began \in [Requests -> Nat]

\* Types of all variables: a request is at a known call, what it holds are
\* identifiers Compose gave out, and it repeats a call no more than allowed.
TypeOK == ComposeTypeOK /\ LocalsTypeOK

Init ==
  /\ ComposeInit
  /\ pc = [r \in Requests |-> "idle"]
  /\ arg = [r \in Requests |-> NoArg]
  /\ found = [r \in Requests |-> Nil]
  /\ dep = [r \in Requests |-> Nil]
  /\ snap = [r \in Requests |-> 0]
  /\ opdata = [r \in Requests |-> NoOpData]
  /\ todo = [r \in Requests |-> <<>>]
  /\ tries = [r \in Requests |-> 0]
  /\ logged = [r \in Requests |-> FALSE]
  /\ reply = [r \in Requests |-> "none"]
  /\ began = [r \in Requests |-> 0]

---------------------------------------------------------------------------
(* A call to Compose through the vendored client.                          *)

\* How a call ends.  "ok": the expected status and a whole body.  "error":
\* any other status.  "again": one of the statuses the client repeats the
\* call after, while it has repetitions left.  "blank": the expected status
\* with a body whose fields do not decode, which the client does not notice.
\* "panic": no response at all, where the client dereferences nil.
Answers(r) ==
  {"ok", "error"} \cup
  {a \in Faults \cap {"again", "blank", "panic"} : a = "again" => tries[r] < Retries}

\* A repetition is counted (gorequest's Attempt); a new call starts from none.
Count(r, answer) ==
  tries' = [tries EXCEPT ![r] = IF answer = "again" THEN @ + 1 ELSE 0]

\* A changing call of r ends with answer, and Compose did perform it or not.
\* Only a call that is possible is performed, and what was performed may
\* still be answered with an error or not at all.
Exchange(r, answer, done, possible) ==
  /\ answer \in Answers(r)
  /\ answer \in {"ok", "blank"} => done
  /\ done => possible
  /\ Count(r, answer)

\* A call that reads: repeating it changes nothing, so only its last answer
\* is a step.
Reads(r, answer) ==
  /\ answer \in Answers(r) \ {"again"}
  /\ UNCHANGED <<composeVars, tries>>

Goto(r, label) == pc' = [pc EXCEPT ![r] = label]

\* The handler returns; the platform gets the answer.
Reply(r, answer) == Goto(r, "done") /\ reply' = [reply EXCEPT ![r] = answer]

\* Seeded faults: for TypeOK, the client's error goes out as it is; for
\* GoneMeansGone, every error of Compose is taken for "not found".
FailureUnmapped(answer) == answer
FailureAsGone(answer) == IF answer = "panic" THEN "dropped" ELSE "gone"

\* What the platform gets when a call ends badly and the handler stops: 500,
\* or a closed connection when net/http recovers the panic.
Failure(answer) == IF answer = "panic" THEN "dropped" ELSE "failed"

\* Seeded fault for EveryRequestAnswered: a failed GET starts the look-up of
\* the deployment over, with no limit.
LookUpForever(r, answer) ==
  IF answer = "again" THEN UNCHANGED <<pc, reply>>
  ELSE IF answer = "error" /\ pc[r] = "get" THEN Goto(r, "list") /\ UNCHANGED reply
  ELSE Reply(r, Failure(answer))

\* The handler makes the call again, or gives up.
GiveUp(r, answer) ==
  IF answer = "again" THEN UNCHANGED <<pc, reply>> ELSE Reply(r, Failure(answer))

---------------------------------------------------------------------------
(* Requests come in.                                                       *)

Begin(r, a, label) ==
  /\ Goto(r, label)
  /\ arg' = [arg EXCEPT ![r] = a]
  /\ began' = [began EXCEPT ![r] = Len(backups)]
  /\ UNCHANGED reply

\* Answered before any call to Compose; what was asked for is forgotten.
Refuse(r) == Reply(r, "refused") /\ UNCHANGED <<arg, began>>

\* Provision up to its first call.  valid: the parameters parse, hold no
\* unknown key, and do not name an empty instance to restore from.
ReceiveProvision(r) ==
  \E async, valid \in BOOLEAN, i \in Instances, source \in Instances \cup {Nil},
     s \in Services, p \in Plans, space \in Spaces :
    /\ IF async /\ valid /\ Offered(s, p)
         THEN Begin(r, [NoArg EXCEPT !.op = "Provision", !.instance = i, !.service = s,
                          !.plan = p, !.space = space, !.source = source],
                    IF source = Nil THEN "create" ELSE "list")
         ELSE Refuse(r)
    /\ UNCHANGED todo

ReceiveDeprovision(r) ==
  \E async \in BOOLEAN, i \in Instances :
    /\ IF async
         THEN Begin(r, [NoArg EXCEPT !.op = "Deprovision", !.instance = i], "list")
         ELSE Refuse(r)
    /\ UNCHANGED todo

\* The plan is looked up only after the deployment: see Got.
ReceiveUpdate(r) ==
  \E async \in BOOLEAN, i \in Instances, s \in Services, p, previous \in Plans :
    /\ IF async /\ s \in DOMAIN Catalog
         THEN Begin(r, [NoArg EXCEPT !.op = "Update", !.instance = i, !.service = s,
                          !.plan = p, !.previous = previous], "list")
         ELSE Refuse(r)
    /\ UNCHANGED todo

\* Seeded fault for SucceededMeansDone: the whitelist is not waited for.
RecipesOfDeployment(data) == <<data.recipe>>

\* The recipes LastOperation reads, in order: the deployment's, then the
\* whitelist's.
RecipesOf(data) == <<data.recipe>> \o data.whitelist

\* The platform hands back the operation data of an accepted request q, or
\* something that is not operation data.
ReceiveLastOperation(r) ==
  \/ \E q \in Requests :
       /\ reply[q] = "accepted"
       /\ Begin(r, [NoArg EXCEPT !.op = "LastOperation", !.of = q], "poll")
       /\ todo' = [todo EXCEPT ![r] = RecipesOf(opdata[q])]
  \/ Refuse(r) /\ UNCHANGED todo

Receive(r) ==
  /\ pc[r] = "idle"
  /\ \/ "Provision" \in Ops[r] /\ ReceiveProvision(r)
     \/ "Deprovision" \in Ops[r] /\ ReceiveDeprovision(r)
     \/ "Update" \in Ops[r] /\ ReceiveUpdate(r)
     \/ "LastOperation" \in Ops[r] /\ ReceiveLastOperation(r)
  /\ UNCHANGED <<composeVars, found, dep, snap, opdata, tries, logged>>

---------------------------------------------------------------------------
(* findDeployment, shared by every handler that works on a deployment that *)
(* should be there: a list, then a GET of the first one of that name.      *)

\* Seeded fault for TouchesOnlyNamed: the first deployment listed will do,
\* whatever its name.
AnyName(r) == CHOOSE i \in Instances : Named(i) # {}

\* The instance findDeployment is called for.
Sought(r) == IF arg[r].op = "Provision" THEN arg[r].source ELSE arg[r].instance

\* errDeploymentNotFound: Provision makes a plain error of it, the others
\* ErrInstanceDoesNotExist.
NotFound(r) == Reply(r, IF arg[r].op = "Provision" THEN "failed" ELSE "gone")

List(r) ==
  /\ pc[r] = "list"
  /\ \E answer \in AllFaults \cup {"ok", "error"} :
       /\ Reads(r, answer)
       /\ \/ /\ answer = "ok"
             /\ \E d \in Named(Sought(r)) : found' = [found EXCEPT ![r] = d]
             /\ Goto(r, "get") /\ UNCHANGED reply
          \/ /\ answer = "ok" /\ Named(Sought(r)) = {}
             /\ NotFound(r) /\ UNCHANGED found
          \/ answer = "blank" /\ NotFound(r) /\ UNCHANGED found
          \/ answer \in {"error", "panic"} /\ GiveUp(r, answer) /\ UNCHANGED found
  /\ UNCHANGED <<arg, dep, snap, opdata, todo, logged, began>>

\* Seeded fault for OnlyOwnData and OnlyWantedType: a check is left out.
AnyDeployment(r, d) == d # Nil

\* The two checks of createDeploymentFromLatestSnapshot.  d is what the GET
\* decoded to, all fields empty when that is Nil.
SameSpace(r, d) == d # Nil /\ deployments[d].space = arg[r].space
SameType(r, d) == d # Nil /\ deployments[d].type = WantedType(r)

MayRestore(r, d) == SameSpace(r, d) /\ SameType(r, d)

\* Update's checks after findDeployment.
MayScale(r) == arg[r].plan = arg[r].previous /\ Offered(arg[r].service, arg[r].plan)

\* The handler goes on with the deployment it got.
Got(r, d) ==
  \/ arg[r].op = "Deprovision" /\ Goto(r, "deprovision") /\ UNCHANGED reply
  \/ /\ arg[r].op = "Provision"
     /\ IF MayRestore(r, d) THEN Goto(r, "backups") /\ UNCHANGED reply
                            ELSE Reply(r, "failed")
  \/ /\ arg[r].op = "Update"
     /\ IF MayScale(r) THEN Goto(r, "scale") /\ UNCHANGED reply
                       ELSE Reply(r, "failed")

\* The deployment listed may be gone by now; whether the text of that error
\* is the one findDeployment looks for is up to Compose.
Get(r) ==
  /\ pc[r] = "get"
  /\ \E answer \in AllFaults \cup {"ok", "error"} :
       /\ Reads(r, answer)
       /\ \/ answer = "ok" /\ Live(found[r]) /\ Got(r, found[r]) /\ UNCHANGED found
          \/ answer = "blank" /\ Got(r, Nil) /\ found' = [found EXCEPT ![r] = Nil]
          \/ answer = "error" /\ ~Live(found[r]) /\ NotFound(r) /\ UNCHANGED found
          \/ answer \in {"error", "panic"} /\ GiveUp(r, answer) /\ UNCHANGED found
  /\ UNCHANGED <<arg, dep, snap, opdata, todo, logged, began>>

---------------------------------------------------------------------------
(* Provision.                                                              *)

\* Seeded fault for AcceptedCoversWhitelist: the loop stops one short.
AllButOneWhitelisted(ids) == Len(ids) + 1 >= Len(IPWhitelist)

\* Every configured address has a recipe.
AllWhitelisted(ids) == Len(ids) = Len(IPWhitelist)

\* Seeded fault for TouchesOnlyNamed: ok is never set, so that the deferred
\* function also runs after a success.
WhitelistNeverOk(r, ids) ==
  IF AllWhitelisted(ids) THEN Goto(r, "cleanup") /\ reply' = [reply EXCEPT ![r] = "accepted"]
                         ELSE Goto(r, "whitelist") /\ UNCHANGED reply

\* Provision goes round its whitelist loop, or has come to its end.
Whitelist(r, ids) == IF AllWhitelisted(ids) THEN Reply(r, "accepted")
                                            ELSE Goto(r, "whitelist") /\ UNCHANGED reply

\* createDeployment.
Create(r) ==
  /\ pc[r] = "create"
  /\ \E answer \in AllFaults \cup {"ok", "error"}, done \in BOOLEAN :
       /\ Exchange(r, answer, done, TRUE)
       /\ IF done THEN NewDeployment(r, arg[r].instance, WantedType(r), arg[r].space, arg[r].space, 0)
                  ELSE UNCHANGED composeVars
       /\ \/ /\ answer = "ok"
             /\ dep' = [dep EXCEPT ![r] = Fresh(r)]
             /\ opdata' = [opdata EXCEPT ![r].recipe = Fresh(r)]
             /\ Whitelist(r, <<>>)
          \/ answer = "blank" /\ Whitelist(r, <<>>) /\ UNCHANGED <<dep, opdata>>
          \/ answer \in {"again", "error", "panic"} /\ GiveUp(r, answer) /\ UNCHANGED <<dep, opdata>>
  /\ UNCHANGED <<arg, found, snap, todo, logged, began>>

\* The backups of d that can be restored.
Restorable(d) == {b \in DOMAIN backups : backups[b].of = d /\ backups[b].restorable}

\* Seeded fault for FreshSnapshot: the comparison of dates is the wrong way.
IsOldestRestorable(b, d) == b \in Restorable(d) /\ \A c \in Restorable(d) : b <= c

\* newestRestorableBackup: backups are numbered in the order they are taken.
IsNewestRestorable(b, d) == b \in Restorable(d) /\ \A c \in Restorable(d) : c <= b

GetBackups(r) ==
  /\ pc[r] = "backups"
  /\ \E answer \in AllFaults \cup {"ok", "error"} :
       /\ Reads(r, answer)
       /\ \/ /\ answer = "ok"
             /\ \E b \in DOMAIN backups :
                  IsNewestRestorable(b, found[r]) /\ snap' = [snap EXCEPT ![r] = b]
             /\ Goto(r, "restore") /\ UNCHANGED reply
          \/ answer = "ok" /\ Restorable(found[r]) = {} /\ Reply(r, "failed") /\ UNCHANGED snap
          \/ answer = "blank" /\ Reply(r, "failed") /\ UNCHANGED snap
          \/ answer \in {"error", "panic"} /\ GiveUp(r, answer) /\ UNCHANGED snap
  /\ UNCHANGED <<arg, found, dep, opdata, todo, logged, began>>

\* The restored deployment has the source's type and data, and no billing
\* code yet.
Restore(r) ==
  /\ pc[r] = "restore"
  /\ \E answer \in AllFaults \cup {"ok", "error"}, done \in BOOLEAN :
       /\ Exchange(r, answer, done, Live(found[r]))
       /\ IF done THEN NewDeployment(r, arg[r].instance, deployments[found[r]].type, Nil,
                                     deployments[found[r]].data, snap[r])
                  ELSE UNCHANGED composeVars
       /\ \/ /\ answer = "ok"
             /\ dep' = [dep EXCEPT ![r] = Fresh(r)]
             /\ opdata' = [opdata EXCEPT ![r].recipe = Fresh(r)]
             /\ Goto(r, "patch") /\ UNCHANGED reply
          \/ answer = "blank" /\ Goto(r, "patch") /\ UNCHANGED <<dep, opdata, reply>>
          \/ answer \in {"again", "error", "panic"} /\ GiveUp(r, answer) /\ UNCHANGED <<dep, opdata>>
  /\ UNCHANGED <<arg, found, snap, todo, logged, began>>

\* A failure here returns no deployment to Provision, whose deferred clean-up
\* is not installed yet.
Patch(r) ==
  /\ pc[r] = "patch"
  /\ \E answer \in AllFaults \cup {"ok", "error"}, done \in BOOLEAN :
       /\ Exchange(r, answer, done, Live(dep[r]))
       /\ IF done THEN SetSpace(dep[r], arg[r].space) ELSE UNCHANGED composeVars
       /\ \/ answer = "ok" /\ Whitelist(r, <<>>) /\ UNCHANGED dep
          \/ answer = "blank" /\ Whitelist(r, <<>>) /\ dep' = [dep EXCEPT ![r] = Nil]
          \/ answer = "again" /\ GiveUp(r, answer) /\ UNCHANGED dep
          \/ answer \in {"error", "panic"} /\ GiveUp(r, answer) /\ dep' = [dep EXCEPT ![r] = Nil]
  /\ UNCHANGED <<arg, found, snap, opdata, todo, logged, began>>

\* Seeded fault for NoSilentLeak: nothing is deferred.
RunNothing(r, answer) == Reply(r, Failure(answer))

\* Provision stops with a deployment in hand: its deferred function runs
\* before the platform gets the answer.
RunDeferred(r, answer) == Goto(r, "cleanup") /\ reply' = [reply EXCEPT ![r] = Failure(answer)]

\* One round of the whitelist loop.
AddWhitelist(r) ==
  /\ pc[r] = "whitelist"
  /\ LET ids == opdata[r].whitelist
         ip == IPWhitelist[Len(ids) + 1]
     IN  \E answer \in AllFaults \cup {"ok", "error"}, done \in BOOLEAN :
           /\ Exchange(r, answer, done, Live(dep[r]))
           /\ IF done THEN NewRecipe(r, "whitelist", dep[r], ip) ELSE UNCHANGED composeVars
           /\ \/ /\ answer = "ok"
                 /\ opdata' = [opdata EXCEPT ![r].whitelist = Append(ids, Fresh(r))]
                 /\ Whitelist(r, Append(ids, Fresh(r)))
              \/ answer = "again" /\ GiveUp(r, answer) /\ UNCHANGED opdata
              \/ answer \in {"error", "blank", "panic"} /\ RunDeferred(r, answer) /\ UNCHANGED opdata
  /\ UNCHANGED <<arg, found, dep, snap, todo, logged, began>>

\* The deferred function: its own failure is only logged.
Cleanup(r) ==
  /\ pc[r] = "cleanup"
  /\ \E answer \in AllFaults \cup {"ok", "error"}, done \in BOOLEAN :
       /\ Exchange(r, answer, done, Live(dep[r]))
       /\ IF done THEN NewRecipe(r, "deprovision", dep[r], Nil) ELSE UNCHANGED composeVars
       /\ \/ answer \in {"ok", "blank"} /\ Goto(r, "done") /\ UNCHANGED <<reply, logged>>
          \/ answer = "error" /\ Goto(r, "done") /\ logged' = [logged EXCEPT ![r] = TRUE] /\ UNCHANGED reply
          \/ answer \in {"again", "panic"} /\ GiveUp(r, answer) /\ UNCHANGED logged
  /\ UNCHANGED <<arg, found, dep, snap, opdata, todo, began>>

---------------------------------------------------------------------------
(* Deprovision, Update and LastOperation after their first calls.          *)

\* The last call of Deprovision and of Update: its recipe is the operation
\* data, empty when it did not decode.
LastCall(r, kind) ==
  /\ \E answer \in AllFaults \cup {"ok", "error"}, done \in BOOLEAN :
       /\ Exchange(r, answer, done, Live(found[r]))
       /\ IF done THEN NewRecipe(r, kind, found[r], Nil) ELSE UNCHANGED composeVars
       /\ \/ /\ answer = "ok"
             /\ opdata' = [opdata EXCEPT ![r].recipe = Fresh(r)]
             /\ Reply(r, "accepted")
          \/ answer = "blank" /\ Reply(r, "accepted") /\ UNCHANGED opdata
          \/ answer \in {"again", "error", "panic"} /\ GiveUp(r, answer) /\ UNCHANGED opdata
  /\ UNCHANGED <<arg, found, dep, snap, todo, logged, began>>

Deprovision(r) == pc[r] = "deprovision" /\ LastCall(r, "deprovision")

Update(r) == pc[r] = "scale" /\ LastCall(r, "scale")

\* composeStatus2BrokerAPIState.
BrokerState ==
  [complete |-> "op succeeded", running |-> "op in progress",
   waiting |-> "op in progress", failed |-> "op failed"]

\* Seeded faults: for VerdictsAgree, the table lacks "waiting"; for
\* SucceededMeansDone, "waiting" is as good as "complete".
StateWithoutWaiting(status) ==
  IF status \in DOMAIN BrokerState \ {"waiting"} THEN BrokerState[status] ELSE "op failed"
StateOptimistic(status) ==
  IF status = "waiting" THEN "op succeeded"
  ELSE IF status \in DOMAIN BrokerState THEN BrokerState[status] ELSE "op failed"

\* lookupBrokerAPIState: a status the table lacks is a failure.
State(status) == IF status \in DOMAIN BrokerState THEN BrokerState[status] ELSE "op failed"

\* The status GetRecipe decodes, Nil when the body holds none.
Status(x, answer) == IF answer = "blank" THEN Nil ELSE recipes[x].status

\* Seeded fault for ImplementsOperation: a recipe in progress does not end
\* the loop, so that a later one can be what is reported.
GoesOnUnlessFailed(r, state) == state # "op failed" /\ Len(todo[r]) > 1

\* The loop ends at the first recipe that has not succeeded, or the last one.
GoesOn(r, state) == state = "op succeeded" /\ Len(todo[r]) > 1

\* LastOperation reads one recipe.
Poll(r) ==
  /\ pc[r] = "poll"
  /\ LET x == Head(todo[r])
     IN  \E answer \in AllFaults \cup {"ok", "error"} :
           /\ Reads(r, answer)
           /\ \/ /\ (answer = "ok" /\ x \in DOMAIN recipes) \/ answer = "blank"
                 /\ IF GoesOn(r, State(Status(x, answer)))
                      THEN UNCHANGED <<pc, reply>>
                      ELSE Reply(r, State(Status(x, answer)))
              \/ answer \in {"error", "panic"} /\ GiveUp(r, answer)
  /\ todo' = [todo EXCEPT ![r] = Tail(@)]
  /\ UNCHANGED <<arg, found, dep, snap, opdata, logged, began>>

---------------------------------------------------------------------------

\* The code a request runs between coming in and being answered.
Handle(r) ==
  \/ List(r) \/ Get(r)
  \/ Create(r) \/ GetBackups(r) \/ Restore(r) \/ Patch(r) \/ AddWhitelist(r) \/ Cleanup(r)
  \/ Deprovision(r) \/ Update(r) \/ Poll(r)

\* The process that runs r is killed: nothing deferred runs.
Crash(r) ==
  /\ "crash" \in Faults
  /\ pc[r] \in Calls
  /\ Reply(r, "dropped")
  /\ UNCHANGED <<composeVars, arg, found, dep, snap, opdata, todo, tries, logged, began>>

\* All requests are answered.
Quiet == (\A r \in Requests : pc[r] = "done") /\ UNCHANGED vars

Next ==
  \/ \E r \in Requests : Receive(r) \/ Handle(r) \/ Crash(r)
  \/ ComposeStep /\ UNCHANGED locals
  \/ Quiet

Spec == Init /\ [][Next]_vars

\* The Go scheduler runs every goroutine, and every call ends: an answer, an
\* error or a broken connection.
FairSpec == Spec /\ \A r \in Requests : WF_vars(Handle(r))
=============================================================================
