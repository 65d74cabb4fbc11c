----------------------------- MODULE Lifecycle -----------------------------
(***************************************************************************)
(* A platform that uses the broker as the integration tests do, through    *)
(* integration_tests/helper/helper.go: one step after the other, each      *)
(* request sent again until it is answered as expected or a minute is      *)
(* over, each accepted operation polled until it ends or 15 minutes are    *)
(* over, and what was made undone at the end, in reverse order, whatever   *)
(* became of the steps in between.                                         *)
(***************************************************************************)
EXTENDS Bindings

CONSTANT Scripts   \* the tests: of each the steps, in order

VARIABLES
  left,       \* the steps still to come
  deferred,   \* the steps registered with defer, the last one first
  now,        \* the step being done
  phase,      \* where the helper is in it, "next" between two steps
  tried,      \* whether the current Eventually has tried once
  out,        \* the request it waits for
  owner,      \* the request whose operation it polls
  backing,    \* the deployment that is being backed up
  job,        \* the recipe of that: "none", "running" or "complete"
  passed,     \* history: the steps that returned
  failed,     \* history: the steps that failed the test
  mark        \* history: instance -> the backup CreateBackup made, 0 before

scriptVars == <<left, deferred, now, phase, tried, out, owner, backing, job, passed, failed, mark>>
lifeVars == <<bindVars, scriptVars>>

\* instance, source and binding are what the helper's function is called with.
Step ==
  [do : {"Provision", "Backup", "Deprovision"}, instance : Instances,
   source : Instances \cup {Nil}, binding : {Nil}]
  \cup {[do |-> do, instance |-> InstanceOf[x], source |-> Nil, binding |-> x] :
          do \in {"Bind", "Unbind"}, x \in BindingIds}

ASSUME ScriptAssumption == Scripts \subseteq Seq(Step)

\* out may be either.
ASSUME OutAssumption == Requests \cap Binders = {}

LifeTypeOK ==
  /\ left \in Seq(Step) /\ deferred \in Seq(Step) /\ now \in Step \cup {Nil}
  /\ phase \in {"next", "send", "wait", "poll", "polling", "check", "find", "start", "backup"}
  /\ tried \in BOOLEAN
  /\ out \in Requests \cup Binders \cup {Nil}
  /\ owner \in Requests \cup {Nil}
  /\ backing \in DOMAIN deployments \cup {Nil}
  /\ job \in {"none", "running", "complete"}
  /\ passed \subseteq Step /\ failed \subseteq Step
  /\ mark \in [Instances -> Nat]

LifeInit ==
  /\ BindInit
  /\ left \in Scripts /\ deferred = <<>> /\ now = Nil /\ phase = "next" /\ tried = FALSE
  /\ out = Nil /\ owner = Nil /\ backing = Nil /\ job = "none"
  /\ passed = {} /\ failed = {} /\ mark = [i \in Instances |-> 0]

---------------------------------------------------------------------------
(* The course of a test.                                                   *)

\* Seeded fault for LifeTypeOK: a binding is undone like an instance.
UndoByDeprovision(step) ==
  IF step.do \in {"Provision", "Bind"}
    THEN <<[step EXCEPT !.do = "Deprovision", !.source = Nil]>> ELSE <<>>

\* What a test defers once a step has returned.
Undo(step) ==
  CASE step.do = "Provision" -> <<[step EXCEPT !.do = "Deprovision", !.source = Nil]>>
    [] step.do = "Bind"      -> <<[step EXCEPT !.do = "Unbind"]>>
    [] OTHER                 -> <<>>

TakeStep ==
  /\ phase = "next"
  /\ \/ left # <<>> /\ now' = Head(left) /\ left' = Tail(left) /\ UNCHANGED deferred
     \/ /\ left = <<>> /\ deferred # <<>>
        /\ now' = Head(deferred) /\ deferred' = Tail(deferred) /\ UNCHANGED left
  /\ phase' = IF now'.do = "Backup" THEN "find" ELSE "send"
  /\ tried' = FALSE
  /\ UNCHANGED <<bindVars, out, owner, backing, job, passed, failed, mark>>

\* The step returns, and the test goes on.
Pass ==
  /\ phase' = "next" /\ passed' = passed \cup {now} /\ deferred' = Undo(now) \o deferred
  /\ UNCHANGED <<left, tried, owner, failed>>

\* Seeded fault for NothingLeftBehind: a failure ends it all.
FailForGood ==
  /\ phase' = "next" /\ failed' = failed \cup {now} /\ left' = <<>> /\ deferred' = <<>>
  /\ UNCHANGED <<tried, owner, passed>>

\* An expectation is not met: of the test only what it deferred still runs.
Fail ==
  /\ phase' = "next" /\ failed' = failed \cup {now} /\ left' = <<>>
  /\ UNCHANGED <<deferred, tried, owner, passed>>

\* The helper goes on with the step.
Continue(where, again) ==
  /\ phase' = where /\ tried' = again
  /\ UNCHANGED <<left, deferred, passed, failed>>

\* Seeded fault for ScriptEnds: the wait for a backup has no end.
Waits == {"send", "poll", "find", "start"}

\* Where an Eventually may be when its time is over.
Loops == {"send", "poll", "find", "start", "backup"}

---------------------------------------------------------------------------
(* Requests to the broker.                                                 *)

\* Any request or binder not used yet will do.
Unused == {r \in Requests : pc[r] = "idle"}
UnusedBinders == {b \in Binders : at[b] = "idle"}

\* An Eventually is over when it has tried and its time is up.  Bound: with no
\* request left to make, it is up at once.
TimeOut ==
  /\ phase \in Loops
  /\ tried \/ Unused = {} \/ UnusedBinders = {}
  /\ Fail
  /\ UNCHANGED <<bindVars, now, out, backing, job, mark>>

\* Provision and Deprovision make their request.
SendRequest ==
  /\ phase = "send" /\ now.do \in {"Provision", "Deprovision"} /\ Unused # {}
  /\ LET r == CHOOSE r \in Unused : TRUE
     IN  /\ Receive(r)
         /\ arg'[r].op = now.do /\ arg'[r].instance = now.instance /\ arg'[r].source = now.source
         /\ out' = r
  /\ Populated /\ Continue("wait", tried)
  /\ UNCHANGED <<binderLocals, history, now, owner, backing, job, mark>>

\* Bind and Unbind make theirs.
SendBinder ==
  /\ phase = "send" /\ now.do \in {"Bind", "Unbind"} /\ UnusedBinders # {}
  /\ LET b == CHOOSE b \in UnusedBinders : TRUE
     IN  /\ ReceiveBinder(b)
         /\ ask'[b].op = now.do /\ ask'[b].binding = now.binding
         /\ out' = b
  /\ Continue("wait", tried)
  /\ UNCHANGED <<now, owner, backing, job, mark>>

Answered == IF out \in Requests THEN pc[out] = "done" ELSE at[out] = "done"
Heard == IF out \in Requests THEN reply[out] ELSE told[out]

Expected ==
  CASE now.do = "Bind"   -> "created"
    [] now.do = "Unbind" -> "ok"
    [] OTHER             -> "accepted"

\* DoRequest: an unexpected answer has the request sent again, with the same
\* identifiers; a panic of the handler, which it calls itself, fails the test.
ReadAnswer ==
  /\ phase = "wait" /\ Answered
  /\ \/ /\ Heard = Expected
        /\ IF now.do \in {"Bind", "Unbind"} THEN Pass ELSE Continue("poll", FALSE) /\ owner' = out
     \/ Heard = "dropped" /\ Fail
     \/ Heard \notin {Expected, "dropped"} /\ Continue("send", TRUE) /\ UNCHANGED owner
  /\ UNCHANGED <<bindVars, now, out, backing, job, mark>>

\* PollForOperationCompletion.
SendPoll ==
  /\ phase = "poll" /\ Unused # {}
  /\ LET r == CHOOSE r \in Unused : TRUE
     IN  Receive(r) /\ arg'[r].of = owner /\ out' = r
  /\ Populated /\ Continue("polling", tried)
  /\ UNCHANGED <<binderLocals, history, now, owner, backing, job, mark>>

ReadPoll ==
  /\ phase = "polling" /\ Answered
  /\ \/ /\ Heard = "op succeeded"
        /\ IF now.do = "Provision" THEN Continue("check", FALSE) /\ UNCHANGED owner ELSE Pass
     \/ Heard \in {"op failed", "dropped"} /\ Fail
     \/ Heard \in {"op in progress", "failed"} /\ Continue("poll", TRUE) /\ UNCHANGED owner
  /\ UNCHANGED <<bindVars, now, out, backing, job, mark>>

\* Provision looks the deployment up once more, and which cluster it is in.
Check ==
  /\ phase = "check"
  /\ (Named(now.instance) # {} /\ Pass) \/ Fail
  /\ UNCHANGED <<bindVars, now, out, backing, job, mark>>

---------------------------------------------------------------------------
(* CreateBackup, which asks Compose itself.  A backup that Compose takes   *)
(* without its answer being heard is one of module Compose's TakeBackup.   *)

FindBackup ==
  /\ phase = "find"
  /\ \/ /\ \E d \in Named(now.instance) : backing' = d
        /\ Continue("start", FALSE)
     \/ ~tried /\ Continue("find", TRUE) /\ UNCHANGED backing
  /\ UNCHANGED <<bindVars, now, out, owner, job, mark>>

StartBackup ==
  /\ phase = "start"
  /\ \/ Live(backing) /\ job' = "running" /\ Continue("backup", FALSE)
     \/ ~tried /\ Continue("start", TRUE) /\ UNCHANGED job
  /\ UNCHANGED <<bindVars, now, out, owner, backing, mark>>

\* Seeded fault for RestoredHasBackup: a backup that runs will do.
Started == job # "none"

BackedUp == job = "complete"

AwaitBackup ==
  /\ phase = "backup"
  /\ (BackedUp /\ Pass) \/ (~tried /\ Continue("backup", TRUE) /\ UNCHANGED owner)
  /\ UNCHANGED <<bindVars, now, out, backing, job, mark>>

\* Compose completes the backup.
BackupDone ==
  /\ job = "running" /\ job' = "complete"
  /\ TakeBackup(backing) /\ backups'[Len(backups')].restorable
  /\ mark' = [mark EXCEPT ![deployments[backing].name] = Len(backups')]
  /\ Populated
  /\ UNCHANGED <<locals, binderLocals, history>>
  /\ UNCHANGED <<left, deferred, now, phase, tried, out, owner, backing, passed, failed>>

---------------------------------------------------------------------------

\* What the test does.
Test ==
  \/ TakeStep \/ TimeOut \/ SendRequest \/ SendBinder \/ ReadAnswer \/ SendPoll \/ ReadPoll
  \/ Check \/ FindBackup \/ StartBackup \/ AwaitBackup

\* The broker handles the request it has.
Handling ==
  /\ \/ (\E r \in Requests : Handle(r)) /\ Populated /\ UNCHANGED <<binderLocals, history>>
     \/ \E b \in Binders : HandleBinder(b)
  /\ UNCHANGED scriptVars

\* What happens besides.
Elsewhere ==
  \/ BackupDone
  \/ /\ ComposeStep /\ Populated
     /\ UNCHANGED <<locals, binderLocals, history, scriptVars>>
  \/ /\ \E d \in DOMAIN deployments : Write(d) \/ Drop(d)
     /\ UNCHANGED scriptVars

LifeNext == Test \/ Handling \/ Elsewhere

LifeSpec == LifeInit /\ [][LifeNext]_lifeVars

\* The test runs on until its end, and the handlers it calls run to theirs.
FairLifeSpec == LifeSpec /\ WF_lifeVars(Test) /\ WF_lifeVars(Handling)
=============================================================================
