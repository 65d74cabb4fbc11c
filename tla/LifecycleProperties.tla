------------------------ MODULE LifecycleProperties ------------------------
(***************************************************************************)
(* What using the broker from beginning to end comes to.                   *)
(***************************************************************************)
EXTENDS Lifecycle, BindingsProperties

\* The test is over, with all it deferred.
Over == phase = "next" /\ left = <<>> /\ deferred = <<>>

\* A test leaves a deployment behind only where making or deprovisioning it
\* failed, though any step after may fail, or where another deployment of the
\* same name was removed in its place: a PUT that is repeated after Compose has
\* performed it makes two, and Deprovision removes one and succeeds.
NothingLeftBehind ==
  Over => \A i \in Instances : Named(i) \ DOMAIN Existing # {} =>
    \/ \E s \in failed : s.instance = i /\ s.do \in {"Provision", "Deprovision"}
    \/ \E d \in DOMAIN deployments : deployments[d].name = i /\ ~Live(d)

\* An instance that is said to be deprovisioned is gone.  The test's own
\* words, "deprovisioning the service", and helper.go's "returns success".
DeprovisionRemoves ==
  \A s \in passed : s.do = "Deprovision" => Named(s.instance) = {}

\* What is restored is a backup of the instance that was to be restored, and no
\* older than the one that CreateBackup made before, also when other backups are
\* taken meanwhile; unless it is of another deployment of the same name, which
\* a repeated PUT has made.
RestoredHasBackup ==
  \A d \in DOMAIN deployments : \A r \in Requests :
    LET b == deployments[d].from
        i == arg[r].source
    IN  d \in {r} \X Nat /\ b # 0
          => /\ deployments[backups[b].of].name = i
             /\ mark[i] # 0 /\ backups[b].of = backups[mark[i]].of => b >= mark[i]

\* While a test uses a binding, from the return of Bind on to the moment it
\* sends Unbind, its credentials for a database work, though the Bind may be
\* the second or third one after failures and other steps go on.
BindingUsable ==
  \A s \in passed : s.do = "Bind" /\ Undo(s)[1] \notin passed \cup failed \cup {now} =>
    LET b == holder[s.binding]
    IN  /\ b # Nil
        /\ dbName[b] # Nil /\ Live(target[b]) =>
             [db |-> dbName[b], binding |-> s.binding, password |-> b] \in accounts[target[b]]

\* Every test comes to its end.
ScriptEnds == <>Over

---------------------------------------------------------------------------
(* The inductive invariants of a test.                                     *)

Elements(steps) == {steps[k] : k \in DOMAIN steps}

\* The steps that are deferred, and those that were begun.
ToUndo == Elements(deferred)
Begun == passed \cup failed \cup (IF phase = "next" THEN {} ELSE {now})

\* Each phase is one of the steps that have it, and has what it works with.
PhaseInv ==
  /\ phase # "next" => now \in Step
  /\ phase \in {"find", "start", "backup"} => now.do = "Backup"
  /\ phase \in {"send", "wait"} => now.do # "Backup"
  /\ phase = "wait" => out \in (IF now.do \in {"Bind", "Unbind"} THEN Binders ELSE Requests)
  /\ phase \in {"poll", "polling", "check"} =>
       owner \in Requests /\ now.do \in {"Provision", "Deprovision"}
  /\ phase = "check" => now.do = "Provision"
  /\ phase = "polling" => out \in Requests
  /\ phase \in {"start", "backup"} =>
       backing \in DOMAIN deployments /\ deployments[backing].name = now.instance
  /\ \A s \in ToUndo : s.do \in {"Deprovision", "Unbind"}

\* r was sent for the step being done.
SentFor(r) ==
  pc[r] # "idle" /\ arg[r].op = now.do /\ arg[r].instance = now.instance

\* Whatever is asked of the broker is what some step asks for.
SentInv ==
  /\ phase = "wait" /\ out \in Requests => SentFor(out)
  /\ phase \in {"poll", "polling", "check"} => SentFor(owner)
  /\ phase = "polling" => pc[out] # "idle" /\ arg[out].of = owner
  /\ \A r \in Requests : arg[r].op = "Provision" =>
       \E s \in Begun : s.do = "Provision" /\ s.instance = arg[r].instance /\ s.source = arg[r].source

\* What is made is undone, and what is undone is gone.
UndoneInv ==
  \A s \in passed :
    /\ s.do = "Provision" =>
         [s EXCEPT !.do = "Deprovision", !.source = Nil] \in ToUndo \cup Begun
    /\ s.do = "Deprovision" =>
         \E d \in DOMAIN deployments : deployments[d].name = s.instance /\ ~Live(d)

\* s restores what t backs up.
Clash(s, t) == s.do = "Provision" /\ t.do = "Backup" /\ s.source = t.instance

\* As every test does: an instance is backed up before it is restored, not
\* again after.
BackupsFirst ==
  \A script \in Scripts : \A j, k \in DOMAIN script : j < k => ~Clash(script[j], script[k])

OrderInv ==
  /\ \A j, k \in DOMAIN left : j < k => ~Clash(left[j], left[k])
  /\ \A s \in Begun : \A k \in DOMAIN left : ~Clash(s, left[k])
  /\ phase # "next" => \A s \in Begun : ~Clash(s, now)

\* While Compose makes a backup nothing is being restored from its instance,
\* nor will it be: the test waits, or has failed and only clears up.
RunInv ==
  job = "running" =>
    /\ backing \in DOMAIN deployments
    /\ \A r \in Requests : arg[r].op = "Provision" => arg[r].source # deployments[backing].name
    /\ \/ phase = "backup"
       \/ left = <<>> /\ (phase = "next" \/ now.do \in {"Deprovision", "Unbind"})

\* The backup CreateBackup made was there when any restore was asked for.
MarkInv ==
  \A i \in Instances : mark[i] # 0 =>
    /\ mark[i] \in DOMAIN backups /\ backups[mark[i]].restorable
    /\ deployments[backups[mark[i]].of].name = i
    /\ \A r \in Requests : arg[r].op = "Provision" /\ arg[r].source = i => mark[i] <= began[r]

\* One binder works at a time, the one the test waits for.
SoleInv ==
  /\ \A b \in Binders : Working(b) => phase = "wait" /\ out = b
  /\ phase = "wait" /\ out \in Binders =>
       /\ at[out] # "idle" /\ ask[out].binding = now.binding
       /\ now.do = "Bind" /\ at[out] = "done" /\ told[out] = "created" => holder[now.binding] = out

\* A binding is in use until it is undone.
InUseInv ==
  \A s \in passed : s.do = "Bind" /\ [s EXCEPT !.do = "Unbind"] \notin Begun => holder[s.binding] # Nil
=============================================================================
