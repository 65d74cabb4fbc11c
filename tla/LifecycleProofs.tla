-------------------------- MODULE LifecycleProofs --------------------------
(***************************************************************************)
(* What is proved of the broker and of bindings holds for a platform that  *)
(* uses them as the integration tests do, and what such a test comes to,   *)
(* whatever the script.                                                    *)
(***************************************************************************)
EXTENDS LifecycleProperties, AccountProofs

\* The helper sends one request of the broker.
LEMMA SendsRequest ==
  ASSUME NEW r \in Requests, Receive(r), Populated, UNCHANGED <<binderLocals, history>>
  PROVE  BindNext
  BY DEF BindNext, BrokerStep, Next

\* What the helper does is to send a request, or touches nothing of the
\* broker's.
LEMMA TestSends ==
  ASSUME Test
  PROVE  BindNext \/ UNCHANGED bindVars
<1>1. CASE SendRequest
  <2>1. PICK r \in Requests : Receive(r)
    BY <1>1 DEF SendRequest, Unused
  <2> QED
    BY <1>1, <2>1, SendsRequest DEF SendRequest
<1>2. CASE SendPoll
  <2>1. PICK r \in Requests : Receive(r)
    BY <1>2 DEF SendPoll, Unused
  <2> QED
    BY <1>2, <2>1, SendsRequest DEF SendPoll
<1>3. CASE SendBinder
  <2>1. PICK b \in Binders : ReceiveBinder(b)
    BY <1>3 DEF SendBinder, UnusedBinders
  <2> QED
    BY <2>1 DEF BindNext
<1>4. CASE TakeStep \/ TimeOut \/ ReadAnswer \/ ReadPoll \/ Check
  BY <1>4 DEF TakeStep, TimeOut, ReadAnswer, ReadPoll, Check
<1>5. CASE FindBackup \/ StartBackup \/ AwaitBackup
  BY <1>5 DEF FindBackup, StartBackup, AwaitBackup
<1> QED
  BY <1>1, <1>2, <1>3, <1>4, <1>5 DEF Test

LEMMA LifeStepBinds ==
  ASSUME [LifeNext]_lifeVars
  PROVE  [BindNext]_bindVars
<1> SUFFICES BindNext \/ UNCHANGED bindVars
  OBVIOUS
<1>1. CASE Test
  BY <1>1, TestSends
<1>2. CASE Handling
  BY <1>2 DEF Handling, BindNext, BrokerStep, Next
<1>3. CASE BackupDone
  <2>1. backing \in DOMAIN deployments /\ TakeBackup(backing)
    BY <1>3 DEF BackupDone, TakeBackup, Live
  <2> QED
    BY <1>3, <2>1 DEF BackupDone, BindNext, BrokerStep, Next, ComposeStep
<1>4. CASE ComposeStep /\ Populated /\ UNCHANGED <<locals, binderLocals, history, scriptVars>>
  BY <1>4 DEF BindNext, BrokerStep, Next
<1>5. CASE \E d \in DOMAIN deployments : Write(d) \/ Drop(d)
  BY <1>5 DEF BindNext
<1>6. CASE UNCHANGED lifeVars
  BY <1>6 DEF lifeVars
<1> QED
  BY <1>1, <1>2, <1>3, <1>4, <1>5, <1>6 DEF LifeNext, Elsewhere

\* A test uses the broker in no way that BindSpec does not have.
THEOREM LifecycleUsesBindings == LifeSpec => BindSpec
<1>1. LifeInit => BindInit
  BY DEF LifeInit
<1>2. [LifeNext]_lifeVars => [BindNext]_bindVars
  BY LifeStepBinds
<1> QED
  BY <1>1, <1>2, PTL DEF LifeSpec, BindSpec

---------------------------------------------------------------------------
(* Sequences of steps.                                                     *)

LEMMA FirstAndRest ==
  ASSUME NEW S, NEW s \in Seq(S), s # <<>>
  PROVE  /\ Head(s) \in S /\ Tail(s) \in Seq(S)
         /\ 1 \in DOMAIN s /\ s[1] = Head(s)
         /\ \A k \in DOMAIN Tail(s) : k \in Nat /\ k >= 1 /\ k + 1 \in DOMAIN s /\ Tail(s)[k] = s[k + 1]
         /\ \A k \in DOMAIN s : k = 1 \/ (k - 1 \in DOMAIN Tail(s) /\ s[k] = Tail(s)[k - 1])
<1>1. /\ Head(s) \in S /\ Tail(s) \in Seq(S) /\ s[1] = Head(s)
      /\ Len(Tail(s)) = Len(s) - 1 /\ Len(s) \in Nat \ {0}
      /\ \A k \in 1 .. Len(Tail(s)) : Tail(s)[k] = s[k + 1]
  BY HeadTailProperties, EmptySeq
<1>2. DOMAIN s = 1 .. Len(s) /\ DOMAIN Tail(s) = 1 .. Len(Tail(s))
  BY <1>1
<1> QED
  BY <1>1, <1>2

LEMMA FirstElement ==
  ASSUME NEW S, NEW s \in Seq(S), s # <<>>
  PROVE  Elements(s) = {Head(s)} \cup Elements(Tail(s))
<1>1. /\ 1 \in DOMAIN s /\ s[1] = Head(s)
      /\ \A k \in DOMAIN Tail(s) : k + 1 \in DOMAIN s /\ Tail(s)[k] = s[k + 1]
      /\ \A k \in DOMAIN s : k = 1 \/ (k - 1 \in DOMAIN Tail(s) /\ s[k] = Tail(s)[k - 1])
  BY FirstAndRest
<1>2. ASSUME NEW k \in DOMAIN s
      PROVE  s[k] \in {Head(s)} \cup {Tail(s)[j] : j \in DOMAIN Tail(s)}
  <2>1. CASE k = 1
    BY <1>1, <2>1
  <2>2. CASE k # 1
    <3>1. PICK j \in DOMAIN Tail(s) : s[k] = Tail(s)[j]
      BY <1>1, <2>2
    <3> QED
      BY <3>1
  <2> QED
    BY <2>1, <2>2
<1>3. ASSUME NEW k \in DOMAIN Tail(s)
      PROVE  Tail(s)[k] \in {s[j] : j \in DOMAIN s}
  <2>1. PICK j \in DOMAIN s : Tail(s)[k] = s[j]
    BY <1>1
  <2> QED
    BY <2>1
<1>4. Head(s) \in {s[j] : j \in DOMAIN s}
  BY <1>1
<1> QED
  BY <1>2, <1>3, <1>4, Zenon DEF Elements

LEMMA ElementAdded ==
  ASSUME NEW S, NEW e \in S, NEW s \in Seq(S)
  PROVE  <<e>> \o s \in Seq(S) /\ Elements(<<e>> \o s) = {e} \cup Elements(s)
<1>1. PICK t : t = <<e>> \o s
  OBVIOUS
<1>2. t \in Seq(S) /\ t # <<>> /\ e = Head(t) /\ s = Tail(t)
  BY <1>1
<1>3. Elements(t) = {Head(t)} \cup Elements(Tail(t))
  BY <1>2, FirstElement
<1> QED
  BY <1>1, <1>2, <1>3

\* What a step is.
LEMMA StepShape ==
  ASSUME NEW s \in Step
  PROVE  \/ /\ s.do \in {"Provision", "Backup", "Deprovision"}
            /\ s \in [do : {"Provision", "Backup", "Deprovision"}, instance : Instances,
                      source : Instances \cup {Nil}, binding : {Nil}]
         \/ /\ s.do \in {"Bind", "Unbind"} /\ s.binding \in BindingIds
            /\ s = [do |-> s.do, instance |-> InstanceOf[s.binding], source |-> Nil,
                    binding |-> s.binding]
  BY DEF Step

LEMMA Unbinds ==
  ASSUME NEW s \in Step, s.do = "Bind"
  PROVE  /\ [s EXCEPT !.do = "Unbind"] =
              [do |-> "Unbind", instance |-> InstanceOf[s.binding], source |-> Nil,
               binding |-> s.binding]
         /\ [s EXCEPT !.do = "Unbind"] \in Step
<1>1. PICK x \in BindingIds :
        s = [do |-> "Bind", instance |-> InstanceOf[x], source |-> Nil, binding |-> x]
  BY StepShape
<1>2. [s EXCEPT !.do = "Unbind"] =
        [do |-> "Unbind", instance |-> InstanceOf[x], source |-> Nil, binding |-> x]
  BY <1>1
<1> QED
  BY <1>1, <1>2 DEF Step

LEMMA UndoFacts ==
  ASSUME NEW s \in Step
  PROVE  \/ /\ s.do = "Provision"
            /\ \E e \in Step : /\ e = [s EXCEPT !.do = "Deprovision", !.source = Nil]
                               /\ e.do = "Deprovision" /\ Undo(s) = <<e>>
         \/ /\ s.do = "Bind"
            /\ \E e \in Step : /\ e = [s EXCEPT !.do = "Unbind"]
                               /\ e.do = "Unbind" /\ Undo(s) = <<e>>
         \/ s.do \notin {"Provision", "Bind"} /\ Undo(s) = <<>>
<1>1. CASE s.do = "Provision"
  <2>1. PICK e : e = [s EXCEPT !.do = "Deprovision", !.source = Nil]
    OBVIOUS
  <2>2. s \in [do : {"Provision", "Backup", "Deprovision"}, instance : Instances,
                source : Instances \cup {Nil}, binding : {Nil}]
    BY <1>1, StepShape
  <2>3. /\ e.do = "Deprovision"
        /\ e \in [do : {"Provision", "Backup", "Deprovision"}, instance : Instances,
                  source : Instances \cup {Nil}, binding : {Nil}]
    BY <2>1, <2>2
  <2>4. e \in Step
    BY <2>3 DEF Step
  <2>5. Undo(s) = <<e>>
    BY <1>1, <2>1 DEF Undo
  <2> QED
    BY <1>1, <2>1, <2>3, <2>4, <2>5
<1>2. CASE s.do = "Bind"
  <2>1. PICK e : e = [s EXCEPT !.do = "Unbind"]
    OBVIOUS
  <2>2. e \in Step /\ e.do = "Unbind"
    BY <1>2, <2>1, Unbinds
  <2>3. Undo(s) = <<e>>
    BY <1>2, <2>1 DEF Undo
  <2> QED
    BY <1>2, <2>1, <2>2, <2>3
<1>3. CASE s.do \notin {"Provision", "Bind"}
  BY <1>3 DEF Undo
<1> QED
  BY <1>1, <1>2, <1>3

\* What is deferred once a step has returned.
LEMMA Deferring ==
  ASSUME NEW s \in Step, NEW later \in Seq(Step), NEW all, all = Undo(s) \o later
  PROVE  /\ all \in Seq(Step)
         /\ Elements(later) \subseteq Elements(all)
         /\ \A u \in Elements(all) :
              u \in Elements(later) \/ u.do \in {"Deprovision", "Unbind"}
         /\ s.do = "Provision" =>
              [s EXCEPT !.do = "Deprovision", !.source = Nil] \in Elements(all)
<1>1. ASSUME NEW e \in Step, Undo(s) = <<e>>
      PROVE  /\ all \in Seq(Step)
             /\ Elements(all) = {e} \cup Elements(later)
  <2>1. all = <<e>> \o later
    BY <1>1
  <2>2. <<e>> \o later \in Seq(Step) /\ Elements(<<e>> \o later) = {e} \cup Elements(later)
    BY ElementAdded, Zenon
  <2> QED
    BY <2>1, <2>2, Zenon
<1>2. CASE Undo(s) = <<>>
  <2>1. all = later
    BY <1>2
  <2>2. \A e \in Step : Undo(s) # <<e>>
    BY <1>2
  <2> QED
    BY <2>1, <2>2, UndoFacts
<1>3. CASE s.do = "Provision"
  BY <1>1, <1>3, UndoFacts
<1>4. CASE s.do = "Bind"
  BY <1>1, <1>4, UndoFacts
<1> QED
  BY <1>2, <1>3, <1>4, UndoFacts

---------------------------------------------------------------------------
(* The course of a test.                                                   *)

LifeInv == LifeTypeOK /\ PhaseInv

\* A step is begun, passed, failed or gone on with.
Course ==
  \/ TakeStep
  \/ Pass /\ phase # "next" /\ UNCHANGED now
  \/ Fail /\ phase # "next" /\ UNCHANGED now
  \/ UNCHANGED <<left, deferred, now, passed, failed>> /\ (phase' = "next" <=> phase = "next")

LEMMA LifeCourse ==
  ASSUME [LifeNext]_lifeVars
  PROVE  Course
<1>1. CASE TakeStep
  BY <1>1 DEF Course
<1>2. CASE TimeOut
  BY <1>2 DEF TimeOut, Loops, Course
<1>3. CASE SendRequest \/ SendBinder \/ SendPoll
  BY <1>3 DEF SendRequest, SendBinder, SendPoll, Continue, Course
<1>4. CASE ReadAnswer
  BY <1>4 DEF ReadAnswer, Continue, Course
<1>5. CASE ReadPoll \/ Check
  BY <1>5 DEF ReadPoll, Check, Continue, Course
<1>6. CASE FindBackup \/ StartBackup \/ AwaitBackup
  BY <1>6 DEF FindBackup, StartBackup, AwaitBackup, Continue, Course
<1>7. CASE UNCHANGED <<left, deferred, now, phase, passed, failed>>
  BY <1>7 DEF Course
<1> QED
  BY <1>1, <1>2, <1>3, <1>4, <1>5, <1>6, <1>7
     DEF LifeNext, Test, Handling, Elsewhere, BackupDone, scriptVars, lifeVars

LEMMA BegunGrows ==
  ASSUME Course
  PROVE  /\ Begun \subseteq Begun'
         /\ Begun' = Begun \/ (TakeStep /\ Begun' = Begun \cup {now'})
<1>1. CASE TakeStep
  <2>1. phase' # "next" /\ phase = "next" /\ passed' = passed /\ failed' = failed
    BY <1>1 DEF TakeStep
  <2> QED
    BY <1>1, <2>1 DEF Begun
<1>2. CASE ~TakeStep
  BY <1>2 DEF Course, Pass, Fail, Begun
<1> QED
  BY <1>1, <1>2

LEMMA CourseTypes ==
  ASSUME LifeInv, Course
  PROVE  /\ left' \in Seq(Step) /\ deferred' \in Seq(Step)
         /\ now' \in Step \cup {Nil} /\ (phase' # "next" => now' \in Step)
         /\ passed' \subseteq Step /\ failed' \subseteq Step
         /\ \A s \in ToUndo' : s.do \in {"Deprovision", "Unbind"}
<1> DEFINE Facts == /\ left \in Seq(Step) /\ deferred \in Seq(Step)
                    /\ now \in Step \cup {Nil} /\ (phase # "next" => now \in Step)
                    /\ passed \subseteq Step /\ failed \subseteq Step
                    /\ \A s \in ToUndo : s.do \in {"Deprovision", "Unbind"}
<1>0. Facts
  BY DEF LifeInv, LifeTypeOK, PhaseInv
<1>1. CASE TakeStep
  <2>1. \/ left # <<>> /\ now' = Head(left) /\ left' = Tail(left) /\ deferred' = deferred
        \/ deferred # <<>> /\ now' = Head(deferred) /\ deferred' = Tail(deferred) /\ left' = left
    BY <1>1 DEF TakeStep
  <2>2. now' \in Step /\ left' \in Seq(Step) /\ deferred' \in Seq(Step)
    BY <1>0, <2>1, FirstAndRest, Zenon
  <2>3. ToUndo' \subseteq ToUndo
    BY <1>0, <2>1, FirstElement DEF ToUndo
  <2> QED
    BY <1>0, <1>1, <2>2, <2>3 DEF TakeStep
<1>2. CASE Pass /\ phase # "next" /\ UNCHANGED now
  <2>1. now \in Step /\ deferred' = Undo(now) \o deferred
    BY <1>0, <1>2 DEF Pass
  <2>2. deferred' \in Seq(Step) /\ \A s \in ToUndo' : s \in ToUndo \/ s.do \in {"Deprovision", "Unbind"}
    BY <1>0, <2>1, Deferring, Zenon DEF ToUndo
  <2> QED
    BY <1>0, <1>2, <2>1, <2>2 DEF Pass
<1>3. CASE Fail /\ phase # "next" /\ UNCHANGED now
  BY <1>0, <1>3 DEF Fail, ToUndo
<1>4. CASE UNCHANGED <<left, deferred, now, passed, failed>> /\ (phase' = "next" <=> phase = "next")
  BY <1>0, <1>4 DEF ToUndo
<1> QED
  BY <1>1, <1>2, <1>3, <1>4 DEF Course

\* The part of LifeInv that is not about the steps.
Placed ==
  /\ phase \in {"next", "send", "wait", "poll", "polling", "check", "find", "start", "backup"}
  /\ tried \in BOOLEAN
  /\ out \in Requests \cup Binders \cup {Nil}
  /\ owner \in Requests \cup {Nil}
  /\ backing \in DOMAIN deployments \cup {Nil}
  /\ job \in {"none", "running", "complete"}
  /\ phase \in {"find", "start", "backup"} => now.do = "Backup"
  /\ phase \in {"send", "wait"} => now.do # "Backup"
  /\ phase = "wait" => out \in (IF now.do \in {"Bind", "Unbind"} THEN Binders ELSE Requests)
  /\ phase \in {"poll", "polling", "check"} =>
       owner \in Requests /\ now.do \in {"Provision", "Deprovision"}
  /\ phase = "check" => now.do = "Provision"
  /\ phase = "polling" => out \in Requests
  /\ phase \in {"start", "backup"} =>
       backing \in DOMAIN deployments /\ deployments[backing].name = now.instance

LEMMA PlacedStays ==
  ASSUME Placed, Keeps, UNCHANGED scriptVars
  PROVE  Placed'
  BY DEF Placed, Keeps, scriptVars

LEMMA TestPlaced ==
  ASSUME LifeInv, Placed, Keeps, Test
  PROVE  Placed'
<1>1. DOMAIN deployments \subseteq DOMAIN deployments'
      /\ \A d \in DOMAIN deployments : deployments'[d].name = deployments[d].name
  BY DEF Keeps
<1>2. now \in Step /\ phase # "next" => now.do \in {"Provision", "Backup", "Deprovision", "Bind", "Unbind"}
  BY StepShape
<1>3. phase # "next" => now \in Step
  BY DEF LifeInv, PhaseInv
<1>4. CASE TakeStep
  BY <1>1, <1>4 DEF TakeStep, Placed
<1>5. CASE TimeOut
  BY <1>1, <1>5 DEF TimeOut, Fail, Placed
<1>6. CASE SendRequest
  <2>1. now' = now /\ phase' = "wait" /\ tried' = tried /\ owner' = owner /\ backing' = backing /\ job' = job
        /\ out' \in Requests /\ phase = "send" /\ now.do \in {"Provision", "Deprovision"}
    BY <1>6 DEF SendRequest, Continue, Unused
  <2> QED
    BY <1>1, <2>1 DEF Placed
<1>7. CASE SendBinder
  <2>1. now' = now /\ phase' = "wait" /\ tried' = tried /\ owner' = owner /\ backing' = backing /\ job' = job
        /\ out' \in Binders /\ phase = "send" /\ now.do \in {"Bind", "Unbind"}
    BY <1>7 DEF SendBinder, Continue, UnusedBinders
  <2> QED
    BY <1>1, <2>1 DEF Placed
<1>8. CASE ReadAnswer
  BY <1>1, <1>2, <1>3, <1>8 DEF ReadAnswer, Pass, Fail, Continue, Placed
<1>9. CASE SendPoll
  <2>1. now' = now /\ phase' = "polling" /\ tried' = tried /\ owner' = owner /\ backing' = backing /\ job' = job
        /\ out' \in Requests /\ phase = "poll"
    BY <1>9 DEF SendPoll, Continue, Unused
  <2> QED
    BY <1>1, <2>1 DEF Placed
<1>10. CASE ReadPoll
  BY <1>1, <1>10 DEF ReadPoll, Pass, Fail, Continue, Placed
<1>11. CASE Check
  BY <1>1, <1>11 DEF Check, Pass, Fail, Placed
<1>12. CASE FindBackup
  BY <1>1, <1>12 DEF FindBackup, Continue, Named, Placed
<1>13. CASE StartBackup
  BY <1>1, <1>13 DEF StartBackup, Continue, Placed
<1>14. CASE AwaitBackup
  BY <1>1, <1>14 DEF AwaitBackup, Pass, Continue, Placed
<1> QED
  BY <1>4, <1>5, <1>6, <1>7, <1>8, <1>9, <1>10, <1>11, <1>12, <1>13, <1>14 DEF Test

LEMMA MarkTypes ==
  ASSUME TypeInv, TypeInv', LifeInv, [LifeNext]_lifeVars
  PROVE  mark' \in [Instances -> Nat]
<1>1. CASE BackupDone
  <2>1. Len(backups') \in Nat
    BY DEF TypeInv, TypeOK, ComposeTypeOK
  <2> QED
    BY <1>1, <2>1 DEF BackupDone, LifeInv, LifeTypeOK
<1>2. CASE Test
  BY <1>2 DEF Test, TakeStep, TimeOut, SendRequest, SendBinder, ReadAnswer, SendPoll, ReadPoll,
              Check, FindBackup, StartBackup, AwaitBackup, LifeInv, LifeTypeOK
<1>3. CASE ~BackupDone /\ ~Test
  BY <1>3 DEF LifeNext, Handling, Elsewhere, lifeVars, scriptVars, LifeInv, LifeTypeOK
<1> QED
  BY <1>1, <1>2, <1>3

LEMMA LifeInitTypes == LifeInit => LifeInv
<1> SUFFICES ASSUME LifeInit PROVE LifeInv
  OBVIOUS
<1>1. left \in Seq(Step) /\ deferred \in Seq(Step)
  BY ScriptAssumption DEF LifeInit
<1>2. ToUndo = {}
  BY DEF LifeInit, ToUndo, Elements
<1> QED
  BY <1>1, <1>2 DEF LifeInit, LifeInv, LifeTypeOK, PhaseInv

LEMMA LifeNextTypes ==
  ASSUME TypeInv, TypeInv', Keeps, LifeInv, [LifeNext]_lifeVars
  PROVE  LifeInv'
<1>1. /\ left' \in Seq(Step) /\ deferred' \in Seq(Step)
      /\ now' \in Step \cup {Nil} /\ (phase' # "next" => now' \in Step)
      /\ passed' \subseteq Step /\ failed' \subseteq Step
      /\ \A s \in ToUndo' : s.do \in {"Deprovision", "Unbind"}
  BY LifeCourse, CourseTypes
<1>2. mark' \in [Instances -> Nat]
  BY MarkTypes
<1>3. Placed
  BY DEF LifeInv, LifeTypeOK, PhaseInv, Placed
<1>4. Placed'
  <2>1. CASE BackupDone
    BY <1>3, <2>1 DEF BackupDone, Placed, Keeps
  <2>2. CASE ~BackupDone /\ ~Test
    <3>1. UNCHANGED scriptVars
      BY <2>2 DEF LifeNext, Handling, Elsewhere, lifeVars
    <3> QED
      BY <1>3, <3>1, PlacedStays
  <2> QED
    BY <1>3, <2>1, <2>2, TestPlaced
<1> QED
  BY <1>1, <1>2, <1>4 DEF LifeInv, LifeTypeOK, PhaseInv, Placed

LEMMA LifeStepIsNext ==
  ASSUME [LifeNext]_lifeVars
  PROVE  [Next]_vars
  BY LifeStepBinds, BindStepIsNext

\* What every proof below starts from.
BaseInv == (BrokerInv /\ SafeInv) /\ LifeInv

LEMMA InitBase == LifeInit => BaseInv
  BY InitTypes, InitData, InitSafe, LifeInitTypes DEF LifeInit, BindInit, BrokerInv, BaseInv

LEMMA NextBase ==
  ASSUME BaseInv, [LifeNext]_lifeVars
  PROVE  BaseInv' /\ Keeps
<1>1. BrokerInv' /\ SafeInv' /\ Keeps
  BY LifeStepIsNext, NextTypes, NextData, NextSafe, NextKeeps DEF BaseInv, BrokerInv, SafeInv
<1> QED
  BY <1>1, LifeNextTypes DEF BaseInv, BrokerInv

\* A test stays within its types, and what it defers and does next are steps.
THEOREM LifeTypesCorrect == LifeSpec => []LifeTypeOK
<1>1. LifeInit => BaseInv
  BY InitBase
<1>2. BaseInv /\ [LifeNext]_lifeVars => BaseInv'
  BY NextBase
<1>3. BaseInv => LifeTypeOK
  BY DEF BaseInv, LifeInv
<1> QED
  BY <1>1, <1>2, <1>3, PTL DEF LifeSpec

---------------------------------------------------------------------------
(* Requests keep their arguments.                                          *)

LEMMA HandleKeepsArg ==
  ASSUME TypeInv, NEW r \in Requests, Handle(r)
  PROVE  /\ arg' = arg /\ began' = began
         /\ \A q \in Requests : pc[q] # "idle" => pc'[q] # "idle"
<1>1. ASSUME NEW label, label # "idle", pc' = [pc EXCEPT ![r] = label]
      PROVE  \A q \in Requests : pc[q] # "idle" => pc'[q] # "idle"
  BY <1>1 DEF TypeInv, TypeOK, LocalsTypeOK
<1>2. CASE List(r)
  BY <1>1, <1>2 DEF List, NotFound, GiveUp, Reply, Goto
<1>3. CASE Get(r)
  BY <1>1, <1>3 DEF Get, Got, NotFound, GiveUp, Reply, Goto
<1>4. CASE Create(r)
  BY <1>1, <1>4 DEF Create, Whitelist, GiveUp, Reply, Goto
<1>5. CASE GetBackups(r)
  BY <1>1, <1>5 DEF GetBackups, GiveUp, Reply, Goto
<1>6. CASE Restore(r)
  BY <1>1, <1>6 DEF Restore, GiveUp, Reply, Goto
<1>7. CASE Patch(r)
  BY <1>1, <1>7 DEF Patch, Whitelist, GiveUp, Reply, Goto
<1>8. CASE AddWhitelist(r)
  BY <1>1, <1>8 DEF AddWhitelist, Whitelist, RunDeferred, GiveUp, Reply, Goto
<1>9. CASE Cleanup(r)
  BY <1>1, <1>9 DEF Cleanup, GiveUp, Reply, Goto
<1>10. CASE Deprovision(r) \/ Update(r)
  BY <1>1, <1>10 DEF Deprovision, Update, LastCall, GiveUp, Reply, Goto
<1>11. CASE Poll(r)
  BY <1>1, <1>11 DEF Poll, GiveUp, Reply, Goto
<1> QED
  BY <1>2, <1>3, <1>4, <1>5, <1>6, <1>7, <1>8, <1>9, <1>10, <1>11 DEF Handle

\* What a request that comes in asks for.
Asks(r) ==
  /\ pc[r] = "idle" /\ pc'[r] # "idle"
  /\ \A q \in Requests \ {r} : UNCHANGED <<pc[q], arg[q], began[q]>>
  /\ UNCHANGED composeVars
  /\ arg'[r].op = "Provision" => began'[r] = Len(backups) /\ arg'[r].of = Nil

LEMMA ReceiveAsks ==
  ASSUME TypeInv, SafeInv, NEW r \in Requests, Receive(r)
  PROVE  Asks(r)
<1>1. pc[r] = "idle" /\ UNCHANGED composeVars
  BY DEF Receive
<1>2. arg[r].op = "none"
  BY <1>1 DEF SafeInv, CourseInv
<1>3. CASE Refuse(r)
  BY <1>1, <1>2, <1>3 DEF Refuse, Reply, Goto, Asks, TypeInv, TypeOK, LocalsTypeOK
<1>4. ASSUME NEW a, NEW label \in {"create", "list", "poll"}, Begin(r, a, label),
             a.op = "Provision" => a.of = Nil
      PROVE  Asks(r)
  BY <1>1, <1>4 DEF Begin, Goto, Asks, TypeInv, TypeOK, LocalsTypeOK
<1>5. CASE ReceiveProvision(r)
  BY <1>3, <1>4, <1>5 DEF ReceiveProvision, NoArg
<1>6. CASE ReceiveDeprovision(r)
  BY <1>3, <1>4, <1>6 DEF ReceiveDeprovision, NoArg
<1>7. CASE ReceiveUpdate(r)
  BY <1>3, <1>4, <1>7 DEF ReceiveUpdate, NoArg
<1>8. CASE ReceiveLastOperation(r)
  BY <1>3, <1>4, <1>8 DEF ReceiveLastOperation, NoArg
<1> QED
  BY <1>5, <1>6, <1>7, <1>8 DEF Receive

---------------------------------------------------------------------------
(* Who made what.                                                          *)

LEMMA HandleMakes ==
  ASSUME TypeInv, ReferInv, NEW r \in Requests, Handle(r)
  PROVE  \/ DOMAIN deployments' = DOMAIN deployments
         \/ /\ pc[r] \in {"create", "restore"}
            /\ DOMAIN deployments' = DOMAIN deployments \cup {Fresh(r)}
<1>1. CASE List(r) \/ Get(r) \/ GetBackups(r) \/ Poll(r)
  BY <1>1 DEF List, Get, GetBackups, Poll, Reads, composeVars
<1>2. CASE Create(r)
  BY <1>2 DEF Create, NewDeployment, With, composeVars
<1>3. CASE Restore(r)
  BY <1>3 DEF Restore, NewDeployment, With, composeVars
<1>4. CASE Patch(r)
  BY <1>4 DEF Patch, SetSpace, composeVars
<1>5. CASE AddWhitelist(r)
  BY <1>5 DEF AddWhitelist, NewRecipe, composeVars
<1>6. CASE Cleanup(r)
  BY <1>6 DEF Cleanup, NewRecipe, composeVars
<1>7. CASE Deprovision(r) \/ Update(r)
  BY <1>7 DEF Deprovision, Update, LastCall, NewRecipe, composeVars
<1> QED
  BY <1>1, <1>2, <1>3, <1>4, <1>5, <1>6, <1>7 DEF Handle

LEMMA HandleNotes ==
  ASSUME TypeInv, NEW r \in Requests, Handle(r)
  PROVE  /\ \A q \in Requests \ {r} : opdata'[q] = opdata[q]
         /\ opdata'[r].recipe \in {opdata[r].recipe, Fresh(r)}
<1>1. opdata \in [Requests -> [recipe : Ids \cup {Nil}, whitelist : Seq(Ids)]]
  BY DEF TypeInv, TypeOK, LocalsTypeOK
<1>2. ASSUME NEW x, opdata' = [opdata EXCEPT ![r].recipe = x]
      PROVE  opdata'[r].recipe = x /\ \A q \in Requests \ {r} : opdata'[q] = opdata[q]
  <2>1. opdata' = [opdata EXCEPT ![r] = [opdata[r] EXCEPT !.recipe = x]]
    BY <1>2
  <2>2. [opdata[r] EXCEPT !.recipe = x].recipe = x
    BY <1>1
  <2> QED
    BY <1>1, <2>1, <2>2
<1>3. ASSUME NEW ids, opdata' = [opdata EXCEPT ![r].whitelist = ids]
      PROVE  opdata'[r].recipe = opdata[r].recipe /\ \A q \in Requests \ {r} : opdata'[q] = opdata[q]
  <2>1. opdata' = [opdata EXCEPT ![r] = [opdata[r] EXCEPT !.whitelist = ids]]
    BY <1>3
  <2>2. [opdata[r] EXCEPT !.whitelist = ids].recipe = opdata[r].recipe
    BY <1>1
  <2> QED
    BY <1>1, <2>1, <2>2
<1>4. CASE UNCHANGED opdata
  BY <1>4
<1>5. CASE List(r) \/ Get(r) \/ GetBackups(r) \/ Patch(r) \/ Cleanup(r) \/ Poll(r)
  BY <1>4, <1>5 DEF List, Get, GetBackups, Patch, Cleanup, Poll
<1>6. CASE Create(r) \/ Restore(r)
  BY <1>2, <1>4, <1>6 DEF Create, Restore
<1>7. CASE AddWhitelist(r)
  BY <1>3, <1>4, <1>7 DEF AddWhitelist
<1>8. CASE Deprovision(r) \/ Update(r)
  BY <1>2, <1>4, <1>8 DEF Deprovision, Update, LastCall
<1> QED
  BY <1>5, <1>6, <1>7, <1>8 DEF Handle

LEMMA HandleMaker ==
  ASSUME TypeInv, ReferInv, MakerInv, NEW r \in Requests, Handle(r)
  PROVE  MakerInv'
<1>1. Fresh(r) \in {r} \X Nat
  BY FreshIsNew
<1>2. /\ arg' = arg
      /\ \A q \in Requests \ {r} : opdata'[q] = opdata[q]
      /\ opdata'[r].recipe \in {opdata[r].recipe, Fresh(r)}
  BY HandleKeepsArg, HandleNotes
<1>3. ASSUME NEW q \in Requests, OwnDeployments(q)' # {}
      PROVE  OwnDeployments(q) # {} \/ (q = r /\ pc[r] \in {"create", "restore"})
  <2>1. CASE DOMAIN deployments' = DOMAIN deployments
    BY <1>3, <2>1 DEF OwnDeployments
  <2>2. CASE pc[r] \in {"create", "restore"} /\ DOMAIN deployments' = DOMAIN deployments \cup {Fresh(r)}
    BY <1>1, <1>3, <2>2 DEF OwnDeployments
  <2> QED
    BY <2>1, <2>2, HandleMakes
<1>4. pc[r] \in {"create", "restore"} => arg[r].op = "Provision"
  BY DEF TypeInv, ArgsInv
<1> QED
  BY <1>1, <1>2, <1>3, <1>4 DEF MakerInv

LEMMA InitMaker == Init => MakerInv
<1> SUFFICES ASSUME Init PROVE MakerInv
  OBVIOUS
<1>1. \A r \in Requests : OwnDeployments(r) = {}
  BY ExistingAssumption DEF Init, ComposeInit, OwnDeployments
<1> QED
  BY <1>1 DEF Init, NoOpData, MakerInv

LEMMA NextMaker ==
  ASSUME BrokerInv, SafeInv, MakerInv, [Next]_vars
  PROVE  MakerInv'
<1>1. TypeInv /\ ReferInv
  BY DEF BrokerInv, SafeInv
<1>2. ASSUME NEW r \in Requests, Receive(r)
      PROVE  MakerInv'
  <2>1. UNCHANGED <<deployments, opdata>> /\ \A q \in Requests \ {r} : arg'[q] = arg[q]
    BY <1>1, <1>2, ReceiveAsks DEF Receive, Asks, composeVars
  <2>2. OwnDeployments(r) = {}
    BY <1>2 DEF Receive, SafeInv, CourseInv
  <2> QED
    BY <2>1, <2>2 DEF MakerInv, OwnDeployments
<1>3. ASSUME NEW r \in Requests, Crash(r)
      PROVE  MakerInv'
  BY <1>3 DEF Crash, composeVars, MakerInv, OwnDeployments
<1>4. CASE ComposeStep /\ UNCHANGED locals
  <2>1. DOMAIN deployments' = DOMAIN deployments
    BY <1>1, <1>4, ComposeStepGrows
  <2> QED
    BY <1>4, <2>1 DEF locals, MakerInv, OwnDeployments
<1>5. CASE UNCHANGED vars
  BY <1>5 DEF vars, composeVars, locals, MakerInv, OwnDeployments
<1> QED
  BY <1>1, <1>2, <1>3, <1>4, <1>5, HandleMaker DEF Next, Quiet

---------------------------------------------------------------------------
(* What is asked of the broker is what some step asks for.                 *)

\* No request comes in.
NothingAsked ==
  /\ arg' = arg /\ began' = began
  /\ \A q \in Requests : pc[q] # "idle" => pc'[q] # "idle"

LEMMA OnlySendsAsk ==
  ASSUME TypeInv, [LifeNext]_lifeVars, ~SendRequest, ~SendPoll
  PROVE  NothingAsked
<1>1. CASE UNCHANGED locals
  BY <1>1 DEF locals, NothingAsked
<1>2. CASE UNCHANGED bindVars
  BY <1>1, <1>2 DEF bindVars, vars
<1>3. CASE SendBinder
  <2>1. PICK b \in Binders : ReceiveBinder(b)
    BY <1>3 DEF SendBinder, UnusedBinders
  <2> QED
    BY <1>1, <2>1 DEF ReceiveBinder, vars
<1>4. CASE Test /\ ~SendBinder
  BY <1>2, <1>4 DEF Test, TakeStep, TimeOut, ReadAnswer, ReadPoll, Check, FindBackup, StartBackup,
                    AwaitBackup
<1>5. CASE Handling
  <2>1. ASSUME NEW r \in Requests, Handle(r)
        PROVE  NothingAsked
    BY <2>1, HandleKeepsArg DEF NothingAsked
  <2>2. ASSUME NEW b \in Binders, HandleBinder(b)
        PROVE  NothingAsked
    BY <1>1, <2>2 DEF HandleBinder, ListForBinder, GetForBinder, Lookup, UpdateUser, CreateUser,
                      RemoveUser, vars
  <2> QED
    BY <1>5, <2>1, <2>2 DEF Handling
<1>6. CASE Elsewhere
  BY <1>1, <1>6 DEF Elsewhere, BackupDone, Write, Drop, vars
<1>7. CASE UNCHANGED lifeVars
  BY <1>2, <1>7 DEF lifeVars
<1> QED
  BY <1>3, <1>4, <1>5, <1>6, <1>7 DEF LifeNext

\* The helper sends a Provision or a Deprovision.
LEMMA RequestSent ==
  ASSUME TypeInv, SafeInv, SendRequest
  PROVE  \E r \in Requests :
           /\ Asks(r) /\ out' = r /\ now' = now /\ phase = "send" /\ phase' = "wait"
           /\ now.do \in {"Provision", "Deprovision"}
           /\ arg'[r].op = now.do /\ arg'[r].instance = now.instance /\ arg'[r].source = now.source
<1>1. PICK r \in Requests :
        /\ Receive(r) /\ out' = r
        /\ arg'[r].op = now.do /\ arg'[r].instance = now.instance /\ arg'[r].source = now.source
  BY DEF SendRequest, Unused
<1> QED
  BY <1>1, ReceiveAsks DEF SendRequest, Continue

\* The helper sends a poll.
LEMMA PollSent ==
  ASSUME TypeInv, SafeInv, LifeInv, SendPoll
  PROVE  \E r \in Requests :
           /\ Asks(r) /\ out' = r /\ now' = now /\ phase = "poll" /\ phase' = "polling"
           /\ owner' = owner /\ arg'[r].of = owner /\ arg'[r].op # "Provision"
<1>1. PICK r \in Requests : Receive(r) /\ out' = r /\ arg'[r].of = owner
  BY DEF SendPoll, Unused
<1>2. Asks(r) /\ owner # Nil
  BY <1>1, ReceiveAsks, NilAssumption DEF SendPoll, LifeInv, PhaseInv
<1> QED
  BY <1>1, <1>2 DEF SendPoll, Continue, Asks

\* What the helper waits for and polls, when it sends nothing.
LEMMA KeepsWaiting ==
  ASSUME LifeInv, [LifeNext]_lifeVars, ~SendRequest, ~SendPoll
  PROVE  /\ phase' = "wait" => (phase = "wait" /\ UNCHANGED <<out, now>>) \/ out' \in Binders
         /\ phase' \in {"poll", "polling", "check"} =>
              /\ now' = now
              /\ \/ phase \in {"poll", "polling", "check"} /\ owner' = owner
                 \/ phase = "wait" /\ out \in Requests /\ owner' = out
         /\ phase' = "polling" => phase = "polling" /\ UNCHANGED <<out, owner>>
<1>1. CASE TakeStep \/ TimeOut \/ FindBackup \/ StartBackup \/ AwaitBackup
  BY <1>1 DEF TakeStep, TimeOut, Fail, FindBackup, StartBackup, AwaitBackup, Pass, Continue
<1>2. CASE SendBinder
  BY <1>2 DEF SendBinder, Continue, UnusedBinders
<1>3. CASE ReadAnswer
  BY <1>3 DEF ReadAnswer, Pass, Fail, Continue, LifeInv, PhaseInv
<1>4. CASE ReadPoll \/ Check
  BY <1>4 DEF ReadPoll, Check, Pass, Fail, Continue
<1>5. CASE UNCHANGED <<phase, now, out, owner>>
  BY <1>5
<1> QED
  BY <1>1, <1>2, <1>3, <1>4, <1>5
     DEF LifeNext, Test, Handling, Elsewhere, BackupDone, scriptVars, lifeVars

LEMMA InitSent == LifeInit => SentInv
  BY DEF LifeInit, BindInit, Init, NoArg, SentInv

LEMMA NextSent ==
  ASSUME BaseInv, SentInv, [LifeNext]_lifeVars
  PROVE  SentInv'
<1>1. TypeInv /\ SafeInv /\ LifeInv /\ LifeInv'
  BY NextBase DEF BaseInv, BrokerInv
<1>2. Begun \subseteq Begun'
  BY LifeCourse, BegunGrows
<1>3. CASE SendRequest
  <2>1. PICK r \in Requests :
          /\ Asks(r) /\ out' = r /\ now' = now /\ phase = "send" /\ phase' = "wait"
          /\ arg'[r].op = now.do /\ arg'[r].instance = now.instance /\ arg'[r].source = now.source
    BY <1>1, <1>3, RequestSent
  <2>2. now \in Begun'
    BY <2>1 DEF Begun
  <2> QED
    BY <1>2, <2>1, <2>2 DEF SentInv, SentFor, Asks
<1>4. CASE SendPoll
  <2>1. PICK r \in Requests :
          /\ Asks(r) /\ out' = r /\ now' = now /\ phase = "poll" /\ phase' = "polling"
          /\ owner' = owner /\ arg'[r].of = owner /\ arg'[r].op # "Provision"
    BY <1>1, <1>4, PollSent
  <2>2. owner \in Requests /\ SentFor(owner)
    BY <1>1, <2>1 DEF LifeInv, PhaseInv, SentInv
  <2>3. owner # r
    BY <2>1, <2>2 DEF SentFor, Asks
  <2> QED
    BY <1>2, <2>1, <2>2, <2>3 DEF SentInv, SentFor, Asks
<1>5. CASE ~SendRequest /\ ~SendPoll
  <2>1. NothingAsked
    BY <1>1, <1>5, OnlySendsAsk
  <2>2. ASSUME NEW r \in Requests, SentFor(r), now' = now
        PROVE  SentFor(r)'
    BY <2>1, <2>2 DEF SentFor, NothingAsked
  <2>3. /\ phase' = "wait" /\ out' \in Requests => phase = "wait" /\ UNCHANGED <<out, now>>
        /\ phase' \in {"poll", "polling", "check"} =>
             /\ now' = now
             /\ \/ phase \in {"poll", "polling", "check"} /\ owner' = owner
                \/ phase = "wait" /\ out \in Requests /\ owner' = out
        /\ phase' = "polling" => phase = "polling" /\ UNCHANGED <<out, owner>>
    BY <1>1, <1>5, KeepsWaiting, OutAssumption
  <2>4. /\ phase' = "wait" /\ out' \in Requests => SentFor(out)'
        /\ phase' \in {"poll", "polling", "check"} => SentFor(owner)'
    BY <1>1, <2>1, <2>3 DEF SentInv, SentFor, NothingAsked, LifeInv, PhaseInv
  <2>5. phase' = "polling" => pc'[out'] # "idle" /\ arg'[out'].of = owner'
    BY <1>1, <2>1, <2>3 DEF SentInv, NothingAsked, LifeInv, PhaseInv
  <2>6. \A r \in Requests : arg'[r].op = "Provision" =>
          \E s \in Begun' : s.do = "Provision" /\ s.instance = arg'[r].instance /\ s.source = arg'[r].source
    BY <1>2, <2>1 DEF SentInv, NothingAsked
  <2> QED
    BY <2>4, <2>5, <2>6 DEF SentInv
<1> QED
  BY <1>3, <1>4, <1>5

---------------------------------------------------------------------------
(* What is made is undone, and what is undone is gone.                     *)

\* How a step passes.
LEMMA NewlyPassed ==
  ASSUME LifeInv, [LifeNext]_lifeVars, NEW s \in passed' \ passed
  PROVE  /\ s = now /\ s \in Step /\ Pass /\ UNCHANGED <<bindVars, now>>
         /\ s.do = "Deprovision" =>
              phase = "polling" /\ out \in Requests /\ reply[out] = "op succeeded"
         /\ s.do = "Bind" =>
              phase = "wait" /\ out \in Binders /\ at[out] = "done" /\ told[out] = "created"
<1>1. passed' # passed
  OBVIOUS
<1>2. phase # "next" => now \in Step
  BY DEF LifeInv, PhaseInv
<1>3. CASE ReadAnswer
  <2>1. Heard = Expected /\ now.do \in {"Bind", "Unbind"} /\ Pass /\ Answered /\ phase = "wait"
    BY <1>1, <1>3 DEF ReadAnswer, Fail, Continue
  <2>2. out \in Binders /\ out \notin Requests
    BY <2>1, OutAssumption DEF LifeInv, PhaseInv
  <2>3. now.do = "Bind" => at[out] = "done" /\ told[out] = "created"
    BY <2>1, <2>2 DEF Heard, Answered, Expected
  <2> QED
    BY <1>2, <1>3, <2>1, <2>2, <2>3 DEF ReadAnswer, Pass
<1>4. CASE ReadPoll
  <2>1. Heard = "op succeeded" /\ now.do # "Provision" /\ Pass /\ phase = "polling"
    BY <1>1, <1>4 DEF ReadPoll, Fail, Continue
  <2>2. out \in Requests /\ now.do = "Deprovision"
    BY <2>1 DEF LifeInv, PhaseInv
  <2> QED
    BY <1>2, <1>4, <2>1, <2>2 DEF ReadPoll, Pass, Heard
<1>5. CASE Check
  <2>1. Pass /\ now.do = "Provision" /\ phase = "check"
    BY <1>1, <1>5 DEF Check, Fail, LifeInv, PhaseInv
  <2> QED
    BY <1>2, <1>5, <2>1 DEF Check, Pass
<1>6. CASE AwaitBackup
  <2>1. Pass /\ now.do = "Backup" /\ phase = "backup"
    BY <1>1, <1>6 DEF AwaitBackup, Continue, LifeInv, PhaseInv
  <2> QED
    BY <1>2, <1>6, <2>1 DEF AwaitBackup, Pass
<1>7. CASE TakeStep \/ TimeOut \/ SendRequest \/ SendBinder \/ SendPoll \/ FindBackup \/ StartBackup
  BY <1>1, <1>7 DEF TakeStep, TimeOut, Fail, SendRequest, SendBinder, SendPoll, FindBackup,
                    StartBackup, Continue
<1>8. ~UNCHANGED scriptVars /\ ~BackupDone
  BY <1>1 DEF scriptVars, BackupDone
<1> QED
  BY <1>3, <1>4, <1>5, <1>6, <1>7, <1>8 DEF LifeNext, Test, Handling, Elsewhere, lifeVars

LEMMA StillToUndo ==
  ASSUME LifeInv, Course
  PROVE  ToUndo \cup Begun \subseteq ToUndo' \cup Begun'
<1>1. Begun \subseteq Begun' /\ (TakeStep => now' \in Begun')
  BY BegunGrows DEF TakeStep, Begun
<1>2. CASE TakeStep
  <2>1. \/ deferred' = deferred
        \/ deferred # <<>> /\ now' = Head(deferred) /\ deferred' = Tail(deferred)
    BY <1>2 DEF TakeStep
  <2>2. deferred \in Seq(Step)
    BY DEF LifeInv, LifeTypeOK
  <2>3. ToUndo \subseteq {now'} \cup ToUndo'
    BY <2>1, <2>2, FirstElement DEF ToUndo
  <2> QED
    BY <1>1, <1>2, <2>3
<1>3. CASE Pass /\ phase # "next"
  <2>1. now \in Step /\ deferred \in Seq(Step) /\ deferred' = Undo(now) \o deferred
    BY <1>3 DEF Pass, LifeInv, LifeTypeOK, PhaseInv
  <2>2. ToUndo \subseteq ToUndo'
    BY <2>1, Deferring, Zenon DEF ToUndo
  <2> QED
    BY <1>1, <2>2
<1>4. CASE deferred' = deferred
  BY <1>1, <1>4 DEF ToUndo
<1> QED
  BY <1>2, <1>3, <1>4 DEF Course, Fail

\* A Deprovision that was polled until it succeeded has removed a deployment
\* of its instance.
LEMMA PolledGone ==
  ASSUME BaseInv, MeantInv, MakerInv, SentInv, phase = "polling", now.do = "Deprovision",
         out \in Requests, reply[out] = "op succeeded"
  PROVE  \E d \in DOMAIN deployments : deployments[d].name = now.instance /\ ~Live(d)
<1>1. PICK q \in Requests : q = owner
  BY DEF BaseInv, LifeInv, PhaseInv
<1>2. arg[out].of = q /\ arg[q].op = "Deprovision" /\ arg[q].instance = now.instance
  BY <1>1 DEF SentInv, SentFor
<1>3. /\ reply[q] = "accepted"
      /\ \A i \in DOMAIN RecipesOf(opdata[q]) : Done(RecipesOf(opdata[q])[i])
  BY <1>2 DEF MeantInv, SuccessInv
<1>4. PICK x \in Ids, ids \in Seq(Ids) :
        x = opdata[q].recipe /\ ids = opdata[q].whitelist /\ x \in DOMAIN recipes
  <2>1. opdata[q].recipe \in DOMAIN recipes /\ DOMAIN recipes \subseteq Ids
    BY <1>3 DEF MeantInv, KnownInv, OpDataInv, BaseInv, BrokerInv, TypeInv, TypeOK, ComposeTypeOK
  <2>2. opdata[q].whitelist \in Seq(Ids)
    BY DEF BaseInv, BrokerInv, TypeInv, TypeOK, LocalsTypeOK
  <2> QED
    BY <2>1, <2>2
<1>5. RecipesOf(opdata[q]) = <<x>> \o ids
  BY <1>4 DEF RecipesOf
<1>6. Done(x)
  BY <1>3, <1>5, HeadAndTail
<1>7. x # Nil
  BY <1>4, NilAssumption
<1>8. recipes[x].kind = "deprovision"
  BY <1>2, <1>4, <1>7 DEF MeantInv, RetireInv
<1>9. recipes[x].on \in DOMAIN deployments /\ ~deployments[recipes[x].on].live
  BY <1>4, <1>6, <1>8 DEF MeantInv, EffectInv, BaseInv, SafeInv, ReferInv
<1>10. x \in OwnRecipes(q)
  BY <1>4, <1>7 DEF MakerInv, OwnRecipes
<1>11. deployments[recipes[x].on].name = now.instance
  BY <1>2, <1>10 DEF BaseInv, SafeInv, MadeInv
<1> QED
  BY <1>9, <1>11 DEF Live

LEMMA NextUndone ==
  ASSUME BaseInv, MeantInv, MakerInv, SentInv, UndoneInv, [LifeNext]_lifeVars
  PROVE  UndoneInv'
<1>1. ToUndo \cup Begun \subseteq ToUndo' \cup Begun'
  BY LifeCourse, StillToUndo DEF BaseInv
<1>2. Keeps
  BY NextBase
<1>3. ASSUME NEW s \in passed, s.do = "Deprovision"
      PROVE  \E d \in DOMAIN deployments' : deployments'[d].name = s.instance /\ ~Live(d)'
  <2>1. PICK d \in DOMAIN deployments : deployments[d].name = s.instance /\ ~Live(d)
    BY <1>3 DEF UndoneInv
  <2> QED
    BY <1>2, <2>1 DEF Keeps, Live
<1>4. ASSUME NEW s \in passed' \ passed
      PROVE  /\ s.do = "Provision" =>
                  [s EXCEPT !.do = "Deprovision", !.source = Nil] \in ToUndo' \cup Begun'
             /\ s.do = "Deprovision" =>
                  \E d \in DOMAIN deployments' : deployments'[d].name = s.instance /\ ~Live(d)'
  <2>1. /\ s = now /\ s \in Step /\ Pass /\ UNCHANGED bindVars
        /\ s.do = "Deprovision" => phase = "polling" /\ out \in Requests /\ reply[out] = "op succeeded"
    BY <1>4, NewlyPassed DEF BaseInv
  <2>2. ASSUME s.do = "Provision"
        PROVE  [s EXCEPT !.do = "Deprovision", !.source = Nil] \in ToUndo'
    <3>1. deferred \in Seq(Step) /\ deferred' = Undo(s) \o deferred
      BY <2>1 DEF Pass, BaseInv, LifeInv, LifeTypeOK
    <3> QED
      BY <2>1, <2>2, <3>1, Deferring DEF ToUndo
  <2>3. ASSUME s.do = "Deprovision"
        PROVE  \E d \in DOMAIN deployments' : deployments'[d].name = s.instance /\ ~Live(d)'
    <3>1. deployments' = deployments
      BY <2>1 DEF bindVars, vars, composeVars
    <3>2. \E d \in DOMAIN deployments : deployments[d].name = now.instance /\ ~Live(d)
      BY <2>1, <2>3, PolledGone
    <3> QED
      BY <2>1, <3>1, <3>2 DEF Live
  <2> QED
    BY <2>2, <2>3
<1> QED
  BY <1>1, <1>3, <1>4 DEF UndoneInv

\* A test leaves a deployment behind only where making or deprovisioning it
\* failed, or where another one of its name was removed in its place, if bodies
\* decode.
THEOREM NothingIsLeftBehind ==
  ASSUME Decodes
  PROVE  LifeSpec => []NothingLeftBehind
<1> DEFINE Inv == BaseInv /\ MeantInv /\ MakerInv /\ SentInv /\ UndoneInv
<1>1. LifeInit => Inv
  BY InitBase, InitMeant, InitMaker, InitSent DEF LifeInit, BindInit, UndoneInv
<1>2. Inv /\ [LifeNext]_lifeVars => Inv'
  BY NextBase, LifeStepIsNext, NextMeant, NextMaker, NextSent, NextUndone DEF BaseInv
<1>3. Inv => NothingLeftBehind
  <2> SUFFICES ASSUME Inv, Over, NEW i \in Instances,
                      NEW d \in Named(i) \ DOMAIN Existing
               PROVE  \/ \E s \in failed : s.instance = i /\ s.do \in {"Provision", "Deprovision"}
                      \/ \E c \in DOMAIN deployments : deployments[c].name = i /\ ~Live(c)
    BY DEF NothingLeftBehind
  <2>1. Live(d) /\ d \in DOMAIN deployments /\ deployments[d].name = i
    BY DEF Named
  <2>2. PICK r \in Requests : d \in {r} \X Nat
    BY <2>1 DEF BaseInv, BrokerInv, TypeInv, TypeOK, ComposeTypeOK, Ids
  <2>3. arg[r].op = "Provision" /\ arg[r].instance = i
    BY <2>1, <2>2 DEF MakerInv, OwnDeployments, BaseInv, SafeInv, MadeInv
  <2>4. PICK s \in Begun : s.do = "Provision" /\ s.instance = i
    BY <2>3 DEF SentInv
  <2>5. Begun = passed \cup failed /\ ToUndo = {}
    BY DEF Over, Begun, ToUndo, Elements
  <2>6. CASE s \in failed
    BY <2>4, <2>6
  <2>7. CASE s \in passed
    <3>1. PICK u : u = [s EXCEPT !.do = "Deprovision", !.source = Nil]
      OBVIOUS
    <3>2. u \in passed \cup failed
      BY <2>4, <2>5, <2>7, <3>1 DEF UndoneInv
    <3>3. u.do = "Deprovision" /\ u.instance = i
      <4>1. s \in Step
        BY <2>7 DEF BaseInv, LifeInv, LifeTypeOK
      <4> QED
        BY <2>4, <3>1, <4>1, StepShape
    <3>4. CASE u \in passed
      BY <3>3, <3>4 DEF UndoneInv
    <3>5. CASE u \in failed
      BY <3>3, <3>5
    <3> QED
      BY <3>2, <3>4, <3>5
  <2> QED
    BY <2>4, <2>5, <2>6, <2>7
<1> QED
  BY <1>1, <1>2, <1>3, PTL DEF LifeSpec

---------------------------------------------------------------------------
(* What is restored holds what was backed up before.                       *)

LEMMA NextOrder ==
  ASSUME LifeInv, OrderInv, Course
  PROVE  OrderInv'
<1>1. Begun' = Begun \/ (TakeStep /\ Begun' = Begun \cup {now'})
  BY BegunGrows
<1>2. CASE TakeStep /\ left # <<>> /\ now' = Head(left) /\ left' = Tail(left)
  <2>1. left \in Seq(Step)
    BY DEF LifeInv, LifeTypeOK
  <2>2. /\ 1 \in DOMAIN left /\ left[1] = now'
        /\ \A k \in DOMAIN left' :
             k \in Nat /\ k >= 1 /\ k + 1 \in DOMAIN left /\ left'[k] = left[k + 1]
    BY <1>2, <2>1, FirstAndRest
  <2>3. \A j, k \in DOMAIN left' : j < k => ~Clash(left'[j], left'[k])
    BY <2>2 DEF OrderInv
  <2>4. \A k \in DOMAIN left' : ~Clash(now', left'[k])
    BY <2>2 DEF OrderInv
  <2>5. \A s \in Begun : (\A k \in DOMAIN left' : ~Clash(s, left'[k])) /\ ~Clash(s, now')
    BY <2>2 DEF OrderInv
  <2>6. ~Clash(now', now')
    BY DEF Clash
  <2> QED
    BY <1>1, <2>3, <2>4, <2>5, <2>6 DEF OrderInv, Clash
<1>3. CASE TakeStep /\ left = <<>> /\ deferred # <<>> /\ now' = Head(deferred) /\ left' = left
  <2>1. deferred \in Seq(Step) /\ \A u \in ToUndo : u.do \in {"Deprovision", "Unbind"}
    BY DEF LifeInv, LifeTypeOK, PhaseInv
  <2>2. now'.do \in {"Deprovision", "Unbind"}
    BY <1>3, <2>1, FirstElement DEF ToUndo
  <2>3. DOMAIN left' = {}
    BY <1>3
  <2> QED
    BY <2>2, <2>3 DEF OrderInv, Clash
<1>4. CASE TakeStep
  BY <1>2, <1>3, <1>4 DEF TakeStep
<1>5. CASE ~TakeStep
  <2>1. phase' # "next" => phase # "next" /\ now' = now /\ left' = left
    BY <1>5 DEF Course, Pass, Fail
  <2>2. left' = left \/ DOMAIN left' = {}
    BY <1>5 DEF Course, Pass, Fail
  <2> QED
    BY <1>1, <1>5, <2>1, <2>2 DEF OrderInv, Clash
<1> QED
  BY <1>4, <1>5

\* Where a running backup leaves the test.
BackingUp ==
  phase = "backup" \/ (left = <<>> /\ (phase = "next" \/ now.do \in {"Deprovision", "Unbind"}))

LEMMA NextBackingUp ==
  ASSUME LifeInv, [LifeNext]_lifeVars, BackingUp, job = "running"
  PROVE  BackingUp'
<1>1. CASE TakeStep
  <2>1. left = <<>> /\ deferred # <<>> /\ now' = Head(deferred) /\ left' = left
    BY <1>1 DEF TakeStep, BackingUp
  <2>2. deferred \in Seq(Step) /\ \A u \in ToUndo : u.do \in {"Deprovision", "Unbind"}
    BY DEF LifeInv, LifeTypeOK, PhaseInv
  <2>3. now'.do \in {"Deprovision", "Unbind"}
    BY <2>1, <2>2, FirstElement DEF ToUndo
  <2> QED
    BY <2>1, <2>3 DEF BackingUp
<1>2. CASE AwaitBackup
  BY <1>2 DEF AwaitBackup, BackedUp, Continue, BackingUp
<1>3. CASE TimeOut
  BY <1>3 DEF TimeOut, Fail, BackingUp
<1>4. CASE phase \notin {"next", "backup"} /\ now' = now /\ left' \in {left, <<>>}
  BY <1>4 DEF BackingUp
<1>5. CASE SendRequest \/ SendBinder \/ SendPoll
  BY <1>4, <1>5 DEF SendRequest, SendBinder, SendPoll, Continue
<1>6. CASE ReadAnswer \/ ReadPoll \/ Check
  BY <1>4, <1>6 DEF ReadAnswer, ReadPoll, Check, Continue, Pass, Fail
<1>7. CASE FindBackup \/ StartBackup
  BY <1>4, <1>7 DEF FindBackup, StartBackup, Continue
<1>8. CASE UNCHANGED <<phase, left, now>>
  BY <1>8 DEF BackingUp
<1> QED
  BY <1>1, <1>2, <1>3, <1>5, <1>6, <1>7, <1>8
     DEF LifeNext, Test, Handling, Elsewhere, BackupDone, scriptVars, lifeVars

\* While a backup is made nobody asks for a restore.
LEMMA NoRestoreAsked ==
  ASSUME BaseInv, RunInv, job = "running", [LifeNext]_lifeVars, NEW r \in Requests,
         arg'[r].op = "Provision"
  PROVE  arg[r].op = "Provision" /\ arg'[r] = arg[r]
<1>1. TypeInv /\ SafeInv /\ LifeInv
  BY DEF BaseInv, BrokerInv
<1>2. CASE SendRequest
  <2>1. PICK q \in Requests :
          Asks(q) /\ arg'[q].op = now.do /\ phase = "send" /\ now.do \in {"Provision", "Deprovision"}
    BY <1>1, <1>2, RequestSent
  <2>2. now.do = "Deprovision"
    BY <2>1 DEF RunInv
  <2> QED
    BY <2>1, <2>2 DEF Asks
<1>3. CASE SendPoll
  <2>1. PICK q \in Requests : Asks(q) /\ arg'[q].op # "Provision"
    BY <1>1, <1>3, PollSent
  <2> QED
    BY <2>1 DEF Asks
<1>4. CASE ~SendRequest /\ ~SendPoll
  BY <1>1, <1>4, OnlySendsAsk DEF NothingAsked
<1> QED
  BY <1>2, <1>3, <1>4

LEMMA NextRun ==
  ASSUME BaseInv, SentInv, OrderInv, RunInv, [LifeNext]_lifeVars
  PROVE  RunInv'
<1>1. LifeInv /\ Keeps /\ TypeInv
  BY NextBase DEF BaseInv, BrokerInv
<1>2. CASE job = "running" /\ backing' = backing
  <2>1. backing \in DOMAIN deployments /\ backing \in DOMAIN deployments'
        /\ deployments'[backing].name = deployments[backing].name
    BY <1>1, <1>2 DEF RunInv, Keeps
  <2>2. BackingUp'
    BY <1>1, <1>2, NextBackingUp DEF RunInv, BackingUp
  <2>3. \A r \in Requests : arg'[r].op = "Provision" => arg'[r].source # deployments[backing].name
    BY <1>2, NoRestoreAsked DEF RunInv
  <2> QED
    BY <1>2, <2>1, <2>2, <2>3 DEF RunInv, BackingUp
<1>3. CASE StartBackup /\ job' = "running"
  <2>1. /\ phase = "start" /\ phase' = "backup" /\ now \in Step /\ now.do = "Backup"
        /\ backing \in DOMAIN deployments /\ deployments[backing].name = now.instance
        /\ UNCHANGED <<bindVars, backing>>
    <3>1. CASE job' = "running" /\ Continue("backup", FALSE)
      BY <1>1, <1>3, <3>1 DEF StartBackup, Continue, LifeInv, PhaseInv
    <3>2. CASE job = "running" /\ ~tried
      BY <1>1, <1>3, <3>2 DEF StartBackup, RunInv, LifeInv, PhaseInv
    <3> QED
      BY <1>3, <3>1, <3>2 DEF StartBackup
  <2>2. UNCHANGED <<deployments, arg>>
    BY <2>1 DEF bindVars, vars, composeVars, locals
  <2>3. ASSUME NEW r \in Requests, arg[r].op = "Provision"
        PROVE  arg[r].source # now.instance
    <3>1. PICK s \in Begun : s.do = "Provision" /\ s.source = arg[r].source
      BY <2>3 DEF SentInv
    <3> QED
      BY <2>1, <3>1 DEF OrderInv, Clash
  <2> QED
    BY <2>1, <2>2, <2>3 DEF RunInv
<1>4. CASE FindBackup
  <2>1. job # "running"
    BY <1>1, <1>4 DEF FindBackup, RunInv, LifeInv, PhaseInv
  <2> QED
    BY <1>4, <2>1 DEF FindBackup, RunInv
<1>5. CASE job' # "running"
  BY <1>5 DEF RunInv
<1>6. ~FindBackup /\ ~StartBackup => backing' = backing /\ job' \in {job, "complete"}
  BY DEF LifeNext, Test, TakeStep, TimeOut, SendRequest, SendBinder, ReadAnswer, SendPoll, ReadPoll,
         Check, AwaitBackup, Handling, Elsewhere, BackupDone, scriptVars, lifeVars
<1> QED
  BY <1>2, <1>3, <1>4, <1>5, <1>6

LEMMA BackupsGrow ==
  ASSUME TypeInv, ReferInv, [Next]_vars
  PROVE  \A b \in DOMAIN backups : b \in DOMAIN backups' /\ backups'[b] = backups[b]
<1>1. ASSUME NEW r \in Requests, Receive(r) \/ Handle(r) \/ Crash(r)
      PROVE  backups' = backups
  <2>1. AtMostOneThing(r)
    BY <1>1, OneThing
  <2> QED
    BY <2>1 DEF AtMostOneThing, NewDeployment, NewRecipe, SetSpace, composeVars
<1>2. CASE ComposeStep
  BY <1>2, ComposeStepGrows DEF Grows
<1>3. CASE UNCHANGED vars
  BY <1>3 DEF vars, composeVars
<1> QED
  BY <1>1, <1>2, <1>3 DEF Next, Quiet

\* The part of MarkInv that is about instance i.
Marked(i) ==
  mark[i] # 0 =>
    /\ mark[i] \in DOMAIN backups /\ backups[mark[i]].restorable
    /\ deployments[backups[mark[i]].of].name = i
    /\ \A r \in Requests : arg[r].op = "Provision" /\ arg[r].source = i => mark[i] <= began[r]

LEMMA MarkKept ==
  ASSUME BaseInv, MarkInv, [LifeNext]_lifeVars, NEW i \in Instances, mark'[i] = mark[i],
         ~BackupDone
  PROVE  Marked(i)'
<1>1. TypeInv /\ SafeInv /\ LifeInv /\ Keeps /\ ReferInv
  BY NextBase DEF BaseInv, BrokerInv, SafeInv
<1>2. SUFFICES ASSUME mark[i] # 0 PROVE Marked(i)'
  BY DEF Marked
<1>3. PICK b \in DOMAIN backups : b = mark[i]
  BY <1>2 DEF MarkInv
<1>4. b \in DOMAIN backups' /\ backups'[b] = backups[b] /\ backups[b].of \in DOMAIN deployments
  BY <1>1, BackupsGrow, LifeStepIsNext DEF ReferInv
<1>5. /\ backups'[b].restorable
      /\ deployments'[backups'[b].of].name = i
  BY <1>1, <1>2, <1>3, <1>4 DEF MarkInv, Keeps
<1>6. ASSUME NEW r \in Requests, arg'[r].op = "Provision", arg'[r].source = i
      PROVE  b <= began'[r]
  <2>1. CASE arg'[r] = arg[r] /\ began'[r] = began[r]
    BY <1>2, <1>3, <1>6, <2>1 DEF MarkInv
  <2>2. CASE began'[r] = Len(backups)
    <3>1. b \in 1 .. Len(backups)
      BY <1>1 DEF TypeInv, TypeOK, ComposeTypeOK
    <3> QED
      BY <2>2, <3>1
  <2>3. CASE SendRequest
    <3>1. PICK q \in Requests : Asks(q)
      BY <1>1, <2>3, RequestSent
    <3> QED
      BY <1>6, <2>1, <2>2, <3>1 DEF Asks
  <2>4. CASE SendPoll
    <3>1. PICK q \in Requests : Asks(q)
      BY <1>1, <2>4, PollSent
    <3> QED
      BY <1>6, <2>1, <2>2, <3>1 DEF Asks
  <2>5. CASE ~SendRequest /\ ~SendPoll
    BY <1>1, <2>1, <2>5, OnlySendsAsk DEF NothingAsked
  <2> QED
    BY <2>3, <2>4, <2>5
<1> QED
  BY <1>3, <1>4, <1>5, <1>6 DEF Marked

LEMMA BackupMarks ==
  ASSUME BaseInv, RunInv, MarkInv, BackupDone, NEW i \in Instances
  PROVE  Marked(i)'
<1>1. TypeInv /\ LifeInv /\ ReferInv
  BY DEF BaseInv, BrokerInv, SafeInv
<1>2. /\ job = "running" /\ UNCHANGED <<deployments, arg, began>> /\ backing \in DOMAIN deployments
      /\ \E restorable \in BOOLEAN : backups' = Append(backups, [of |-> backing, restorable |-> restorable])
      /\ backups'[Len(backups')].restorable
      /\ mark' = [mark EXCEPT ![deployments[backing].name] = Len(backups')]
  BY DEF BackupDone, TakeBackup, locals, Live
<1>3. backups \in Seq(Backup) /\ mark \in [Instances -> Nat]
  BY <1>1 DEF TypeInv, TypeOK, ComposeTypeOK, LifeInv, LifeTypeOK
<1>4. PICK last \in DOMAIN backups' : last = Len(backups') /\ backups'[last].of = backing
  BY <1>2, <1>3
<1>5. \A b \in DOMAIN backups : b \in DOMAIN backups' /\ backups'[b] = backups[b]
  BY <1>2, <1>3
<1>6. CASE i = deployments[backing].name
  <2>1. mark'[i] = last
    BY <1>2, <1>3, <1>4, <1>6
  <2>2. \A r \in Requests : ~(arg'[r].op = "Provision" /\ arg'[r].source = i)
    BY <1>2, <1>6 DEF RunInv
  <2> QED
    BY <1>2, <1>4, <1>6, <2>1, <2>2 DEF Marked
<1>7. CASE i # deployments[backing].name
  <2>1. mark'[i] = mark[i]
    BY <1>2, <1>3, <1>7
  <2> QED
    BY <1>2, <1>5, <2>1 DEF MarkInv, Marked
<1> QED
  BY <1>6, <1>7

LEMMA NextMark ==
  ASSUME BaseInv, RunInv, MarkInv, [LifeNext]_lifeVars
  PROVE  MarkInv'
<1>1. \A i \in Instances : Marked(i)'
  <2>1. CASE BackupDone
    BY <2>1, BackupMarks
  <2>2. CASE ~BackupDone
    <3>1. mark' = mark
      BY <2>2 DEF LifeNext, Test, TakeStep, TimeOut, SendRequest, SendBinder, ReadAnswer, SendPoll,
                  ReadPoll, Check, FindBackup, StartBackup, AwaitBackup, Handling, Elsewhere,
                  scriptVars, lifeVars
    <3> QED
      BY <2>2, <3>1, MarkKept
  <2> QED
    BY <2>1, <2>2
<1> QED
  BY <1>1 DEF MarkInv, Marked

LEMMA InitOrder ==
  ASSUME BackupsFirst, LifeInit
  PROVE  OrderInv /\ RunInv /\ MarkInv
  BY DEF BackupsFirst, LifeInit, OrderInv, Begun, RunInv, MarkInv

\* What is restored is a backup of the instance asked for, and no older than the
\* one CreateBackup made of the same deployment, if no instance is backed up
\* after it was restored, as in no test.
THEOREM RestoresWhatWasBackedUp ==
  ASSUME BackupsFirst
  PROVE  LifeSpec => []RestoredHasBackup
<1> DEFINE Inv == BaseInv /\ MakerInv /\ SentInv /\ OrderInv /\ RunInv /\ MarkInv
<1>1. LifeInit => Inv
  BY InitBase, InitMaker, InitSent, InitOrder DEF LifeInit, BindInit
<1>2. Inv /\ [LifeNext]_lifeVars => Inv'
  BY NextBase, LifeStepIsNext, NextMaker, NextSent, LifeCourse, NextOrder, NextRun, NextMark DEF BaseInv
<1>3. Inv => RestoredHasBackup
  <2> SUFFICES ASSUME Inv, NEW r \in Requests, NEW d \in DOMAIN deployments,
                      NEW b, b = deployments[d].from, NEW i, i = arg[r].source,
                      d \in {r} \X Nat, b # 0
               PROVE  /\ deployments[backups[b].of].name = i
                      /\ mark[i] # 0 /\ backups[b].of = backups[mark[i]].of => b >= mark[i]
    BY DEF RestoredHasBackup
  <2>1. arg[r].op = "Provision" /\ WellChosen(r, b)
    BY DEF MakerInv, OwnDeployments, BaseInv, SafeInv, MadeInv
  <2>2. /\ b \in DOMAIN backups /\ IsFresh(r, b, backups[b].of)
        /\ backups[b].of \in DOMAIN deployments /\ deployments[backups[b].of].name = i
    BY <2>1 DEF WellChosen, BaseInv, SafeInv, ReferInv
  <2>3. i \in Instances
    <3>1. \A e \in DOMAIN deployments : deployments[e] \in Deployment
      BY DEF BaseInv, BrokerInv, TypeInv, TypeOK, ComposeTypeOK
    <3> QED
      BY <2>2, <3>1 DEF Deployment
  <2>4. ASSUME mark[i] # 0, backups[b].of = backups[mark[i]].of
        PROVE  b >= mark[i]
    <3>1. PICK c \in DOMAIN backups : c = mark[i] /\ backups[c].restorable /\ c <= began[r]
      BY <2>1, <2>3, <2>4 DEF MarkInv
    <3>2. c <= b
      BY <2>2, <2>4, <3>1 DEF IsFresh, Restorable
    <3>3. b \in Nat /\ c \in Nat
      BY <2>2 DEF BaseInv, BrokerInv, TypeInv, TypeOK, ComposeTypeOK
    <3> QED
      BY <3>1, <3>2, <3>3
  <2> QED
    BY <2>2, <2>4
<1> QED
  BY <1>1, <1>2, <1>3, PTL DEF LifeSpec

---------------------------------------------------------------------------
(* Bindings in use work.                                                   *)

\* A handler of a binder works for the binder alone.
LEMMA BinderMoves ==
  ASSUME BindInv, NEW b \in Binders, HandleBinder(b)
  PROVE  /\ Working(b) /\ UNCHANGED ask
         /\ \A c \in Binders \ {b} : at'[c] = at[c] /\ told'[c] = told[c]
         /\ at'[b] # "idle"
         /\ \A x \in BindingIds : holder'[x] = holder[x] \/ holder'[x] = b
         /\ at'[b] = "done" /\ told'[b] = "created" => holder'[ask[b].binding] = b
<1>1. Working(b) /\ UNCHANGED ask
  BY DEF HandleBinder, ListForBinder, GetForBinder, Lookup, UpdateUser, CreateUser, RemoveUser, Working
<1>2. /\ at \in [Binders -> Stages] /\ told \in [Binders -> Answer]
      /\ holder \in [BindingIds -> Binders \cup {Nil}] /\ ask[b].binding \in BindingIds
  BY <1>1 DEF BindInv, BindTypeOK, WorkInv, Working, Stages, Answer
<1>3. ASSUME NEW stage \in Stages \ {"idle", "done"}, Proceed(b, stage)
      PROVE  /\ \A c \in Binders \ {b} : at'[c] = at[c] /\ told'[c] = told[c]
             /\ at'[b] \notin {"idle", "done"} /\ holder' = holder
  BY <1>2, <1>3 DEF Proceed
<1>4. ASSUME NEW answer \in Answer, Tell(b, answer)
      PROVE  /\ \A c \in Binders \ {b} : at'[c] = at[c] /\ told'[c] = told[c]
             /\ at'[b] = "done" /\ told'[b] = answer
             /\ \A x \in BindingIds : holder'[x] = holder[x] \/ holder'[x] = b
             /\ answer = "created" => holder'[ask[b].binding] = b
  BY <1>2, <1>4 DEF Tell
<1> QED
  BY <1>1, <1>3, <1>4, GoesOrTells

\* The helper sends a Bind or an Unbind.
LEMMA BinderSent ==
  ASSUME BindInv, LifeInv, SendBinder
  PROVE  \E b \in Binders :
           /\ out' = b /\ now' = now /\ phase = "send" /\ phase' = "wait"
           /\ now \in Step /\ now.do \in {"Bind", "Unbind"}
           /\ at'[b] = "list" /\ ask'[b].binding = now.binding
           /\ \A c \in Binders \ {b} : at'[c] = at[c]
           /\ \A x \in BindingIds :
                holder'[x] = holder[x] \/ (now.do = "Unbind" /\ x = now.binding)
<1>1. PICK b \in Binders :
        ReceiveBinder(b) /\ ask'[b].op = now.do /\ ask'[b].binding = now.binding /\ out' = b
  BY DEF SendBinder, UnusedBinders
<1>2. PICK op \in {"Bind", "Unbind"}, x \in BindingIds : Received(b, op, x)
  BY <1>1, ReceiveShape
<1>3. op = now.do /\ x = now.binding
  BY <1>1, <1>2 DEF Received
<1>4. now \in Step
  BY DEF SendBinder, LifeInv, PhaseInv
<1> QED
  BY <1>1, <1>2, <1>3, <1>4 DEF SendBinder, Continue, Received

LEMMA NextSole ==
  ASSUME BindInv, LifeInv, SoleInv, [LifeNext]_lifeVars
  PROVE  SoleInv'
<1>1. CASE SendBinder
  <2>1. PICK b \in Binders :
          /\ out' = b /\ now' = now /\ phase = "send" /\ phase' = "wait"
          /\ at'[b] = "list" /\ ask'[b].binding = now.binding
          /\ \A c \in Binders \ {b} : at'[c] = at[c]
    BY <1>1, BinderSent
  <2> QED
    BY <2>1 DEF SoleInv, Working
<1>2. ASSUME NEW b \in Binders, HandleBinder(b), UNCHANGED scriptVars
      PROVE  SoleInv'
  <2>1. /\ Working(b) /\ UNCHANGED ask
        /\ \A c \in Binders \ {b} : at'[c] = at[c] /\ told'[c] = told[c]
        /\ at'[b] # "idle"
        /\ at'[b] = "done" /\ told'[b] = "created" => holder'[ask[b].binding] = b
    BY <1>2, BinderMoves
  <2>2. phase = "wait" /\ out = b
    BY <2>1 DEF SoleInv
  <2>3. ask[b].binding = now.binding
    BY <2>2 DEF SoleInv
  <2>4. phase' = "wait" /\ out' = b /\ now' = now
    BY <1>2, <2>2 DEF scriptVars
  <2>5. \A c \in Binders : Working(c)' => c = b
    BY <2>1, <2>2 DEF SoleInv, Working
  <2> QED
    BY <2>1, <2>3, <2>4, <2>5 DEF SoleInv
<1>3. CASE UNCHANGED <<binderLocals, holder, phase, out, now>>
  BY <1>3 DEF binderLocals, SoleInv, Working
<1>4. ASSUME phase # "wait" \/ ~(\E b \in Binders : Working(b)), UNCHANGED binderLocals,
             phase' # "wait" \/ out' \notin Binders
      PROVE  SoleInv'
  BY <1>4 DEF binderLocals, SoleInv, Working
<1>5. CASE ReadAnswer
  <2>1. ~(\E b \in Binders : Working(b))
    <3> SUFFICES ASSUME NEW b \in Binders, Working(b) PROVE FALSE
      OBVIOUS
    <3>1. out = b /\ out \notin Requests
      BY OutAssumption DEF SoleInv
    <3> QED
      BY <1>5, <3>1 DEF ReadAnswer, Answered, Working
  <2>2. phase' # "wait"
    BY <1>5 DEF ReadAnswer, Pass, Fail, Continue
  <2> QED
    BY <1>4, <1>5, <2>1, <2>2 DEF ReadAnswer, bindVars
<1>6. CASE SendRequest \/ SendPoll
  <2>1. out' \in Requests
    BY <1>6 DEF SendRequest, SendPoll, Unused
  <2> QED
    BY <1>4, <1>6, <2>1, OutAssumption DEF SendRequest, SendPoll
<1>7. CASE TakeStep \/ TimeOut \/ ReadPoll \/ Check
  BY <1>4, <1>7 DEF TakeStep, TimeOut, Loops, ReadPoll, Check, Pass, Fail, Continue, bindVars
<1>8. CASE FindBackup \/ StartBackup \/ AwaitBackup
  BY <1>4, <1>8 DEF FindBackup, StartBackup, AwaitBackup, Pass, Continue, bindVars
<1>9. CASE Elsewhere
  BY <1>3, <1>9 DEF Elsewhere, BackupDone, Write, Drop, history, scriptVars
<1>10. CASE Handling
  BY <1>2, <1>3, <1>10 DEF Handling, history, scriptVars
<1>11. CASE UNCHANGED lifeVars
  BY <1>3, <1>11 DEF lifeVars, bindVars, history, scriptVars
<1> QED
  BY <1>1, <1>5, <1>6, <1>7, <1>8, <1>9, <1>10, <1>11 DEF LifeNext, Test

\* Credentials are given back for an Unbind only.
LEMMA StillHeld ==
  ASSUME BindInv, LifeInv, [LifeNext]_lifeVars, NEW x \in BindingIds, holder[x] # Nil
  PROVE  holder'[x] # Nil \/ (SendBinder /\ now.do = "Unbind" /\ now.binding = x)
<1>1. CASE SendBinder
  BY <1>1, BinderSent
<1>2. ASSUME NEW b \in Binders, HandleBinder(b)
      PROVE  holder'[x] # Nil
  BY <1>2, BinderMoves, BindingAssumption
<1>3. CASE UNCHANGED holder
  BY <1>3
<1>4. CASE Test /\ ~SendBinder
  BY <1>3, <1>4 DEF Test, TakeStep, TimeOut, SendRequest, ReadAnswer, SendPoll, ReadPoll, Check,
                    FindBackup, StartBackup, AwaitBackup, bindVars, history
<1>5. CASE Elsewhere
  BY <1>3, <1>5 DEF Elsewhere, BackupDone, Write, Drop, history
<1>6. CASE Handling
  BY <1>2, <1>3, <1>6 DEF Handling, history
<1>7. CASE UNCHANGED lifeVars
  BY <1>3, <1>7 DEF lifeVars, bindVars, history
<1> QED
  BY <1>1, <1>4, <1>5, <1>6, <1>7 DEF LifeNext

LEMMA NextInUse ==
  ASSUME BindInv, LifeInv, SoleInv, InUseInv, [LifeNext]_lifeVars
  PROVE  InUseInv'
<1> SUFFICES ASSUME NEW s \in passed', s.do = "Bind", [s EXCEPT !.do = "Unbind"] \notin Begun'
             PROVE  holder'[s.binding] # Nil
  BY DEF InUseInv
<1>1. Begun \subseteq Begun'
  BY LifeCourse, BegunGrows
<1>2. CASE s \in passed
  <2>1. s \in Step
    BY <1>2 DEF LifeInv, LifeTypeOK
  <2>2. s.binding \in BindingIds /\ holder[s.binding] # Nil
    BY <1>1, <1>2, <2>1, StepShape DEF InUseInv
  <2>3. ASSUME SendBinder, now.do = "Unbind", now.binding = s.binding
        PROVE  FALSE
    <3>1. now \in Step /\ now \in Begun
      BY <2>3 DEF SendBinder, LifeInv, PhaseInv, Begun
    <3>2. now = [do |-> "Unbind", instance |-> InstanceOf[s.binding], source |-> Nil,
                 binding |-> s.binding]
      BY <2>3, <3>1, StepShape
    <3>3. [s EXCEPT !.do = "Unbind"] = now
      BY <2>1, <3>2, Unbinds
    <3> QED
      BY <1>1, <3>1, <3>3
  <2> QED
    BY <2>2, <2>3, StillHeld
<1>3. CASE s \notin passed
  <2>1. /\ s = now /\ UNCHANGED bindVars
        /\ phase = "wait" /\ out \in Binders /\ at[out] = "done" /\ told[out] = "created"
    <3>1. s \in passed' \ passed /\ s.do = "Bind"
      BY <1>3
    <3>2. /\ s = now /\ UNCHANGED <<bindVars, now>>
          /\ s.do = "Bind" =>
               phase = "wait" /\ out \in Binders /\ at[out] = "done" /\ told[out] = "created"
      BY <3>1, NewlyPassed, Zenon
    <3> QED
      BY <3>1, <3>2
  <2>2. holder[now.binding] = out
    BY <2>1 DEF SoleInv
  <2> QED
    BY <2>1, <2>2, BindingAssumption DEF bindVars, history
<1> QED
  BY <1>2, <1>3

\* While a test uses a binding its credentials work, if the platform asks one
\* thing at a time for a binding.
THEOREM BindingsUsable ==
  ASSUME Serial
  PROVE  LifeSpec => []BindingUsable
<1> DEFINE Inv == BaseInv /\ BindInv /\ UseInv /\ SoleInv /\ InUseInv
<1>1. LifeInit => Inv
  <2> SUFFICES ASSUME LifeInit PROVE Inv
    OBVIOUS
  <2>1. BaseInv /\ BindInv /\ UseInv
    BY InitBase, BindInitInv, UseInitInv DEF LifeInit
  <2>2. SoleInv /\ InUseInv
    BY DEF LifeInit, BindInit, SoleInv, Working, InUseInv
  <2> QED
    BY <2>1, <2>2
<1>2. Inv /\ [LifeNext]_lifeVars => Inv'
  BY NextBase, LifeStepBinds, BindNextInv, UseNextInv, NextSole, NextInUse DEF BaseInv
<1>3. Inv => BindingUsable
  <2> SUFFICES ASSUME Inv, NEW s \in passed, s.do = "Bind",
                      Undo(s)[1] \notin passed \cup failed \cup {now}
               PROVE  LET b == holder[s.binding]
                      IN  /\ b # Nil
                          /\ dbName[b] # Nil /\ Live(target[b]) =>
                               [db |-> dbName[b], binding |-> s.binding, password |-> b]
                                 \in accounts[target[b]]
    BY DEF BindingUsable
  <2>1. s \in Step
    BY DEF BaseInv, LifeInv, LifeTypeOK
  <2>2. s.binding \in BindingIds /\ Undo(s)[1] = [s EXCEPT !.do = "Unbind"]
    BY <2>1, StepShape DEF Undo
  <2>3. holder[s.binding] # Nil
    BY <2>2 DEF InUseInv, Begun
  <2> QED
    BY <2>2, <2>3 DEF UseInv, HolderInv
<1> QED
  BY <1>1, <1>2, <1>3, PTL DEF LifeSpec
=============================================================================
