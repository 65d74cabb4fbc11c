---------------------------- MODULE VerdictProofs ----------------------------
(***************************************************************************)
(* When LastOperation says that an operation succeeded, it has: for every  *)
(* value of the constants, as long as bodies decode.                       *)
(***************************************************************************)
EXTENDS RefinementProofs, SafetyProofs

---------------------------------------------------------------------------
(* What completed recipes have done.                                       *)

\* Compose does at most one thing at a request of r, to a deployment there is.
AtMostOneThing(r) ==
  \/ UNCHANGED composeVars
  \/ \E name, type, space, data, from : NewDeployment(r, name, type, space, data, from)
  \/ \E kind, ip : \E d \in DOMAIN deployments : NewRecipe(r, kind, d, ip)
  \/ \E space : \E d \in DOMAIN deployments : SetSpace(d, space)

LEMMA OneThing ==
  ASSUME NEW r \in Requests, Receive(r) \/ Handle(r) \/ Crash(r)
  PROVE  AtMostOneThing(r)
<1>1. CASE List(r) \/ Get(r) \/ GetBackups(r) \/ Poll(r)
  BY <1>1 DEF List, Get, GetBackups, Poll, Reads, AtMostOneThing
<1>2. CASE Create(r)
  BY <1>2 DEF Create, AtMostOneThing
<1>3. CASE Restore(r)
  BY <1>3 DEF Restore, AtMostOneThing
<1>4. CASE Patch(r)
  BY <1>4 DEF Patch, Exchange, Live, AtMostOneThing
<1>5. CASE AddWhitelist(r)
  BY <1>5 DEF AddWhitelist, Exchange, Live, AtMostOneThing
<1>6. CASE Cleanup(r)
  BY <1>6 DEF Cleanup, Exchange, Live, AtMostOneThing
<1>7. CASE Deprovision(r) \/ Update(r)
  BY <1>7 DEF Deprovision, Update, LastCall, Exchange, Live, AtMostOneThing
<1>8. CASE Receive(r) \/ Crash(r)
  BY <1>8 DEF Receive, Crash, AtMostOneThing
<1> QED
  BY <1>1, <1>2, <1>3, <1>4, <1>5, <1>6, <1>7, <1>8 DEF Handle

\* A new recipe is not complete, and nothing old is undone.
LEMMA EffectsStay ==
  ASSUME TypeInv, ReferInv, EffectInv, NEW r \in Requests, AtMostOneThing(r)
  PROVE  EffectInv'
<1>1. Fresh(r) \notin DOMAIN deployments \cup DOMAIN recipes
  BY FreshIsNew
<1>2. CASE UNCHANGED composeVars
  BY <1>2 DEF composeVars, EffectInv, Done
<1>3. ASSUME NEW name, NEW type, NEW space, NEW data, NEW from,
             NewDeployment(r, name, type, space, data, from)
      PROVE  EffectInv'
  <2>1. /\ DOMAIN recipes' = DOMAIN recipes \cup {Fresh(r)}
        /\ \A x \in DOMAIN recipes : recipes'[x] = recipes[x]
        /\ recipes'[Fresh(r)].status = "waiting"
        /\ \A d \in DOMAIN deployments : deployments'[d] = deployments[d]
    BY <1>1, <1>3 DEF NewDeployment, With, RecipeFor
  <2> QED
    BY <2>1 DEF EffectInv, Done, ReferInv
<1>4. ASSUME NEW kind, NEW ip, NEW d \in DOMAIN deployments, NewRecipe(r, kind, d, ip)
      PROVE  EffectInv'
  <2>1. /\ DOMAIN recipes' = DOMAIN recipes \cup {Fresh(r)}
        /\ \A x \in DOMAIN recipes : recipes'[x] = recipes[x]
        /\ recipes'[Fresh(r)].status = "waiting"
        /\ UNCHANGED deployments
    BY <1>1, <1>4 DEF NewRecipe, With, RecipeFor
  <2> QED
    BY <2>1 DEF EffectInv, Done
<1>5. ASSUME NEW space, NEW d \in DOMAIN deployments, SetSpace(d, space)
      PROVE  EffectInv'
  <2>1. /\ deployments' = [deployments EXCEPT ![d] = [deployments[d] EXCEPT !.space = space]]
        /\ UNCHANGED recipes
    BY <1>5 DEF SetSpace
  <2>2. deployments[d] \in Deployment
    BY DEF TypeInv, TypeOK, ComposeTypeOK
  <2>3. /\ [deployments[d] EXCEPT !.space = space].live = deployments[d].live
        /\ [deployments[d] EXCEPT !.space = space].admits = deployments[d].admits
    BY <2>2 DEF Deployment
  <2>4. \A e \in DOMAIN deployments : /\ deployments'[e].live = deployments[e].live
                                      /\ deployments'[e].admits = deployments[e].admits
    BY <2>1, <2>3
  <2> QED
    BY <2>1, <2>4 DEF EffectInv, Done, ReferInv
<1> QED
  BY <1>2, <1>3, <1>4, <1>5 DEF AtMostOneThing

\* A recipe takes effect in the step in which it completes.
LEMMA ComposeEffects ==
  ASSUME TypeInv, ReferInv, EffectInv, ComposeStep
  PROVE  EffectInv'
<1>1. ASSUME NEW x \in DOMAIN recipes, Progress(x)
      PROVE  EffectInv'
  <2>1. PICK status \in Statuses :
          /\ recipes' = [recipes EXCEPT ![x].status = status]
          /\ IF status = "complete"
               THEN /\ Live(recipes[x].on)
                    /\ deployments' = [deployments EXCEPT ![recipes[x].on] = Effect(recipes[x], @)]
               ELSE UNCHANGED deployments
    BY <1>1 DEF Progress
  <2> DEFINE on == recipes[x].on
  <2>2. recipes[x] \in Recipe /\ on \in DOMAIN deployments /\ deployments[on] \in Deployment
    BY DEF TypeInv, TypeOK, ComposeTypeOK, ReferInv
  <2>3. /\ [recipes[x] EXCEPT !.status = status].kind = recipes[x].kind
        /\ [recipes[x] EXCEPT !.status = status].on = recipes[x].on
        /\ [recipes[x] EXCEPT !.status = status].ip = recipes[x].ip
        /\ [recipes[x] EXCEPT !.status = status].status = status
    BY <2>2 DEF Recipe
  <2>4. recipes' = [recipes EXCEPT ![x] = [recipes[x] EXCEPT !.status = status]]
    BY <2>1
  <2>5. /\ DOMAIN recipes' = DOMAIN recipes
        /\ \A y \in DOMAIN recipes :
             /\ recipes'[y].kind = recipes[y].kind
             /\ recipes'[y].on = recipes[y].on
             /\ recipes'[y].ip = recipes[y].ip
             /\ y # x => recipes'[y].status = recipes[y].status
        /\ recipes'[x].status = status
    BY <2>3, <2>4
  <2> DEFINE old == deployments[on]
             new == Effect(recipes[x], deployments[on])
  <2>6. /\ new.live => old.live
        /\ old.admits \subseteq new.admits
        /\ recipes[x].kind = "whitelist" => recipes[x].ip \in new.admits
        /\ recipes[x].kind = "deprovision" => ~new.live
    <3>1. CASE recipes[x].kind = "whitelist"
      BY <2>2, <3>1 DEF Effect, Deployment
    <3>2. CASE recipes[x].kind = "deprovision"
      BY <2>2, <3>2 DEF Effect, Deployment
    <3>3. CASE recipes[x].kind \notin {"whitelist", "deprovision"}
      BY <3>3 DEF Effect
    <3> QED
      BY <3>1, <3>2, <3>3
  <2>7. CASE status = "complete"
    <3>1. deployments' = [deployments EXCEPT ![on] = new]
      BY <2>1, <2>7
    <3>2. deployments'[on] = new /\ \A d \in DOMAIN deployments \ {on} : deployments'[d] = deployments[d]
      BY <2>2, <3>1
    <3> HIDE DEF new
    <3>3. ASSUME NEW y \in DOMAIN recipes, y # x, Done(y)'
          PROVE  /\ recipes[y].kind = "whitelist" => recipes[y].ip \in deployments'[recipes[y].on].admits
                 /\ recipes[y].kind = "deprovision" => ~deployments'[recipes[y].on].live
      <4>1. Done(y) /\ recipes[y].on \in DOMAIN deployments
        BY <2>5, <3>3 DEF Done, ReferInv
      <4>2. CASE recipes[y].on = on
        BY <2>6, <3>2, <4>1, <4>2 DEF EffectInv
      <4>3. CASE recipes[y].on # on
        BY <3>2, <4>1, <4>3 DEF EffectInv
      <4> QED
        BY <4>2, <4>3
    <3> QED
      BY <2>5, <2>6, <3>2, <3>3 DEF EffectInv
  <2>8. CASE status # "complete"
    BY <2>1, <2>5, <2>8 DEF EffectInv, Done
  <2> QED
    BY <2>7, <2>8
<1>2. ASSUME NEW d \in DOMAIN deployments, TakeBackup(d)
      PROVE  EffectInv'
  BY <1>2 DEF TakeBackup, EffectInv, Done
<1> QED
  BY <1>1, <1>2 DEF ComposeStep

---------------------------------------------------------------------------
(* What the operation data of a Deprovision names.                         *)

\* The other requests keep what they found; r may look again while it looks
\* for a deployment.
LEMMA FoundKept ==
  ASSUME TypeInv, NEW r \in Requests, Receive(r) \/ Handle(r) \/ Crash(r)
  PROVE  /\ \A q \in Requests \ {r} : found'[q] = found[q]
         /\ pc[r] \notin {"list", "get"} => found'[r] = found[r]
<1>1. CASE List(r)
  BY <1>1 DEF List, TypeInv, TypeOK, LocalsTypeOK
<1>2. CASE Get(r)
  BY <1>2 DEF Get, TypeInv, TypeOK, LocalsTypeOK
<1>3. CASE Receive(r) \/ Crash(r)
  BY <1>3 DEF Receive, Crash
<1>4. CASE Create(r) \/ GetBackups(r) \/ Restore(r) \/ Patch(r) \/ AddWhitelist(r) \/ Cleanup(r)
  BY <1>4 DEF Create, GetBackups, Restore, Patch, AddWhitelist, Cleanup
<1>5. CASE Deprovision(r) \/ Update(r) \/ Poll(r)
  BY <1>5 DEF Deprovision, Update, LastCall, Poll
<1> QED
  BY <1>1, <1>2, <1>3, <1>4, <1>5 DEF Handle

\* Only the last call of a Deprovision notes anything in its operation data,
\* and that is the recipe it ordered.
LEMMA OrderNoted ==
  ASSUME TypeInv, SafeInv, NEW r \in Requests, Handle(r) \/ Crash(r),
         arg[r].op \in {"none", "Deprovision"}
  PROVE  \/ opdata'[r] = opdata[r]
         \/ /\ pc'[r] = "done" /\ found'[r] = found[r]
            /\ opdata'[r].recipe \in DOMAIN recipes'
            /\ recipes'[opdata'[r].recipe].kind = "deprovision"
            /\ recipes'[opdata'[r].recipe].on = found[r]
<1>1. arg[r].op # "Provision"
  OBVIOUS
<1>2. ~Create(r) /\ ~Restore(r) /\ ~AddWhitelist(r)
  BY <1>1 DEF Create, Restore, AddWhitelist, TypeInv, ArgsInv
<1>3. ~Update(r)
  BY DEF Update, SafeInv, CourseInv
<1>4. CASE List(r) \/ Get(r) \/ GetBackups(r) \/ Patch(r) \/ Cleanup(r) \/ Poll(r) \/ Crash(r)
  BY <1>4 DEF List, Get, GetBackups, Patch, Cleanup, Poll, Crash
<1>5. CASE Deprovision(r)
  <2>1. PICK answer \in AllFaults \cup {"ok", "error"}, done \in BOOLEAN :
         /\ answer = "ok" => done
         /\ IF done THEN NewRecipe(r, "deprovision", found[r], Nil) ELSE UNCHANGED composeVars
         /\ \/ /\ answer = "ok"
               /\ opdata' = [opdata EXCEPT ![r].recipe = Fresh(r)]
               /\ Reply(r, "accepted")
            \/ UNCHANGED opdata
    BY <1>5 DEF Deprovision, LastCall, Exchange
  <2>2. CASE UNCHANGED opdata
    BY <2>2
  <2>3. CASE /\ done /\ opdata' = [opdata EXCEPT ![r].recipe = Fresh(r)]
             /\ Reply(r, "accepted")
    <3>1. opdata'[r].recipe = Fresh(r) /\ pc'[r] = "done"
      <4>1. opdata[r] \in [recipe : Ids \cup {Nil}, whitelist : Seq(Ids)]
        BY DEF TypeInv, TypeOK, LocalsTypeOK
      <4>2. [opdata[r] EXCEPT !.recipe = Fresh(r)].recipe = Fresh(r)
        BY <4>1
      <4>3. opdata' = [opdata EXCEPT ![r] = [opdata[r] EXCEPT !.recipe = Fresh(r)]]
        BY <2>3
      <4> QED
        BY <2>3, <4>2, <4>3 DEF Reply, Goto, TypeInv, TypeOK, LocalsTypeOK
    <3>2. /\ Fresh(r) \in DOMAIN recipes'
          /\ recipes'[Fresh(r)].kind = "deprovision" /\ recipes'[Fresh(r)].on = found[r]
      BY <2>1, <2>3 DEF NewRecipe, With, RecipeFor
    <3>3. found'[r] = found[r]
      BY <1>5 DEF Deprovision, LastCall
    <3> QED
      BY <3>1, <3>2, <3>3
  <2> QED
    BY <2>1, <2>2, <2>3
<1> QED
  BY <1>2, <1>3, <1>4, <1>5 DEF Handle

\* Every step of a request keeps RetireInv.
LEMMA Retiring ==
  ASSUME TypeInv, KnownInv, SafeInv, RetireInv, NEW r \in Requests,
         StepOf(r), Receive(r) \/ Handle(r) \/ Crash(r)
  PROVE  RetireInv'
<1>1. \A x \in DOMAIN recipes : x \in DOMAIN recipes' /\ recipes'[x] = recipes[x]
  BY OlderRecipesStay DEF StepOf, KnownInv
<1>2. pc[r] # "done"
  BY DEF StepOf
<1> DEFINE Right(q) ==
      arg[q].op \in {"none", "Deprovision"} =>
        /\ pc[q] # "done" => opdata[q].recipe = Nil
        /\ arg[q].op = "Deprovision" /\ opdata[q].recipe # Nil =>
             /\ opdata[q].recipe \in DOMAIN recipes
             /\ recipes[opdata[q].recipe].kind = "deprovision"
             /\ recipes[opdata[q].recipe].on = found[q]
<1>3. \A q \in Requests : Right(q)
  BY DEF RetireInv
<1>4. ASSUME NEW q \in Requests \ {r} PROVE Right(q)'
  BY <1>1, <1>3, <1>4, FoundKept DEF StepOf
<1>5. CASE Receive(r)
  <2>1. pc[r] = "idle" /\ opdata'[r] = opdata[r]
    BY <1>5 DEF Receive
  <2>2. opdata'[r].recipe = Nil
    BY <1>3, <2>1 DEF SafeInv, CourseInv
  <2>3. Right(r)'
    BY <2>2
  <2> QED
    BY <1>4, <2>3 DEF RetireInv
<1>6. CASE Handle(r) \/ Crash(r)
  <2>1. arg'[r] = arg[r]
    BY <1>6 DEF Handle, List, Get, GetBackups, Create, Restore, Patch, AddWhitelist, Cleanup,
                Deprovision, Update, LastCall, Poll, Crash
  <2>2. CASE opdata'[r] = opdata[r]
    BY <1>2, <1>3, <1>4, <2>1, <2>2 DEF RetireInv
  <2>3. CASE opdata'[r] # opdata[r]
    BY <1>4, <1>6, <2>1, <2>3, OrderNoted DEF RetireInv
  <2> QED
    BY <2>2, <2>3
<1> QED
  BY <1>5, <1>6

---------------------------------------------------------------------------
(* What a success means.                                                   *)

\* The recipes of an operation that succeeded stay complete.
LEMMA SuccessStays ==
  ASSUME TypeInv, KnownInv, SuccessInv, NEW p \in Requests, reply[p] = "op succeeded",
         reply'[p] = reply[p], arg'[p] = arg[p],
         \A q \in Requests : reply[q] = "accepted" =>
           reply'[q] = "accepted" /\ opdata'[q] = opdata[q],
         \A x \in DOMAIN recipes : x \in DOMAIN recipes' /\ (Done(x) => Done(x)')
  PROVE  /\ arg'[p].of \in Requests
         /\ reply'[arg'[p].of] = "accepted"
         /\ \A i \in DOMAIN RecipesOf(opdata[arg[p].of])' : Done(RecipesOf(opdata[arg[p].of])[i])'
<1>1. PICK q \in Requests : q = arg[p].of
  BY DEF SuccessInv
<1>2. reply[q] = "accepted"
  BY <1>1 DEF SuccessInv
<1>3. PICK list : list = RecipesOf(opdata[q])
  OBVIOUS
<1>4. \A i \in DOMAIN list : list[i] \in DOMAIN recipes /\ Done(list[i])
  BY <1>1, <1>2, <1>3, ListKnown DEF SuccessInv
<1>5. \A i \in DOMAIN list : Done(list[i])'
  BY <1>4
<1>6. RecipesOf(opdata[q])' = list
  BY <1>2, <1>3 DEF RecipesOf
<1> QED
  BY <1>1, <1>2, <1>5, <1>6

\* A step of r keeps what was complete complete, and what was answered
\* answered.
LEMMA OldStays ==
  ASSUME TypeInv, KnownInv, NEW r \in Requests, StepOf(r)
  PROVE  /\ \A q \in Requests : reply[q] = "accepted" =>
              reply'[q] = "accepted" /\ opdata'[q] = opdata[q]
         /\ \A x \in DOMAIN recipes : x \in DOMAIN recipes' /\ (Done(x) => Done(x)')
<1>1. reply[r] # "accepted"
  BY DEF KnownInv, OpDataInv, StepOf
<1>2. \A x \in DOMAIN recipes : x \in DOMAIN recipes' /\ recipes'[x] = recipes[x]
  BY OlderRecipesStay DEF StepOf, KnownInv
<1> QED
  BY <1>1, <1>2 DEF StepOf, Done

\* A poll calls an operation a success only when all its recipes are complete.
LEMMA PollSucceeds ==
  ASSUME TypeInv, KnownInv, PollInv, SuccessInv, Decodes, NEW r \in Requests, Poll(r)
  PROVE  SuccessInv'
<1>1. /\ StepOf(r) /\ UNCHANGED <<recipes, opdata, arg>>
      /\ arg[r].of \in Requests /\ reply[arg[r].of] = "accepted"
      /\ reply'[r] \in {reply[r], "failed", "dropped", OutcomeOf(opdata[arg[r].of])}
  BY PollSteps
<1>2. /\ \A q \in Requests : reply[q] = "accepted" =>
           reply'[q] = "accepted" /\ opdata'[q] = opdata[q]
      /\ \A x \in DOMAIN recipes : x \in DOMAIN recipes' /\ (Done(x) => Done(x)')
  BY <1>1, OldStays
<1>3. reply[r] = "none"
  BY DEF Poll, KnownInv, OpDataInv
<1>4. ASSUME NEW p \in Requests, reply'[p] = "op succeeded"
      PROVE  /\ arg'[p].of \in Requests
             /\ reply'[arg'[p].of] = "accepted"
             /\ \A i \in DOMAIN RecipesOf(opdata[arg[p].of])' : Done(RecipesOf(opdata[arg[p].of])[i])'
  <2>1. CASE p = r
    <3>1. OutcomeOf(opdata[arg[r].of]) = "op succeeded"
      BY <1>1, <1>3, <1>4, <2>1
    <3>2. \A i \in DOMAIN RecipesOf(opdata[arg[r].of]) : Done(RecipesOf(opdata[arg[r].of])[i])
      BY <3>1 DEF OutcomeOf
    <3>3. RecipesOf(opdata[arg[r].of])' = RecipesOf(opdata[arg[r].of])
      BY <1>1 DEF RecipesOf
    <3> QED
      BY <1>1, <1>2, <2>1, <3>2, <3>3 DEF Done
  <2>2. CASE p # r
    <3>1. reply'[p] = reply[p] /\ arg'[p] = arg[p]
      BY <1>1, <2>2 DEF StepOf
    <3> QED
      BY <1>2, <1>4, <3>1, SuccessStays
  <2> QED
    BY <2>1, <2>2
<1> QED
  BY <1>4 DEF SuccessInv

\* The other steps of a request call nothing a success.
LEMMA SilentSucceeds ==
  ASSUME TypeInv, KnownInv, SuccessInv, NEW r \in Requests, Silent(r)
  PROVE  SuccessInv'
<1>1. StepOf(r) /\ reply'[r] \in {reply[r]} \cup Ends \cup {"refused"}
  BY DEF Silent
<1>2. /\ \A q \in Requests : reply[q] = "accepted" =>
           reply'[q] = "accepted" /\ opdata'[q] = opdata[q]
      /\ \A x \in DOMAIN recipes : x \in DOMAIN recipes' /\ (Done(x) => Done(x)')
  BY <1>1, OldStays
<1>3. reply[r] # "op succeeded"
  BY <1>1 DEF KnownInv, OpDataInv, StepOf, Verdicts
<1>4. ASSUME NEW p \in Requests, reply'[p] = "op succeeded"
      PROVE  /\ arg'[p].of \in Requests
             /\ reply'[arg'[p].of] = "accepted"
             /\ \A i \in DOMAIN RecipesOf(opdata[arg[p].of])' : Done(RecipesOf(opdata[arg[p].of])[i])'
  <2>1. p # r
    BY <1>1, <1>3, <1>4 DEF Ends
  <2>2. reply'[p] = reply[p] /\ arg'[p] = arg[p]
    BY <1>1, <2>1 DEF StepOf
  <2> QED
    BY <1>2, <1>4, <2>2, SuccessStays
<1> QED
  BY <1>4 DEF SuccessInv

---------------------------------------------------------------------------

\* All that is needed of the state.
MeantInv == KnownInv /\ PollInv /\ EffectInv /\ RetireInv /\ SuccessInv

LEMMA InitMeant == Init => MeantInv
<1> SUFFICES ASSUME Init PROVE MeantInv
  OBVIOUS
<1>1. KnownInv /\ PollInv
  BY InitSimulates
<1>2. EffectInv /\ RetireInv /\ SuccessInv
  BY DEF Init, ComposeInit, EffectInv, RetireInv, SuccessInv, NoOpData, NoArg
<1> QED
  BY <1>1, <1>2 DEF MeantInv

LEMMA NextMeant ==
  ASSUME Decodes, BrokerInv, SafeInv, MeantInv, [Next]_vars
  PROVE  MeantInv'
<1>1. TypeInv /\ ReferInv /\ KnownInv /\ PollInv /\ EffectInv /\ RetireInv /\ SuccessInv
  BY DEF BrokerInv, SafeInv, MeantInv
<1>2. ASSUME NEW r \in Requests, Receive(r) \/ Handle(r) \/ Crash(r)
      PROVE  MeantInv'
  <2>1. EffectInv'
    BY <1>1, <1>2, OneThing, EffectsStay
  <2>2. CASE Poll(r)
    <3>1. StepOf(r) /\ KnownInv' /\ PollInv' /\ SuccessInv'
      BY <1>1, <2>2, PollSteps, PollSucceeds
    <3>2. RetireInv'
      BY <1>1, <1>2, <3>1, Retiring
    <3> QED
      BY <2>1, <3>1, <3>2 DEF MeantInv
  <2>3. CASE ~Poll(r)
    <3>1. Silent(r) /\ KnownInv' /\ PollInv'
      BY <1>1, <1>2, <2>3, ReceiveSteps, HandleSteps, CrashSteps
    <3>2. RetireInv'
      BY <1>1, <1>2, <3>1, Retiring DEF Silent
    <3> QED
      BY <1>1, <2>1, <3>1, <3>2, SilentSucceeds DEF MeantInv
  <2> QED
    BY <2>2, <2>3
<1>3. CASE ComposeStep /\ UNCHANGED locals
  <2>1. Goes /\ UNCHANGED made
    BY <1>1, <1>3, ComposeGoes
  <2>2. KnownInv' /\ PollInv'
    BY <1>1, <1>3, <2>1, ComposeKeeps
  <2>3. EffectInv'
    BY <1>1, <1>3, ComposeEffects
  <2>4. RetireInv'
    <3>1. \A x \in DOMAIN recipes : /\ x \in DOMAIN recipes'
                                    /\ recipes'[x].kind = recipes[x].kind
                                    /\ recipes'[x].on = recipes[x].on
      BY <1>1, <1>3, ComposeStepGrows DEF Grows
    <3> QED
      BY <1>1, <1>3, <3>1 DEF RetireInv, locals
  <2>5. SuccessInv'
    <3>1. \A x \in DOMAIN recipes : x \in DOMAIN recipes' /\ (Done(x) => Done(x)')
      BY <2>1 DEF Goes, Done, Finished
    <3> QED
      BY <1>1, <1>3, <3>1, SuccessStays DEF SuccessInv, locals
  <2> QED
    BY <2>2, <2>3, <2>4, <2>5 DEF MeantInv
<1>4. CASE UNCHANGED vars
  <2>1. KnownInv' /\ PollInv'
    BY <1>1, <1>4 DEF vars, composeVars, locals, KnownInv, CountInv, OpDataInv, PollInv, ReadSoFar,
                      Done, RecipesOf
  <2>2. EffectInv' /\ RetireInv' /\ SuccessInv'
    BY <1>1, <1>4 DEF vars, composeVars, locals, EffectInv, RetireInv, SuccessInv, Done, RecipesOf
  <2> QED
    BY <2>1, <2>2 DEF MeantInv
<1> QED
  BY <1>2, <1>3, <1>4 DEF Next, Quiet

\* What holds of a sequence with a head put on holds of the head and the rest.
LEMMA HeadAndTail ==
  ASSUME NEW x \in Ids, NEW ids \in Seq(Ids),
         \A i \in DOMAIN (<<x>> \o ids) : Done((<<x>> \o ids)[i])
  PROVE  Done(x) /\ \A i \in DOMAIN ids : Done(ids[i])
<1> DEFINE all == <<x>> \o ids
<1>1. /\ Len(ids) \in Nat /\ DOMAIN ids = 1 .. Len(ids)
      /\ DOMAIN all = 1 .. 1 + Len(ids)
  OBVIOUS
<1>2. all[1] = x
  OBVIOUS
<1>3. \A i \in DOMAIN ids : all[i + 1] = ids[i]
  OBVIOUS
<1>4. 1 \in DOMAIN all /\ \A i \in DOMAIN ids : i + 1 \in DOMAIN all
  BY <1>1
<1> QED
  BY <1>2, <1>3, <1>4

\* A sequence of as many identifiers as there are configured addresses has
\* their indices.
LEMMA SameDomain ==
  ASSUME NEW ids \in Seq(Ids), Len(ids) = Len(IPWhitelist)
  PROVE  DOMAIN ids = DOMAIN IPWhitelist
  BY WhitelistAssumption

\* When LastOperation, reading recipes one at a time, says that an operation
\* succeeded, it has: a provisioned deployment is complete and admits every
\* configured address, a deprovisioned one is gone.  Compose may also report
\* statuses the broker does not know.
THEOREM SuccessIsDone ==
  ASSUME Decodes
  PROVE  Spec => []SucceededMeansDone
<1>1. Init => MeantInv
  BY InitMeant
<1>2. (BrokerInv /\ SafeInv) /\ MeantInv /\ [Next]_vars => MeantInv'
  BY NextMeant
<1>3. BrokerInv /\ SafeInv /\ MeantInv => SucceededMeansDone
  <2> SUFFICES ASSUME BrokerInv, SafeInv, MeantInv,
                      NEW q \in Requests, NEW p \in PollsOf(q), reply[p] = "op succeeded"
               PROVE  /\ recipes[opdata[q].recipe].status = "complete"
                      /\ arg[q].op = "Provision" =>
                           \A i \in DOMAIN IPWhitelist :
                             IPWhitelist[i] \in deployments[opdata[q].recipe].admits
                      /\ arg[q].op = "Deprovision" => ~Live(found[q])
    BY DEF SucceededMeansDone
  <2>1. p \in Requests /\ arg[p].of = q
    BY DEF PollsOf
  <2>2. /\ TypeInv /\ KnownInv
        /\ reply[q] = "accepted"
        /\ \A i \in DOMAIN RecipesOf(opdata[q]) : Done(RecipesOf(opdata[q])[i])
    BY <2>1 DEF BrokerInv, MeantInv, SuccessInv
  <2>3. PICK x \in Ids, ids \in Seq(Ids) :
          /\ x = opdata[q].recipe
          /\ ids = opdata[q].whitelist
          /\ x \in DOMAIN recipes
    <3>1. opdata[q].recipe \in DOMAIN recipes /\ DOMAIN recipes \subseteq Ids
      BY <2>2 DEF KnownInv, OpDataInv, TypeInv, TypeOK, ComposeTypeOK
    <3>2. opdata[q].whitelist \in Seq(Ids)
      BY <2>2 DEF TypeInv, TypeOK, LocalsTypeOK
    <3> QED
      BY <3>1, <3>2
  <2>4. RecipesOf(opdata[q]) = <<x>> \o ids
    BY <2>3 DEF RecipesOf
  <2>5. Done(x) /\ \A i \in DOMAIN ids : Done(ids[i])
    BY <2>2, <2>3, <2>4, HeadAndTail
  <2>6. CASE arg[q].op = "Provision"
    <3>1. /\ Len(ids) = Len(IPWhitelist)
          /\ \A i \in DOMAIN ids : Whitelists(ids[i], i, x)
      BY <2>2, <2>3, <2>6 DEF SafeInv, CoverInv
    <3>2. DOMAIN ids = DOMAIN IPWhitelist
      BY <2>3, <3>1, SameDomain
    <3>3. \A i \in DOMAIN IPWhitelist : IPWhitelist[i] \in deployments[x].admits
      BY <2>5, <3>1, <3>2 DEF MeantInv, EffectInv, Whitelists
    <3> QED
      BY <2>3, <2>5, <2>6, <3>3 DEF Done
  <2>7. CASE arg[q].op = "Deprovision"
    <3>1. x # Nil
      BY <2>3, NilAssumption
    <3>2. recipes[x].kind = "deprovision" /\ recipes[x].on = found[q]
      BY <2>3, <2>7, <3>1 DEF MeantInv, RetireInv
    <3>3. ~Live(found[q])
      BY <2>3, <2>5, <3>2 DEF MeantInv, EffectInv, Live
    <3> QED
      BY <2>3, <2>5, <2>7, <3>3 DEF Done
  <2>8. CASE arg[q].op \notin {"Provision", "Deprovision"}
    BY <2>3, <2>5, <2>8 DEF Done
  <2> QED
    BY <2>6, <2>7, <2>8
<1> QED
  BY <1>1, <1>2, <1>3, SafeInvariant, PTL DEF Spec

---------------------------------------------------------------------------
(* "Instance does not exist".                                              *)

\* Deployments stay what they are, and those that are gone stay gone.
Keeps ==
  /\ DOMAIN deployments \subseteq DOMAIN deployments'
  /\ \A d \in DOMAIN deployments : /\ deployments'[d].name = deployments[d].name
                                   /\ deployments'[d].type = deployments[d].type
                                   /\ deployments'[d].live => deployments[d].live

\* What one call has Compose do to the deployments there are.
LEMMA ThingKeeps ==
  ASSUME TypeInv, ReferInv, NEW r \in Requests, AtMostOneThing(r)
  PROVE  Keeps
<1>1. CASE UNCHANGED composeVars \/ \E kind, ip : \E d \in DOMAIN deployments : NewRecipe(r, kind, d, ip)
  BY <1>1 DEF composeVars, NewRecipe, Keeps
<1>2. ASSUME NEW name, NEW type, NEW space, NEW data, NEW from,
             NewDeployment(r, name, type, space, data, from)
      PROVE  Keeps
  <2>1. Fresh(r) \notin DOMAIN deployments
    BY FreshIsNew
  <2> QED
    BY <1>2, <2>1 DEF NewDeployment, With, Keeps
<1>3. ASSUME NEW space, NEW d \in DOMAIN deployments, SetSpace(d, space)
      PROVE  Keeps
  <2>1. deployments' = [deployments EXCEPT ![d] = [deployments[d] EXCEPT !.space = space]]
    BY <1>3 DEF SetSpace
  <2>2. deployments[d] \in Deployment
    BY DEF TypeInv, TypeOK, ComposeTypeOK
  <2>3. /\ [deployments[d] EXCEPT !.space = space].live = deployments[d].live
        /\ [deployments[d] EXCEPT !.space = space].name = deployments[d].name
        /\ [deployments[d] EXCEPT !.space = space].type = deployments[d].type
    BY <2>2 DEF Deployment
  <2> QED
    BY <2>1, <2>3 DEF Keeps
<1> QED
  BY <1>1, <1>2, <1>3 DEF AtMostOneThing

LEMMA ComposeStepKeeps ==
  ASSUME TypeInv, ReferInv, ComposeStep
  PROVE  Keeps
<1>1. ASSUME NEW x \in DOMAIN recipes, Progress(x)
      PROVE  Keeps
  <2> DEFINE on == recipes[x].on
             new == Effect(recipes[x], deployments[on])
  <2>1. UNCHANGED deployments \/ deployments' = [deployments EXCEPT ![on] = new]
    BY <1>1 DEF Progress
  <2>2. deployments[on] \in Deployment
    BY DEF TypeInv, TypeOK, ComposeTypeOK, ReferInv
  <2>3. /\ new.name = deployments[on].name /\ new.type = deployments[on].type
        /\ new.live => deployments[on].live
    <3>1. CASE recipes[x].kind = "whitelist"
      BY <2>2, <3>1 DEF Effect, Deployment
    <3>2. CASE recipes[x].kind = "deprovision"
      BY <2>2, <3>2 DEF Effect, Deployment
    <3>3. CASE recipes[x].kind \notin {"whitelist", "deprovision"}
      BY <3>3 DEF Effect
    <3> QED
      BY <3>1, <3>2, <3>3
  <2> HIDE DEF new
  <2> QED
    BY <2>1, <2>3 DEF Keeps
<1>2. ASSUME NEW d \in DOMAIN deployments, TakeBackup(d)
      PROVE  Keeps
  BY <1>2 DEF TakeBackup, Keeps
<1> QED
  BY <1>1, <1>2 DEF ComposeStep

LEMMA NextKeeps ==
  ASSUME TypeInv, ReferInv, [Next]_vars
  PROVE  Keeps
<1>1. ASSUME NEW r \in Requests, Receive(r) \/ Handle(r) \/ Crash(r)
      PROVE  Keeps
  BY <1>1, OneThing, ThingKeeps
<1>2. CASE UNCHANGED vars
  BY <1>2 DEF vars, composeVars, Keeps
<1> QED
  BY <1>1, <1>2, ComposeStepKeeps DEF Next, Quiet

\* A name that two deployments bear stays so.
LEMMA SingleBefore ==
  ASSUME Keeps, NEW i, Single(i)'
  PROVE  Single(i)
BY DEF Keeps, Single

\* A request is told that its instance does not exist only by a look-up that
\* found none.
LEMMA GoneBecause ==
  ASSUME Decodes, TypeInv, SafeInv, GoneInv, NEW r \in Requests,
         Receive(r) \/ Handle(r) \/ Crash(r), reply'[r] = "gone", reply[r] # "gone"
  PROVE  /\ arg'[r] = arg[r] /\ UNCHANGED deployments
         /\ \/ Named(arg[r].instance) = {}
            \/ \E d \in DOMAIN deployments : deployments[d].name = arg[r].instance /\ ~Live(d)
<1>1. reply[r] # "gone" /\ reply \in [Requests -> Replies]
  BY DEF TypeInv, TypeOK, LocalsTypeOK
<1>2. \A answer : answer # "gone" /\ Reply(r, answer) => FALSE
  BY <1>1 DEF Reply
<1>3. \A answer : ~GiveUp(r, answer)
  <2>1. \A answer : Failure(answer) # "gone"
    BY DEF Failure
  <2> QED
    BY <1>2, <2>1, <1>1 DEF GiveUp
<1>4. ~UNCHANGED reply
  BY <1>1
<1>5. NotFound(r) => Sought(r) = arg[r].instance
  BY <1>2 DEF NotFound, Sought
<1>6. CASE List(r)
  <2>1. UNCHANGED <<arg, composeVars>> /\ NotFound(r) /\ Named(Sought(r)) = {}
    BY <1>3, <1>4, <1>6 DEF List, Reads, Answers, Decodes
  <2> QED
    BY <1>5, <2>1 DEF composeVars
<1>7. CASE Get(r)
  <2>1. pc[r] = "get" /\ UNCHANGED <<arg, composeVars>>
    BY <1>7 DEF Get, Reads
  <2>2. found[r] \in DOMAIN deployments /\ deployments[found[r]].name = Sought(r)
    BY <2>1 DEF GoneInv, SafeInv, FoundInv
  <2>3. ~Got(r, found[r])
    BY <1>2, <1>4 DEF Got
  <2>4. NotFound(r) /\ ~Live(found[r])
    BY <1>3, <1>7, <2>3 DEF Get, Reads, Answers, Decodes
  <2> QED
    BY <1>5, <2>1, <2>2, <2>4 DEF composeVars
<1>8. CASE Receive(r)
  BY <1>2, <1>4, <1>8 DEF Receive, ReceiveProvision, ReceiveDeprovision, ReceiveUpdate,
       ReceiveLastOperation, Refuse, Begin
<1>9. CASE Crash(r)
  BY <1>2, <1>9 DEF Crash
<1>10. \A ids : ~Whitelist(r, ids)
  BY <1>2, <1>4 DEF Whitelist
<1>11. CASE Create(r) \/ Restore(r) \/ Patch(r)
  BY <1>3, <1>4, <1>10, <1>11 DEF Create, Restore, Patch
<1>12. CASE GetBackups(r) \/ Cleanup(r)
  BY <1>2, <1>3, <1>4, <1>12 DEF GetBackups, Cleanup
<1>13. CASE AddWhitelist(r)
  <2>1. \A answer : ~RunDeferred(r, answer)
    BY <1>1 DEF RunDeferred, Failure
  <2> QED
    BY <1>3, <1>10, <1>13, <2>1 DEF AddWhitelist
<1>14. CASE Deprovision(r) \/ Update(r)
  BY <1>2, <1>3, <1>14 DEF Deprovision, Update, LastCall
<1>15. CASE Poll(r)
  <2>1. \A status : State(status) # "gone"
    BY StateFacts DEF Verdicts
  <2> QED
    BY <1>2, <1>3, <1>4, <1>15, <2>1 DEF Poll
<1> QED
  BY <1>6, <1>7, <1>8, <1>9, <1>11, <1>12, <1>13, <1>14, <1>15 DEF Handle

\* A request that is about to look a deployment up has found it by then.
LEMMA LooksUpWhatItFound ==
  ASSUME TypeInv, GoneInv, NEW r \in Requests, Receive(r) \/ Handle(r) \/ Crash(r),
         pc'[r] = "get"
  PROVE  found'[r] # Nil
<1>1. \A label : Goto(r, label) => label = "get"
  BY DEF Goto, TypeInv, TypeOK, LocalsTypeOK
<1>2. \A answer : ~Reply(r, answer)
  BY <1>1 DEF Reply
<1>3. \A answer : GiveUp(r, answer) => pc'[r] = pc[r]
  BY <1>2 DEF GiveUp
<1>4. \A ids : ~Whitelist(r, ids)
  BY <1>1, <1>2 DEF Whitelist
<1>5. CASE List(r)
  <2>1. PICK d \in Named(Sought(r)) : found' = [found EXCEPT ![r] = d]
    BY <1>2, <1>3, <1>5 DEF List, NotFound, Reads
  <2>2. d # Nil
    BY NilAssumption DEF Named, TypeInv, TypeOK, ComposeTypeOK
  <2> QED
    BY <2>1, <2>2 DEF TypeInv, TypeOK, LocalsTypeOK
<1>6. CASE Get(r)
  <2>1. \A d : ~Got(r, d)
    BY <1>1, <1>2 DEF Got
  <2>2. UNCHANGED found /\ pc[r] = "get"
    BY <1>6, <2>1 DEF Get
  <2> QED
    BY <2>2 DEF GoneInv
<1>7. CASE Receive(r) \/ Crash(r)
  <2>1. \A a, label : Begin(r, a, label) => label = "get"
    BY <1>1 DEF Begin
  <2> QED
    BY <1>2, <1>7, <2>1 DEF Receive, ReceiveProvision, ReceiveDeprovision, ReceiveUpdate,
         ReceiveLastOperation, Refuse, Crash
<1>8. CASE Create(r) \/ GetBackups(r) \/ Restore(r)
  BY <1>1, <1>2, <1>3, <1>4, <1>8 DEF Create, GetBackups, Restore
<1>9. CASE Patch(r) \/ AddWhitelist(r) \/ Cleanup(r)
  BY <1>1, <1>2, <1>3, <1>4, <1>9 DEF Patch, AddWhitelist, RunDeferred, Cleanup
<1>10. CASE Deprovision(r) \/ Update(r) \/ Poll(r)
  BY <1>2, <1>3, <1>10 DEF Deprovision, Update, LastCall, Poll
<1> QED
  BY <1>5, <1>6, <1>7, <1>8, <1>9, <1>10 DEF Handle

\* What a request finds is looked up, and who is told that an instance does
\* not exist, has been told the truth.
LEMMA NextGone ==
  ASSUME Decodes, BrokerInv, SafeInv, MeantInv, GoneInv, [Next]_vars
  PROVE  GoneInv'
<1>1. TypeInv /\ Keeps
  BY NextKeeps DEF SafeInv, BrokerInv
<1>2. \A d \in DOMAIN Existing :
        d \in DOMAIN deployments' /\ deployments'[d].name = Existing[d].name
  BY <1>1 DEF GoneInv, Keeps
<1>3. \A d : d \in DOMAIN deployments => (Live(d)' => Live(d))
  BY <1>1 DEF Keeps, Live
<1>4. ASSUME NEW q \in Requests, reply[q] = "gone", arg'[q] = arg[q], Single(arg[q].instance)',
             NEW d \in DOMAIN Existing, Existing[d].name = arg[q].instance
      PROVE  ~Live(d)'
  <2>1. Single(arg[q].instance)
    BY <1>1, <1>4, SingleBefore
  <2>2. ~Live(d)
    BY <1>4, <2>1 DEF GoneInv, GoneMeansGone
  <2> QED
    BY <1>3, <2>2 DEF GoneInv
<1>5. ASSUME NEW r \in Requests, Receive(r) \/ Handle(r) \/ Crash(r)
      PROVE  GoneInv'
  <2>1. StepOf(r)
    BY <1>1, <1>5, PollSteps, ReceiveSteps, HandleSteps, CrashSteps DEF Silent, MeantInv
  <2>2. \A q \in Requests \ {r} : UNCHANGED <<pc[q], reply[q], arg[q], found[q]>>
    BY <1>1, <1>5, <2>1, FoundKept DEF StepOf
  <2>3. ASSUME reply'[r] = "gone", reply[r] # "gone", Single(arg[r].instance)',
               NEW d \in DOMAIN Existing, Existing[d].name = arg'[r].instance
        PROVE  ~Live(d)'
    <3>1. /\ arg'[r] = arg[r] /\ UNCHANGED deployments
          /\ \/ Named(arg[r].instance) = {}
             \/ \E e \in DOMAIN deployments : deployments[e].name = arg[r].instance /\ ~Live(e)
      BY <1>1, <1>5, <2>3, GoneBecause
    <3>2. d \in DOMAIN deployments /\ deployments[d].name = arg[r].instance
      BY <2>3, <3>1 DEF GoneInv
    <3>3. Single(arg[r].instance)
      BY <2>3, <3>1 DEF Single
    <3>4. ~Live(d)
      BY <3>1, <3>2, <3>3 DEF Single, Named
    <3> QED
      BY <3>1, <3>4 DEF Live
  <2>4. reply[r] = "gone" => FALSE
    BY <2>1 DEF StepOf, SafeInv, CourseInv
  <2>5. \A q \in Requests : pc'[q] = "get" => found'[q] # Nil
    BY <1>1, <1>5, <2>2, LooksUpWhatItFound DEF GoneInv
  <2>6. GoneMeansGone'
    BY <1>4, <2>2, <2>3, <2>4 DEF GoneMeansGone
  <2> QED
    BY <1>2, <2>5, <2>6 DEF GoneInv
<1>6. CASE UNCHANGED locals
  <2>1. GoneMeansGone'
    BY <1>4, <1>6 DEF GoneMeansGone, locals
  <2> QED
    BY <1>2, <1>6, <2>1 DEF GoneInv, locals
<1> QED
  BY <1>5, <1>6 DEF Next, Quiet, vars

\* Whoever is told that an instance does not exist has been told the truth,
\* through crashes, repetitions and broken connections, as long as bodies
\* decode and no second deployment bears the name.  What has to be carried
\* along is what the request found: a deployment that vanishes between the
\* list and its GET was the only one.
THEOREM GoneIsGone ==
  ASSUME Decodes
  PROVE  Spec => []GoneMeansGone
<1>1. Init => MeantInv /\ GoneInv
  <2>1. Init => GoneInv
    BY DEF Init, ComposeInit, GoneInv, GoneMeansGone
  <2> QED
    BY <2>1, InitMeant
<1>2. (BrokerInv /\ SafeInv) /\ (MeantInv /\ GoneInv) /\ [Next]_vars => (MeantInv /\ GoneInv)'
  BY NextMeant, NextGone
<1>3. GoneInv => GoneMeansGone
  BY DEF GoneInv
<1> QED
  BY <1>1, <1>2, <1>3, SafeInvariant, PTL DEF Spec
=============================================================================
