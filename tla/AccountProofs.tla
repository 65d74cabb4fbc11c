---------------------------- MODULE AccountProofs ----------------------------
(***************************************************************************)
(* What becomes of users: those of a binding that the platform forgets are *)
(* gone, and requests that nothing hits succeed.  For every set of         *)
(* binders, bindings and databases, next to any asynchronous operations.   *)
(***************************************************************************)
EXTENDS BindingsProofs, VerdictProofs

---------------------------------------------------------------------------
(* What a step of a binder leaves alone.                                   *)

\* A step of b changes no other binder, and of the users only that of its own
\* binding: it may be lost, and a new one comes in where b makes it.
OnlyOwn(b) ==
  /\ Working(b)
  /\ UNCHANGED <<deployments, ask>>
  /\ \A c \in Binders \ {b} :
       UNCHANGED <<at[c], target[c], dbName[c], told[c], spoiled[c]>>
  /\ \A d \in DOMAIN deployments : \A a \in accounts[d] :
       a \in accounts'[d] \/ a.binding = ask[b].binding
  /\ \A d \in DOMAIN deployments : \A a \in accounts'[d] :
       \/ a \in accounts[d]
       \/ d = target[b] /\ at[b] \in {"update", "create"} /\ a = NewAccount(b)

\* Answers and stages of the others stay, whichever way b goes.
LEMMA OthersStay ==
  ASSUME BindInv, NEW b \in Binders,
         (\E stage : Proceed(b, stage)) \/ (\E answer : Tell(b, answer)),
         (\E wrong : Spoil(b, wrong)) \/ UNCHANGED spoiled
  PROVE  \A c \in Binders \ {b} : UNCHANGED <<at[c], told[c], spoiled[c]>>
<1>1. \A c \in Binders \ {b} : UNCHANGED <<at[c], told[c]>>
  BY DEF Proceed, Tell, BindInv, BindTypeOK
<1>2. \A c \in Binders \ {b} : UNCHANGED spoiled[c]
  BY DEF Spoil, BindInv, BindTypeOK
<1> QED
  BY <1>1, <1>2

\* The commands to the database.
LEMMA CommandOwn ==
  ASSUME BindInv, AimInv, NEW b \in Binders, UpdateUser(b) \/ CreateUser(b) \/ RemoveUser(b)
  PROVE  OnlyOwn(b)
<1>1. /\ at[b] \in {"update", "create", "remove"} /\ target[b] \in DOMAIN deployments
      /\ UNCHANGED <<deployments, ask, target, dbName>>
  BY CommandShape DEF BindInv, WorkInv
<1>2. \A c \in Binders \ {b} : UNCHANGED <<at[c], told[c], spoiled[c]>>
  BY CommandShape, OthersStay
<1>3. UNCHANGED accounts \/ \E mine \in {{}, {NewAccount(b)}} : SetAccounts(b, mine)
  BY CommandShape
<1>4. SetAccounts(b, {NewAccount(b)}) /\ at[b] = "remove" => UNCHANGED accounts \/ SetAccounts(b, {})
  BY DEF UpdateUser, CreateUser, RemoveUser, Remove, Command
<1>5. \A d \in DOMAIN deployments : \A a \in accounts[d] :
        a \in accounts'[d] \/ a.binding = ask[b].binding
  BY <1>1, <1>3 DEF SetAccounts, MyAccounts, BindInv, BindTypeOK
<1>6. \A d \in DOMAIN deployments : \A a \in accounts'[d] :
        \/ a \in accounts[d]
        \/ d = target[b] /\ at[b] \in {"update", "create"} /\ a = NewAccount(b)
  <2>1. UNCHANGED accounts \/ SetAccounts(b, {})
          \/ (SetAccounts(b, {NewAccount(b)}) /\ at[b] \in {"update", "create"})
    BY <1>1, <1>3, <1>4
  <2> QED
    BY <1>1, <2>1 DEF SetAccounts, MyAccounts, BindInv, BindTypeOK
<1> QED
  BY <1>1, <1>2, <1>5, <1>6 DEF OnlyOwn, Working

LEMMA BinderOwn ==
  ASSUME BindInv, AimInv, NEW b \in Binders, HandleBinder(b) \/ CrashBinder(b)
  PROVE  OnlyOwn(b)
<1>1. CASE ListForBinder(b)
  <2>1. /\ Working(b) /\ UNCHANGED <<deployments, ask, dbName, accounts>>
        /\ \A c \in Binders \ {b} : target'[c] = target[c]
    BY <1>1 DEF ListForBinder, vars, composeVars, Working, BindInv, BindTypeOK
  <2>2. \A c \in Binders \ {b} : UNCHANGED <<at[c], told[c], spoiled[c]>>
    BY <1>1, OthersStay DEF ListForBinder
  <2> QED
    BY <2>1, <2>2 DEF OnlyOwn
<1>2. CASE GetForBinder(b)
  <2>1. Working(b) /\ UNCHANGED <<deployments, ask, target, dbName, accounts>>
    BY <1>2 DEF GetForBinder, vars, composeVars, Working
  <2>2. \A c \in Binders \ {b} : UNCHANGED <<at[c], told[c], spoiled[c]>>
    BY <1>2, OthersStay DEF GetForBinder, Engine, Mongo, Elastic
  <2> QED
    BY <2>1, <2>2 DEF OnlyOwn
<1>3. CASE Lookup(b)
  <2>1. /\ Working(b) /\ UNCHANGED <<deployments, ask, target, accounts>>
        /\ \A c \in Binders \ {b} : dbName'[c] = dbName[c]
    BY <1>3 DEF Lookup, vars, composeVars, Working, BindInv, BindTypeOK
  <2>2. \A c \in Binders \ {b} : UNCHANGED <<at[c], told[c], spoiled[c]>>
    BY <1>3, OthersStay DEF Lookup
  <2> QED
    BY <2>1, <2>2 DEF OnlyOwn
<1>4. CASE CrashBinder(b)
  <2>1. Working(b) /\ UNCHANGED <<deployments, ask, target, dbName, accounts>>
    BY <1>4 DEF CrashBinder, vars, composeVars, Working
  <2>2. \A c \in Binders \ {b} : UNCHANGED <<at[c], told[c], spoiled[c]>>
    BY <1>4, OthersStay DEF CrashBinder
  <2> QED
    BY <2>1, <2>2 DEF OnlyOwn
<1> QED
  BY <1>1, <1>2, <1>3, <1>4, CommandOwn DEF HandleBinder

---------------------------------------------------------------------------
(* What a binder works on.                                                 *)

LEMMA OthersAim ==
  ASSUME BindInv, UseInv, AimInv, NEW b \in Binders, OnlyOwn(b), NEW c \in Binders \ {b}
  PROVE  Aim(c)'
<1>1. Aim(c) /\ UNCHANGED <<deployments, ask, at[c], target[c], dbName[c]>>
  BY DEF AimInv, OnlyOwn
<1>2. ASSUME at[c] = "create"
      PROVE  MyAccounts(c)' = {}
  <2>1. Working(c) /\ ask[c].binding # ask[b].binding /\ target[c] \in DOMAIN deployments
    BY <1>2 DEF Working, OnlyOwn, UseInv, SerialInv, BindInv, WorkInv
  <2>2. \A a \in accounts'[target[c]] : a \in accounts[target[c]] \/ a.binding = ask[b].binding
    BY <2>1 DEF OnlyOwn, NewAccount
  <2>3. MyAccounts(c) = {}
    BY <1>1, <1>2 DEF Aim
  <2> QED
    BY <1>1, <2>1, <2>2, <2>3 DEF MyAccounts
<1> QED
  BY <1>1, <1>2 DEF Aim

\* A binder that is answered aims at what it did.
LEMMA ToldAim ==
  ASSUME BindInv, NEW b \in Binders, Aim(b), at[b] # "idle", NEW answer, Tell(b, answer),
         UNCHANGED <<deployments, ask, target, dbName>>
  PROVE  Aim(b)'
<1>1. at'[b] = "done"
  BY DEF Tell, BindInv, BindTypeOK
<1> QED
  BY <1>1 DEF Aim

LEMMA OwnAim ==
  ASSUME BindInv, AimInv, NEW b \in Binders, HandleBinder(b) \/ CrashBinder(b)
  PROVE  Aim(b)'
<1>1. Aim(b) /\ UNCHANGED <<deployments, ask>> /\ at[b] # "idle"
  BY BinderOwn DEF AimInv, OnlyOwn, Working
<1>2. \A stage \in Stages : Proceed(b, stage) => at'[b] = stage
  BY DEF Proceed, BindInv, BindTypeOK
<1>3. CASE ListForBinder(b)
  <2>1. at[b] = "list" /\ UNCHANGED dbName /\ dbName[b] = Nil
    BY <1>3 DEF ListForBinder, BindInv, WorkInv
  <2>2. CASE \E d \in Named(InstanceOf[ask[b].binding]) : target' = [target EXCEPT ![b] = d] /\ Proceed(b, "get")
    <3>1. PICK d \in Named(InstanceOf[ask[b].binding]) : target' = [target EXCEPT ![b] = d]
      BY <2>2
    <3>2. target'[b] = d /\ at'[b] = "get"
      BY <1>2, <2>2, <3>1 DEF BindInv, BindTypeOK, Stages
    <3> QED
      BY <1>1, <2>1, <3>1, <3>2 DEF Aim, Named
  <2>3. CASE UNCHANGED target /\ \E answer : Tell(b, answer)
    BY <1>1, <2>1, <2>3, ToldAim
  <2> QED
    BY <1>3, <2>2, <2>3 DEF ListForBinder
<1>4. CASE GetForBinder(b)
  <2>1. at[b] = "get" /\ UNCHANGED <<target, dbName>> /\ dbName[b] = Nil
    BY <1>4 DEF GetForBinder, BindInv, WorkInv
  <2>2. CASE deployments[target[b]].type = "mongodb" /\ Proceed(b, "lookup")
    <3>1. at'[b] = "lookup"
      BY <1>2, <2>2 DEF Stages
    <3> QED
      BY <1>1, <2>1, <2>2, <3>1 DEF Aim
  <2>3. CASE \E answer : Tell(b, answer)
    BY <1>1, <2>1, <2>3, ToldAim
  <2> QED
    BY <1>4, <2>2, <2>3 DEF GetForBinder, Engine, Mongo, Elastic
<1>5. CASE Lookup(b)
  <2>1. at[b] = "lookup" /\ UNCHANGED target /\ ask[b].op \in {"Bind", "Unbind"}
    BY <1>1, <1>5 DEF Lookup, BindInv, BindTypeOK, Ask, Aim
  <2>2. CASE Proceed(b, IF ask[b].op = "Bind" THEN "update" ELSE "remove")
    <3>1. at'[b] = IF ask[b].op = "Bind" THEN "update" ELSE "remove"
      BY <1>2, <2>2 DEF Stages
    <3> QED
      BY <1>1, <2>1, <3>1 DEF Aim
  <2>3. CASE UNCHANGED dbName /\ \E answer : Tell(b, answer)
    BY <1>1, <2>1, <2>3, ToldAim
  <2> QED
    BY <1>5, <2>2, <2>3 DEF Lookup
<1>6. CASE UpdateUser(b)
  <2>1. UNCHANGED <<target, dbName>> /\ at[b] = "update"
    BY <1>6 DEF UpdateUser
  <2>2. CASE NoSuchUser(b) /\ UNCHANGED accounts /\ Proceed(b, "create")
    <3>1. at'[b] = "create" /\ MyAccounts(b)' = {}
      BY <1>1, <1>2, <2>1, <2>2 DEF Stages, NoSuchUser, MyAccounts
    <3> QED
      BY <1>1, <2>1, <3>1 DEF Aim
  <2>3. CASE \E answer : Tell(b, answer)
    BY <1>1, <2>1, <2>3, ToldAim
  <2> QED
    BY <1>6, <2>2, <2>3 DEF UpdateUser, NewPassword, Command
<1>7. CASE CreateUser(b)
  BY <1>1, <1>7, ToldAim DEF CreateUser, Command
<1>8. CASE RemoveUser(b)
  BY <1>1, <1>8, ToldAim DEF RemoveUser, Remove, Command
<1>9. CASE CrashBinder(b)
  BY <1>1, <1>9, ToldAim DEF CrashBinder
<1> QED
  BY <1>3, <1>4, <1>5, <1>6, <1>7, <1>8, <1>9 DEF HandleBinder

---------------------------------------------------------------------------
(* The users that credentials need.                                        *)

\* A binder that goes on has changed no user yet.
LEMMA GoesOrTells ==
  ASSUME BindInv, NEW b \in Binders, HandleBinder(b) \/ CrashBinder(b)
  PROVE  \/ UNCHANGED <<accounts, told, holder, forgotten>> /\ \E stage \in Stages \ {"idle", "done"} : Proceed(b, stage)
         \/ \E answer \in Answer : Tell(b, answer)
<1>1. {"get", "lookup", "update", "create", "remove"} \subseteq Stages \ {"idle", "done"}
  BY DEF Stages
<1>2. {"created", "ok", "gone", "failed", "dropped"} \subseteq Answer
  BY DEF Answer
<1>3. CASE ListForBinder(b)
  BY <1>1, <1>2, <1>3, FailureIsAnswer DEF ListForBinder, Proceed
<1>4. CASE GetForBinder(b)
  BY <1>1, <1>2, <1>4 DEF GetForBinder, Engine, Mongo, Elastic, Proceed
<1>5. CASE Lookup(b)
  BY <1>1, <1>2, <1>5 DEF Lookup, Proceed
<1>6. CASE UpdateUser(b) \/ CreateUser(b) \/ RemoveUser(b)
  BY <1>1, <1>2, <1>6 DEF UpdateUser, CreateUser, RemoveUser, NewPassword, Remove, Command, Proceed
<1>7. CASE CrashBinder(b)
  BY <1>2, <1>7 DEF CrashBinder
<1> QED
  BY <1>3, <1>4, <1>5, <1>6, <1>7 DEF HandleBinder

\* A binder makes users in a MongoDB deployment only.
LEMMA BinderUsers ==
  ASSUME BindInv, AimInv, UserInv, NEW b \in Binders, OnlyOwn(b)
  PROVE  UserInv'
<1>1. UNCHANGED deployments
  BY DEF OnlyOwn
<1>2. ASSUME NEW d \in DOMAIN deployments, accounts'[d] # {}
      PROVE  deployments[d].type = "mongodb"
  <2>1. CASE accounts[d] # {}
    BY <2>1 DEF UserInv
  <2>2. CASE accounts[d] = {}
    BY <1>2, <2>2 DEF OnlyOwn, AimInv, Aim
  <2> QED
    BY <2>1, <2>2
<1> QED
  BY <1>1, <1>2 DEF UserInv

\* What others gave out needs users that b leaves alone.
LEMMA GaveStays ==
  ASSUME BindInv, NEW b \in Binders, OnlyOwn(b), NEW c, NEW x, Gave(c, x),
         UNCHANGED accounts \/ x # ask[b].binding
  PROVE  Gave(c, x)'
<1>1. c \in Binders \ {b}
  BY DEF Gave, OnlyOwn, Working
<1>2. UNCHANGED <<deployments, at[c], target[c], dbName[c]>>
  BY <1>1 DEF OnlyOwn
<1>3. [db |-> dbName[c], binding |-> x, password |-> c].binding = x
  OBVIOUS
<1>4. ASSUME dbName[c] # Nil
      PROVE  [db |-> dbName[c], binding |-> x, password |-> c] \in accounts'[target[c]]
  BY <1>3, <1>4 DEF Gave, OnlyOwn
<1> QED
  BY <1>1, <1>2, <1>4 DEF Gave

\* A Bind that gives out credentials got to a deployment, and to a database
\* unless it needs none.
LEMMA CreatedThere ==
  ASSUME BindInv, AimInv, NEW b \in Binders, HandleBinder(b) \/ CrashBinder(b), Tell(b, "created")
  PROVE  /\ UNCHANGED <<target, dbName>>
         /\ target[b] \in DOMAIN deployments
         /\ deployments[target[b]].name = InstanceOf[ask[b].binding]
         /\ dbName[b] = Nil => deployments[target[b]].type # "mongodb"
<1>1. \A answer : Tell(b, answer) => answer = "created"
  BY DEF Tell, BindInv, BindTypeOK
<1>2. \A stage \in Stages \ {"done"} : ~Proceed(b, stage)
  BY DEF Tell, Proceed, BindInv, BindTypeOK
<1>3. \A answer : Failure(answer) # "created"
  BY DEF Failure
<1>4. CASE GetForBinder(b)
  <2>1. \E strings : Engine(b, strings)
    BY <1>1, <1>4 DEF GetForBinder
  <2>2. deployments[target[b]].type = "elastic_search"
    BY <1>1, <1>2, <2>1 DEF Engine, Mongo, Stages
  <2> QED
    BY <1>4, <2>2 DEF GetForBinder, BindInv, WorkInv, AimInv, Aim
<1>5. CASE UpdateUser(b) \/ CreateUser(b) \/ RemoveUser(b)
  <2>1. /\ at[b] \in {"update", "create", "remove"} /\ UNCHANGED <<target, dbName>>
        /\ target[b] \in DOMAIN deployments /\ dbName[b] # Nil
    BY <1>5, CommandShape DEF BindInv, WorkInv
  <2> QED
    BY <2>1 DEF AimInv, Aim
<1> QED
  BY <1>1, <1>2, <1>3, <1>4, <1>5 DEF HandleBinder, ListForBinder, Lookup, CrashBinder, Stages

\* Credentials in use, or about to be revoked, stay good; those just given
\* out are good.
LEMMA BinderHeld ==
  ASSUME BindInv, UseInv, AimInv, HeldInv, NEW b \in Binders, HandleBinder(b) \/ CrashBinder(b)
  PROVE  HeldInv'
<1>1. OnlyOwn(b) /\ UseInv' /\ BindInv'
  BY BinderOwn, HandleUse, ListForBinderInv, GetForBinderInv, LookupInv, CommandInv, CrashBinderInv
     DEF HandleBinder
<1>2. Working(b) /\ UNCHANGED <<deployments, ask>> /\ ask[b].binding \in BindingIds
  BY <1>1 DEF OnlyOwn, BindInv, WorkInv, Working
<1>3. holder[ask[b].binding] = Nil
  BY <1>2 DEF UseInv, SerialInv
<1>4. ASSUME NEW x \in BindingIds, holder'[x] # Nil
      PROVE  Gave(holder[x], x)'
  <2>1. CASE holder'[x] = holder[x]
    <3>1. PICK c : c = holder[x]
      OBVIOUS
    <3>2. Gave(c, x) /\ x # ask[b].binding
      BY <1>3, <1>4, <2>1, <3>1 DEF HeldInv
    <3>3. Gave(c, x)'
      BY <1>1, <3>2, GaveStays
    <3> QED
      BY <2>1, <3>1, <3>3 DEF Gave
  <2>2. CASE holder'[x] # holder[x]
    <3>1. ~UNCHANGED holder
      BY <2>2
    <3>2. Tell(b, "created")
      BY <3>1, GoesOrTells DEF Tell
    <3>3. x = ask[b].binding /\ holder'[x] = b /\ at'[b] = "done"
      BY <1>2, <2>2, <3>2 DEF Tell, BindInv, BindTypeOK
    <3>4. dbName'[b] # Nil =>
            [db |-> dbName'[b], binding |-> x, password |-> b] \in accounts'[target'[b]]
      BY <1>1, <1>4, <3>3 DEF UseInv, HolderInv
    <3> QED
      BY <1>2, <3>2, <3>3, <3>4, CreatedThere DEF Gave
  <2> QED
    BY <2>1, <2>2
<1>5. ASSUME NEW c \in Binders, Working(c)', ask[c].held # Nil
      PROVE  Gave(ask[c].held, ask[c].binding)'
  <2>1. Working(c)
    BY <1>1, <1>5 DEF OnlyOwn, Working
  <2>2. Gave(ask[c].held, ask[c].binding)
    BY <1>5, <2>1 DEF HeldInv
  <2>3. CASE c = b
    <3>1. UNCHANGED accounts
      BY <1>5, <2>3, GoesOrTells DEF Tell, Working, BindInv, BindTypeOK
    <3>2. Gave(ask[c].held, ask[c].binding)'
      BY <1>1, <1>2, <2>2, <3>1, GaveStays
    <3> QED
      BY <3>2
  <2>4. CASE c # b
    <3>1. ask[c].binding # ask[b].binding
      BY <1>2, <2>1, <2>4 DEF UseInv, SerialInv
    <3> QED
      BY <1>1, <1>2, <2>2, <3>1, GaveStays
  <2> QED
    BY <2>3, <2>4
<1>6. \A c \in Binders : Working(c)' /\ ask'[c].held # Nil =>
        Gave(ask[c].held, ask[c].binding)'
  BY <1>2, <1>5
<1> QED
  BY <1>4, <1>6 DEF HeldInv, Gave, Working

---------------------------------------------------------------------------
(* What is left of a binding that is forgotten.                            *)

\* Who answers an Unbind with success, or with "instance does not exist", has
\* left no user of the binding.
LEMMA Forgets ==
  ASSUME OneHome, Decodes, BindInv, HomeInv, AimInv, UserInv,
         NEW b \in Binders, HandleBinder(b) \/ CrashBinder(b), ask[b].op = "Unbind",
         NEW answer \in {"ok", "gone"}, Tell(b, answer), Single(InstanceOf[ask[b].binding]),
         NEW d \in Named(InstanceOf[ask[b].binding]), NEW a \in accounts'[d]
  PROVE  a.binding # ask[b].binding
<1> DEFINE x == ask[b].binding
<1>1. /\ d \in DOMAIN deployments /\ Live(d) /\ deployments[d].name = InstanceOf[x]
      /\ \A e \in DOMAIN deployments : deployments[e].name = InstanceOf[x] => e = d
  BY DEF Named, Single
<1>2. \A other : Tell(b, other) => other = answer
  BY DEF Tell, BindInv, BindTypeOK
<1>3. \A stage \in Stages \ {"done"} : ~Proceed(b, stage)
  BY DEF Tell, Proceed, BindInv, BindTypeOK
<1>4. \A other : Failure(other) # answer
  BY DEF Failure
<1>5. target[b] \in DOMAIN deployments => target[b] = d
  BY <1>1 DEF AimInv, Aim
<1>6. CASE ListForBinder(b)
  BY <1>1, <1>2, <1>3, <1>4, <1>6 DEF ListForBinder, ReadAnswers, Decodes, Stages
<1>7. CASE GetForBinder(b)
  <2>1. /\ target[b] = d /\ UNCHANGED accounts
    BY <1>5, <1>7 DEF GetForBinder, BindInv, WorkInv
  <2>2. \E strings : Engine(b, strings)
    BY <1>1, <1>2, <1>7, <2>1 DEF GetForBinder
  <2>3. deployments[d].type = "elastic_search"
    BY <1>2, <1>3, <2>1, <2>2 DEF Engine, Mongo, Stages
  <2> QED
    BY <1>1, <2>1, <2>3 DEF UserInv
<1>8. CASE Lookup(b) \/ CrashBinder(b)
  BY <1>2, <1>3, <1>8 DEF Lookup, CrashBinder, Stages
<1>9. CASE UpdateUser(b) \/ CreateUser(b)
  BY <1>2, <1>3, <1>9 DEF UpdateUser, CreateUser, NewPassword, Command, Stages
<1>10. CASE RemoveUser(b)
  <2>1. /\ target[b] = d /\ SetAccounts(b, {})
    BY <1>2, <1>5, <1>10 DEF RemoveUser, Remove, Command, BindInv, WorkInv
  <2>2. at[b] = "remove" /\ dbName[b] # Nil
    BY <1>10 DEF RemoveUser, BindInv, WorkInv
  <2>3. accounts'[d] = accounts[d] \ MyAccounts(b)
    BY <1>1, <2>1 DEF SetAccounts, BindInv, BindTypeOK
  <2>4. \A e \in accounts[d] : e.db = dbName[b]
    BY <1>1, <2>1, <2>2 DEF HomeInv, IsHome
  <2> QED
    BY <2>1, <2>3, <2>4 DEF MyAccounts
<1> QED
  BY <1>6, <1>7, <1>8, <1>9, <1>10 DEF HandleBinder

LEMMA BinderClean ==
  ASSUME OneHome, Decodes, BindInv, HomeInv, UseInv, AimInv, UserInv, CleanInv,
         NEW b \in Binders, HandleBinder(b) \/ CrashBinder(b)
  PROVE  CleanInv'
<1>1. OnlyOwn(b) /\ Working(b) /\ UNCHANGED <<deployments, ask>>
  BY BinderOwn DEF OnlyOwn
<1>2. \A x \in BindingIds : forgotten'[x] # forgotten[x] =>
        /\ x = ask[b].binding /\ ask[b].op = "Unbind"
        /\ \E answer \in {"ok", "gone"} : Tell(b, answer)
  <2>1. UNCHANGED forgotten \/ \E answer \in Answer : Tell(b, answer)
    BY GoesOrTells
  <2> QED
    BY <2>1 DEF Tell, BindInv, BindTypeOK
<1>3. ASSUME NEW x \in BindingIds, forgotten'[x] # Nil, Single(InstanceOf[x]),
             NEW d \in Named(InstanceOf[x]), NEW a \in accounts'[d]
      PROVE  a.binding # x
  <2>1. CASE forgotten'[x] # forgotten[x]
    BY <1>2, <1>3, <2>1, Forgets
  <2>2. CASE forgotten'[x] = forgotten[x]
    <3>1. d \in DOMAIN deployments
      BY DEF Named
    <3>2. CASE a \in accounts[d]
      BY <1>3, <2>2, <3>2 DEF CleanInv, Revoked
    <3>3. CASE at[b] \in {"update", "create"} /\ a = NewAccount(b)
      <4>1. forgotten[ask[b].binding] = Nil
        BY <1>1, <3>3 DEF AimInv, Aim, CleanInv
      <4> QED
        BY <1>3, <2>2, <3>3, <4>1 DEF NewAccount
    <3> QED
      BY <1>1, <3>1, <3>2, <3>3 DEF OnlyOwn
  <2> QED
    BY <2>1, <2>2
<1>4. Revoked'
  BY <1>1, <1>3 DEF Revoked, Single, Named, Live
<1>5. ASSUME NEW c \in Binders, Working(c)', ask[c].op = "Bind"
      PROVE  forgotten'[ask[c].binding] = Nil
  <2>1. Working(c) /\ ask[c].binding \in BindingIds
    BY <1>1, <1>5 DEF OnlyOwn, Working, BindInv, WorkInv
  <2>2. forgotten[ask[c].binding] = Nil
    BY <1>5, <2>1 DEF CleanInv
  <2>3. CASE c = b
    BY <1>2, <1>5, <2>1, <2>2, <2>3
  <2>4. CASE c # b
    <3>1. ask[c].binding # ask[b].binding
      BY <1>1, <2>1, <2>4 DEF UseInv, SerialInv
    <3> QED
      BY <1>2, <2>1, <2>2, <3>1
  <2> QED
    BY <2>3, <2>4
<1> QED
  BY <1>1, <1>4, <1>5 DEF CleanInv

---------------------------------------------------------------------------
(* Requests that nothing hits.                                             *)

\* RequestsSucceed and DoneInv, of one binder.
Succeeds(b) ==
  at[b] = "done" /\ ~spoiled[b] /\ told[b] # "gone" =>
    /\ target[b] \in DOMAIN deployments
    /\ /\ deployments[target[b]].type \in {"mongodb", "elastic_search"}
       /\ ask[b].op = "Unbind" => ask[b].held # Nil /\ Single(InstanceOf[ask[b].binding])
       => told[b] = IF ask[b].op = "Bind" THEN "created" ELSE "ok"

LEMMA EachSucceeds == DoneInv <=> \A b \in Binders : Succeeds(b)
BY DEF DoneInv, RequestsSucceed, Succeeds

\* A user that an Unbind is to revoke is where it looks for it.
LEMMA RevokesIt ==
  ASSUME BindInv, HomeInv, AimInv, HeldInv, NEW b \in Binders, at[b] = "remove",
         ask[b].held # Nil, Single(InstanceOf[ask[b].binding])
  PROVE  MyAccounts(b) # {}
<1> DEFINE c == ask[b].held
           x == ask[b].binding
           user == [db |-> dbName[c], binding |-> x, password |-> c]
<1>1. /\ target[b] \in DOMAIN deployments /\ dbName[b] # Nil
      /\ deployments[target[b]].name = InstanceOf[x] /\ deployments[target[b]].type = "mongodb"
  BY DEF BindInv, WorkInv, AimInv, Aim
<1>2. Gave(c, x)
  BY DEF HeldInv, Working
<1>3. target[c] = target[b]
  BY <1>1, <1>2 DEF Gave, Single
<1>4. user \in accounts[target[b]]
  BY <1>1, <1>2, <1>3 DEF Gave
<1>5. dbName[c] = dbName[b]
  BY <1>1, <1>4 DEF HomeInv, IsHome
<1> QED
  BY <1>4, <1>5 DEF MyAccounts

LEMMA OwnSucceeds ==
  ASSUME BindInv, HomeInv, AimInv, HeldInv, NEW b \in Binders, HandleBinder(b) \/ CrashBinder(b)
  PROVE  Succeeds(b)'
<1>1. /\ UNCHANGED <<deployments, ask>> /\ ask[b].op \in {"Bind", "Unbind"} /\ at[b] # "idle"
      /\ Single(InstanceOf[ask[b].binding])' <=> Single(InstanceOf[ask[b].binding])
  <2>1. UNCHANGED <<deployments, ask>> /\ at[b] # "idle"
    BY BinderOwn DEF OnlyOwn, Working
  <2>2. ask[b].op \in {"Bind", "Unbind"}
    BY <2>1 DEF AimInv, Aim, BindInv, BindTypeOK, Ask
  <2> QED
    BY <2>1, <2>2 DEF Single
<1>2. \A wrong : Spoil(b, wrong) /\ wrong => spoiled'[b]
  BY DEF Spoil, BindInv, BindTypeOK
<1>3. \A answer : Tell(b, answer) => told'[b] = answer
  BY DEF Tell, BindInv, BindTypeOK
<1>4. \A stage \in Stages \ {"done"} : Proceed(b, stage) => at'[b] # "done"
  BY DEF Proceed, BindInv, BindTypeOK
<1>5. CASE ListForBinder(b)
  BY <1>2, <1>3, <1>4, <1>5 DEF ListForBinder, Stages, Succeeds
<1>6. CASE GetForBinder(b)
  <2>1. UNCHANGED target /\ target[b] \in DOMAIN deployments
    BY <1>6 DEF GetForBinder, BindInv, WorkInv
  <2>2. CASE spoiled'[b] \/ Tell(b, "gone") \/ Proceed(b, "lookup")
    BY <1>3, <1>4, <2>2 DEF Succeeds, Stages
  <2>3. CASE Engine(b, "usable")
    <3>1. \/ deployments[target[b]].type \notin {"mongodb", "elastic_search"}
          \/ Proceed(b, "lookup")
          \/ Tell(b, IF ask[b].op = "Bind" THEN "created" ELSE "ok")
      BY <1>1, <2>3 DEF Engine, Mongo, Elastic
    <3> QED
      BY <1>1, <1>3, <1>4, <2>1, <3>1 DEF Succeeds, Stages
  <2> QED
    BY <1>2, <1>6, <2>2, <2>3 DEF GetForBinder
<1>7. CASE Lookup(b)
  BY <1>1, <1>2, <1>4, <1>7 DEF Lookup, Succeeds, Stages
<1>8. ASSUME at[b] \in {"update", "create", "remove"}, UNCHANGED target,
             \/ spoiled'[b]
             \/ Proceed(b, "create")
             \/ Tell(b, IF ask[b].op = "Bind" THEN "created" ELSE "ok")
      PROVE  Succeeds(b)'
  <2>1. target[b] \in DOMAIN deployments
    BY <1>8 DEF BindInv, WorkInv
  <2> QED
    BY <1>1, <1>3, <1>4, <1>8, <2>1 DEF Succeeds, Stages
<1>9. CASE UpdateUser(b)
  <2>1. at[b] = "update" /\ ask[b].op = "Bind" /\ UNCHANGED target
    BY <1>9 DEF UpdateUser, AimInv, Aim
  <2>2. spoiled'[b] \/ Proceed(b, "create") \/ Tell(b, "created")
    BY <1>2, <1>9 DEF UpdateUser, NewPassword, Command
  <2> QED
    BY <1>8, <2>1, <2>2
<1>10. CASE CreateUser(b)
  <2>1. at[b] = "create" /\ ask[b].op = "Bind" /\ MyAccounts(b) = {} /\ UNCHANGED target
    BY <1>10 DEF CreateUser, AimInv, Aim
  <2>2. spoiled'[b] \/ Tell(b, "created")
    BY <1>2, <1>10, <2>1 DEF CreateUser, Command
  <2> QED
    BY <1>8, <2>1, <2>2
<1>11. CASE RemoveUser(b)
  <2>1. at[b] = "remove" /\ ask[b].op = "Unbind" /\ UNCHANGED target
    BY <1>11 DEF RemoveUser, AimInv, Aim
  <2>2. CASE spoiled'[b] \/ Tell(b, "ok")
    BY <1>8, <2>1, <2>2
  <2>3. CASE MyAccounts(b) = {}
    <3>1. ~(ask[b].held # Nil /\ Single(InstanceOf[ask[b].binding]))
      BY <2>1, <2>3, RevokesIt
    <3>2. target[b] \in DOMAIN deployments
      BY <2>1 DEF BindInv, WorkInv
    <3> QED
      BY <1>1, <2>1, <3>1, <3>2 DEF Succeeds
  <2> QED
    BY <1>2, <1>11, <2>2, <2>3 DEF RemoveUser, Remove, Command
<1>12. CASE CrashBinder(b)
  BY <1>2, <1>12 DEF CrashBinder, Succeeds
<1> QED
  BY <1>5, <1>6, <1>7, <1>9, <1>10, <1>11, <1>12 DEF HandleBinder

\* The answers of others stand.
LEMMA BinderDone ==
  ASSUME BindInv, HomeInv, AimInv, HeldInv, DoneInv, NEW b \in Binders,
         HandleBinder(b) \/ CrashBinder(b)
  PROVE  DoneInv'
<1>1. OnlyOwn(b)
  BY BinderOwn
<1>2. ASSUME NEW c \in Binders \ {b}
      PROVE  Succeeds(c)'
  <2>1. Succeeds(c)
    BY EachSucceeds
  <2>2. UNCHANGED <<deployments, ask, at[c], target[c], told[c], spoiled[c]>>
    BY <1>1 DEF OnlyOwn
  <2> QED
    BY <2>1, <2>2 DEF Succeeds, Single
<1> QED
  BY <1>2, OwnSucceeds DEF DoneInv, RequestsSucceed, Succeeds

---------------------------------------------------------------------------
(* Steps of no binder.                                                     *)

\* Deployments stay what they are, and new ones have no users.
Calm ==
  /\ Keeps /\ UNCHANGED <<binderLocals, history>>
  /\ \A d \in DOMAIN deployments : accounts'[d] = accounts[d]
  /\ \A d \in DOMAIN deployments' \ DOMAIN deployments : accounts'[d] = {}

LEMMA ElsewhereCalm ==
  ASSUME TypeInv, ReferInv,
         BrokerStep \/ (\E d \in DOMAIN deployments : Write(d) \/ Drop(d)) \/ UNCHANGED bindVars
  PROVE  Calm
<1>1. [Next]_vars
  BY DEF BrokerStep, Write, Drop, bindVars
<1>2. Keeps
  BY <1>1, NextKeeps
<1>3. CASE BrokerStep
  BY <1>2, <1>3 DEF BrokerStep, Populated, Calm, Keeps
<1>4. CASE (\E d \in DOMAIN deployments : Write(d) \/ Drop(d)) \/ UNCHANGED bindVars
  <2>1. UNCHANGED <<deployments, accounts, binderLocals, history>>
    BY <1>4 DEF Write, Drop, bindVars, vars, composeVars
  <2> QED
    BY <1>2, <2>1 DEF Calm
<1> QED
  BY <1>3, <1>4

LEMMA CalmAim ==
  ASSUME TypeInv', BindInv, AimInv, UserInv, Calm
  PROVE  AimInv' /\ UserInv'
<1>1. UNCHANGED <<at, ask, target, dbName>>
  BY DEF Calm, binderLocals
<1>2. ASSUME NEW b \in Binders PROVE Aim(b)'
  <2>1. Aim(b)
    BY DEF AimInv
  <2>2. target[b] \in DOMAIN deployments \cup {Nil} /\ Nil \notin DOMAIN deployments'
    BY NilAssumption DEF BindInv, BindTypeOK, TypeInv, TypeOK, ComposeTypeOK
  <2>3. CASE target[b] \in DOMAIN deployments
    BY <1>1, <2>1, <2>3 DEF Calm, Keeps, Aim, MyAccounts
  <2>4. CASE target[b] = Nil
    <3>1. at[b] \notin {"lookup", "update", "create", "remove"} /\ dbName[b] = Nil
      BY <2>2, <2>4 DEF BindInv, WorkInv, Calm, Keeps
    <3> QED
      BY <1>1, <2>1, <2>2, <2>4, <3>1 DEF Aim
  <2> QED
    BY <2>2, <2>3, <2>4
<1>3. UserInv'
  BY DEF Calm, Keeps, UserInv
<1> QED
  BY <1>2, <1>3 DEF AimInv

\* Credentials stay good.
LEMMA CalmHeld ==
  ASSUME BindInv, HeldInv, Calm
  PROVE  HeldInv'
<1>1. UNCHANGED <<at, ask, target, dbName, holder>>
  BY DEF Calm, binderLocals, history
<1>2. ASSUME NEW c, NEW x, Gave(c, x)
      PROVE  Gave(c, x)'
  BY <1>1, <1>2 DEF Gave, Calm, Keeps
<1>3. ASSUME NEW x \in BindingIds, holder[x] # Nil
      PROVE  Gave(holder[x], x)'
  <2>1. PICK c : c = holder[x]
    OBVIOUS
  <2> QED
    BY <1>1, <1>2, <1>3, <2>1 DEF HeldInv, Gave
<1>4. ASSUME NEW b \in Binders, Working(b), ask[b].held # Nil
      PROVE  Gave(ask[b].held, ask[b].binding)'
  <2>1. PICK c, x : c = ask[b].held /\ x = ask[b].binding
    OBVIOUS
  <2> QED
    BY <1>1, <1>2, <1>4, <2>1 DEF HeldInv, Gave
<1> QED
  BY <1>1, <1>3, <1>4 DEF HeldInv, Working, Gave

LEMMA CalmClean ==
  ASSUME BindInv, CleanInv, Calm
  PROVE  CleanInv'
<1>1. UNCHANGED <<at, ask, forgotten>>
  BY DEF Calm, binderLocals, history
<1>2. ASSUME NEW x \in BindingIds, forgotten[x] # Nil, Single(InstanceOf[x])',
             NEW d \in Named(InstanceOf[x])', NEW a \in accounts'[d]
      PROVE  a.binding # x
  <2>1. Single(InstanceOf[x])
    BY <1>2, SingleBefore DEF Calm
  <2>2. d \in DOMAIN deployments => d \in Named(InstanceOf[x])
    BY DEF Calm, Keeps, Named, Live
  <2> QED
    BY <1>2, <2>1, <2>2 DEF Calm, CleanInv, Revoked, Named
<1>3. Revoked'
  BY <1>1, <1>2 DEF Revoked
<1> QED
  BY <1>1, <1>3 DEF CleanInv, Working

LEMMA CalmDone ==
  ASSUME BindInv, DoneInv, Calm
  PROVE  DoneInv'
<1>1. UNCHANGED <<at, ask, target, told, spoiled>>
  BY DEF Calm, binderLocals, history
<1>2. ASSUME NEW b \in Binders PROVE Succeeds(b)'
  <2>1. Succeeds(b)
    BY EachSucceeds
  <2>2. Single(InstanceOf[ask[b].binding])' => Single(InstanceOf[ask[b].binding])
    BY <1>1 DEF Calm, Keeps, Single
  <2> QED
    BY <1>1, <2>1, <2>2 DEF Succeeds, Calm, Keeps
<1> QED
  BY <1>2 DEF DoneInv, RequestsSucceed, Succeeds

---------------------------------------------------------------------------
(* A request comes in.                                                     *)

\* What is asked for, and what changes with it.
Received(b, op, x) ==
  /\ at[b] = "idle" /\ at'[b] = "list"
  /\ UNCHANGED <<deployments, target, dbName, told, accounts, spoiled>>
  /\ ask'[b] = [op |-> op, binding |-> x, held |-> IF op = "Unbind" THEN holder[x] ELSE Nil]
  /\ \A c \in Binders \ {b} : UNCHANGED <<at[c], ask[c]>>
  /\ holder'[x] = (IF op = "Unbind" THEN Nil ELSE holder[x])
  /\ forgotten'[x] = (IF op = "Bind" THEN Nil ELSE forgotten[x])
  /\ \A y \in BindingIds \ {x} : UNCHANGED <<holder[y], forgotten[y]>>

LEMMA ReceiveShape ==
  ASSUME BindInv, NEW b \in Binders, ReceiveBinder(b)
  PROVE  \E op \in {"Bind", "Unbind"}, x \in BindingIds : Received(b, op, x)
BY DEF ReceiveBinder, BindInv, BindTypeOK, vars, composeVars, Received

LEMMA ReceiveAim ==
  ASSUME TypeInv, BindInv, AimInv, UserInv, NEW b \in Binders, ReceiveBinder(b)
  PROVE  AimInv' /\ UserInv'
<1>1. PICK op \in {"Bind", "Unbind"}, x \in BindingIds : Received(b, op, x)
  BY ReceiveShape
<1>2. ASSUME NEW c \in Binders \ {b} PROVE Aim(c)'
  BY <1>1 DEF AimInv, Aim, MyAccounts, Received
<1>3. Aim(b)'
  <2>1. target[b] = Nil /\ dbName[b] = Nil
    BY <1>1 DEF AimInv, Aim, BindInv, WorkInv, Received
  <2>2. Nil \notin DOMAIN deployments
    BY NilAssumption DEF TypeInv, TypeOK, ComposeTypeOK
  <2> QED
    BY <1>1, <2>1, <2>2 DEF Aim, Received
<1>4. UserInv'
  BY <1>1 DEF UserInv, Received
<1> QED
  BY <1>2, <1>3, <1>4 DEF AimInv

LEMMA ReceiveHeld ==
  ASSUME BindInv, HeldInv, NEW b \in Binders, ReceiveBinder(b)
  PROVE  HeldInv'
<1>1. PICK op \in {"Bind", "Unbind"}, x \in BindingIds : Received(b, op, x)
  BY ReceiveShape
<1>2. ASSUME NEW c, NEW y, Gave(c, y)
      PROVE  Gave(c, y)'
  BY <1>1, <1>2 DEF Gave, Received
<1>3. ASSUME NEW y \in BindingIds, holder'[y] # Nil
      PROVE  Gave(holder[y], y)'
  <2>1. PICK c : c = holder[y]
    OBVIOUS
  <2>2. holder'[y] = c
    BY <1>1, <1>3, <2>1 DEF Received
  <2>3. Gave(c, y)'
    BY <1>2, <1>3, <2>1, <2>2 DEF HeldInv
  <2> QED
    BY <2>2, <2>3 DEF Gave
<1>4. ASSUME NEW c \in Binders, Working(c)', ask'[c].held # Nil
      PROVE  Gave(ask[c].held, ask[c].binding)'
  <2>1. PICK e, y : e = ask'[c].held /\ y = ask'[c].binding
    OBVIOUS
  <2>2. Gave(e, y)
    <3>1. CASE c = b
      <4>1. y = x /\ e = holder[x]
        BY <1>1, <1>4, <2>1, <3>1 DEF Received
      <4> QED
        BY <1>4, <2>1, <4>1 DEF HeldInv
    <3>2. CASE c # b
      BY <1>1, <1>4, <2>1, <3>2 DEF HeldInv, Working, Received
    <3> QED
      BY <3>1, <3>2
  <2>3. Gave(e, y)'
    BY <1>2, <2>2
  <2> QED
    BY <2>1, <2>3 DEF Gave
<1> QED
  BY <1>3, <1>4 DEF HeldInv, Working, Gave

LEMMA ReceiveClean ==
  ASSUME BindInv, CleanInv, NEW b \in Binders, ReceiveBinder(b)
  PROVE  CleanInv'
<1>1. PICK op \in {"Bind", "Unbind"}, x \in BindingIds : Received(b, op, x)
  BY ReceiveShape
<1>2. \A y \in BindingIds : forgotten'[y] # Nil => forgotten[y] # Nil
  BY <1>1 DEF Received
<1>3. Revoked'
  BY <1>1, <1>2 DEF CleanInv, Revoked, Single, Named, Live, Received
<1>4. ASSUME NEW c \in Binders, Working(c)', ask'[c].op = "Bind"
      PROVE  forgotten'[ask'[c].binding] = Nil
  <2>1. CASE c = b
    BY <1>1, <1>4, <2>1 DEF Received
  <2>2. CASE c # b
    <3>1. Working(c) /\ ask'[c] = ask[c] /\ ask[c].binding \in BindingIds
      BY <1>1, <1>4, <2>2 DEF Working, BindInv, WorkInv, Received
    <3> QED
      BY <1>2, <1>4, <3>1 DEF CleanInv
  <2> QED
    BY <2>1, <2>2
<1> QED
  BY <1>3, <1>4 DEF CleanInv

LEMMA ReceiveDone ==
  ASSUME BindInv, DoneInv, NEW b \in Binders, ReceiveBinder(b)
  PROVE  DoneInv'
<1>1. /\ at'[b] = "list" /\ UNCHANGED <<deployments, target, told, spoiled>>
      /\ \A c \in Binders \ {b} : UNCHANGED <<at[c], ask[c]>>
  BY ReceiveShape DEF Received
<1>2. ASSUME NEW c \in Binders PROVE Succeeds(c)'
  <2>1. Succeeds(c)
    BY EachSucceeds
  <2> QED
    BY <1>1, <2>1 DEF Succeeds, Single
<1> QED
  BY <1>2 DEF DoneInv, RequestsSucceed, Succeeds

---------------------------------------------------------------------------

\* All that is needed of the state for both theorems.
AccountInv == (BrokerInv /\ SafeInv) /\ BindInv /\ HomeInv /\ UseInv /\ AimInv /\ UserInv /\ HeldInv

LEMMA InitAccount ==
  ASSUME OneHome, BindInit
  PROVE  AccountInv /\ CleanInv /\ DoneInv
<1>1. Init
  BY DEF BindInit
<1>2. BrokerInv /\ SafeInv /\ BindInv /\ HomeInv /\ UseInv
  BY <1>1, InitTypes, InitData, InitSafe, BindInitInv, HomeInitInv, UseInitInv DEF BrokerInv
<1>3. Nil \notin DOMAIN deployments
  BY <1>2, NilAssumption DEF BrokerInv, TypeInv, TypeOK, ComposeTypeOK
<1>4. AimInv /\ UserInv /\ HeldInv
  BY <1>3 DEF BindInit, AimInv, Aim, UserInv, HeldInv, Working
<1>5. CleanInv /\ DoneInv
  BY DEF BindInit, CleanInv, Revoked, DoneInv, RequestsSucceed, Working
<1> QED
  BY <1>2, <1>4, <1>5 DEF AccountInv

\* A step is of Broker, too, and keeps what was proved before.
LEMMA NextFoundations ==
  ASSUME Serial, OneHome, AccountInv, [BindNext]_bindVars
  PROVE  BrokerInv' /\ SafeInv' /\ BindInv' /\ HomeInv' /\ UseInv'
<1>1. [Next]_vars
  BY BindStepIsNext
<1>2. BrokerInv' /\ SafeInv'
  BY <1>1, NextTypes, NextData, NextSafe DEF BrokerInv, AccountInv
<1> QED
  BY <1>2, BindNextInv, HomeNextInv, UseNextInv DEF AccountInv

LEMMA NextAccount ==
  ASSUME Serial, OneHome, AccountInv, [BindNext]_bindVars
  PROVE  AccountInv'
<1>1. BrokerInv' /\ SafeInv' /\ BindInv' /\ HomeInv' /\ UseInv' /\ TypeInv'
  BY NextFoundations DEF BrokerInv
<1>2. ASSUME NEW b \in Binders, HandleBinder(b) \/ CrashBinder(b)
      PROVE  AimInv' /\ UserInv' /\ HeldInv'
  BY <1>2, BinderOwn, OwnAim, OthersAim, BinderUsers, BinderHeld DEF AccountInv, AimInv
<1>3. ASSUME NEW b \in Binders, ReceiveBinder(b)
      PROVE  AimInv' /\ UserInv' /\ HeldInv'
  BY <1>3, ReceiveAim, ReceiveHeld DEF AccountInv, BrokerInv
<1>4. ASSUME Calm
      PROVE  AimInv' /\ UserInv' /\ HeldInv'
  BY <1>1, <1>4, CalmAim, CalmHeld DEF AccountInv, BrokerInv
<1> QED
  BY <1>1, <1>2, <1>3, <1>4, ElsewhereCalm DEF BindNext, AccountInv, BrokerInv, SafeInv

\* Once the platform forgets a binding, no user of it is left, through failed
\* and repeated requests and crashes, as long as the platform asks one thing
\* at a time for a binding, a deployment has one database for bindings, bodies
\* decode and no second deployment bears the name.
THEOREM UnboundIsRevoked ==
  ASSUME Serial, OneHome, Decodes
  PROVE  BindSpec => []Revoked
<1>1. BindInit => AccountInv /\ CleanInv
  BY InitAccount
<1>2. (AccountInv /\ CleanInv) /\ [BindNext]_bindVars => (AccountInv /\ CleanInv)'
  <2> SUFFICES ASSUME AccountInv, CleanInv, [BindNext]_bindVars PROVE CleanInv'
    BY NextAccount
  <2>1. ASSUME NEW b \in Binders, ReceiveBinder(b) \/ HandleBinder(b) \/ CrashBinder(b)
        PROVE  CleanInv'
    BY <2>1, ReceiveClean, BinderClean DEF AccountInv
  <2> QED
    BY <2>1, CalmClean, ElsewhereCalm DEF BindNext, AccountInv, BrokerInv, SafeInv
<1>3. CleanInv => Revoked
  BY DEF CleanInv
<1> QED
  BY <1>1, <1>2, <1>3, PTL DEF BindSpec

\* A Bind, or an Unbind of credentials in use, that no failure hits succeeds,
\* whatever failed requests for the same binding have left behind.
THEOREM UnhitRequestsSucceed ==
  ASSUME Serial, OneHome
  PROVE  BindSpec => []RequestsSucceed
<1>1. BindInit => AccountInv /\ DoneInv
  BY InitAccount
<1>2. (AccountInv /\ DoneInv) /\ [BindNext]_bindVars => (AccountInv /\ DoneInv)'
  <2> SUFFICES ASSUME AccountInv, DoneInv, [BindNext]_bindVars PROVE DoneInv'
    BY NextAccount
  <2>1. ASSUME NEW b \in Binders, ReceiveBinder(b) \/ HandleBinder(b) \/ CrashBinder(b)
        PROVE  DoneInv'
    BY <2>1, ReceiveDone, BinderDone DEF AccountInv
  <2> QED
    BY <2>1, CalmDone, ElsewhereCalm DEF BindNext, AccountInv, BrokerInv, SafeInv
<1>3. DoneInv => RequestsSucceed
  BY DEF DoneInv
<1> QED
  BY <1>1, <1>2, <1>3, PTL DEF BindSpec
=============================================================================
