--------------------------- MODULE BindingsProofs ---------------------------
(***************************************************************************)
(* Proofs about Bindings for every set of binders, bindings and databases, *)
(* next to any asynchronous operations.                                    *)
(***************************************************************************)
EXTENDS BindingsProperties, BrokerProofs

---------------------------------------------------------------------------
(* Bindings and the asynchronous operations next to each other.            *)

\* To the asynchronous operations a step of a binder is none.
LEMMA BindStepIsNext ==
  ASSUME [BindNext]_bindVars
  PROVE  [Next]_vars
<1>1. CASE BrokerStep
  BY <1>1 DEF BrokerStep
<1>2. CASE \E b \in Binders : ReceiveBinder(b) \/ HandleBinder(b) \/ CrashBinder(b)
  BY <1>2 DEF ReceiveBinder, HandleBinder, CrashBinder, ListForBinder, GetForBinder, Lookup,
              UpdateUser, CreateUser, RemoveUser
<1>3. CASE \E d \in DOMAIN deployments : Write(d) \/ Drop(d)
  BY <1>3 DEF Write, Drop
<1>4. CASE UNCHANGED bindVars
  BY <1>4 DEF bindVars
<1> QED
  BY <1>1, <1>2, <1>3, <1>4 DEF BindNext

\* Bindings take nothing from the asynchronous operations and give nothing to
\* them: what is proved of Broker holds next to any bindings.
THEOREM BindingsLeaveBroker == BindSpec => Spec
<1>1. BindInit => Init
  BY DEF BindInit
<1>2. [BindNext]_bindVars => [Next]_vars
  BY BindStepIsNext
<1> QED
  BY <1>1, <1>2, PTL DEF BindSpec, Spec

\* No step of Broker removes a deployment, it only ends its life.
LEMMA DeploymentsStay ==
  ASSUME Next
  PROVE  DOMAIN deployments \subseteq DOMAIN deployments'
<1>1. ASSUME NEW r \in Requests, Receive(r) \/ Crash(r)
      PROVE  UNCHANGED deployments
  BY <1>1 DEF Receive, Crash, composeVars
<1>2. ASSUME NEW r \in Requests, NEW name, NEW type, NEW space, NEW data, NEW from,
             NewDeployment(r, name, type, space, data, from)
      PROVE  DOMAIN deployments \subseteq DOMAIN deployments'
  BY <1>2 DEF NewDeployment, With
<1>3. ASSUME NEW r \in Requests, Handle(r)
      PROVE  DOMAIN deployments \subseteq DOMAIN deployments'
  <2>1. CASE List(r) \/ Get(r) \/ GetBackups(r) \/ Poll(r)
    BY <2>1 DEF List, Get, GetBackups, Poll, Reads, composeVars
  <2>2. CASE Create(r)
    BY <2>2, <1>2 DEF Create, composeVars
  <2>3. CASE Restore(r)
    BY <2>3, <1>2 DEF Restore, composeVars
  <2>4. CASE Patch(r)
    BY <2>4 DEF Patch, SetSpace, composeVars
  <2>5. CASE AddWhitelist(r) \/ Cleanup(r) \/ Deprovision(r) \/ Update(r)
    BY <2>5 DEF AddWhitelist, Cleanup, Deprovision, Update, LastCall, NewRecipe, composeVars
  <2> QED
    BY <1>3, <2>1, <2>2, <2>3, <2>4, <2>5 DEF Handle
<1>4. CASE ComposeStep
  BY <1>4 DEF ComposeStep, Progress, TakeBackup
<1> QED
  BY <1>1, <1>3, <1>4 DEF Next, Quiet, vars, composeVars

---------------------------------------------------------------------------
(* Types of the binders, and what each has when it goes on.                *)

BindInv == BindTypeOK /\ WorkInv

Stages == {"idle", "list", "get", "lookup", "update", "create", "remove", "done"}
Answer == {"none", "created", "ok", "gone", "failed", "dropped"}

\* A handler's answer after a failure is an answer.
LEMMA FailureIsAnswer == \A answer : Failure(answer) \in Answer
BY DEF Failure, Answer

\* A binder goes on or ends, and has what its next call needs.
LEMMA StepInv ==
  ASSUME BindInv, NEW b \in Binders, at[b] # "idle",
         UNCHANGED <<deployments, ask, databases>>,
         \/ \E stage \in Stages \ {"idle"} : Proceed(b, stage)
         \/ \E answer \in Answer : Tell(b, answer),
         (\E wrong \in BOOLEAN : Spoil(b, wrong)) \/ UNCHANGED spoiled,
         target' \in [Binders -> DOMAIN deployments \cup {Nil}],
         dbName' \in [Binders -> Databases \cup {Nil}],
         accounts' \in [DOMAIN deployments -> SUBSET Account],
         \A c \in Binders \ {b} : target'[c] = target[c] /\ dbName'[c] = dbName[c],
         at'[b] # "done" \/ dbName'[b] # Nil => target'[b] \in DOMAIN deployments,
         at'[b] \in {"update", "create", "remove"} => dbName'[b] # Nil,
         at'[b] \in {"list", "get", "lookup"} => dbName'[b] = Nil
  PROVE  BindInv'
<1>1. /\ at' \in [Binders -> Stages]
      /\ told' \in [Binders -> Answer]
      /\ holder' \in [BindingIds -> Binders \cup {Nil}]
      /\ forgotten' \in [BindingIds -> Binders \cup {Nil}]
      /\ \A c \in Binders \ {b} : at'[c] = at[c]
      /\ at'[b] # "idle"
  BY DEF Proceed, Tell, BindInv, BindTypeOK, Stages, Answer
<1>2. spoiled' \in [Binders -> BOOLEAN]
  BY Zenon DEF Spoil, BindInv, BindTypeOK
<1>3. BindTypeOK'
  BY <1>1, <1>2 DEF BindInv, BindTypeOK, Stages, Answer
<1>4. WorkInv'
  BY <1>1 DEF BindInv, WorkInv, Stages
<1> QED
  BY <1>3, <1>4 DEF BindInv

LEMMA ReceiveBinderInv ==
  ASSUME BindInv, NEW b \in Binders, ReceiveBinder(b)
  PROVE  BindInv'
<1>1. PICK op \in {"Bind", "Unbind"}, x \in BindingIds :
        /\ ask' = [ask EXCEPT ![b] =
             [op |-> op, binding |-> x, held |-> IF op = "Unbind" THEN holder[x] ELSE Nil]]
        /\ holder' = [holder EXCEPT ![x] = IF op = "Unbind" THEN Nil ELSE @]
        /\ forgotten' = [forgotten EXCEPT ![x] = IF op = "Bind" THEN Nil ELSE @]
  BY DEF ReceiveBinder
<1>2. /\ at[b] = "idle" /\ at' = [at EXCEPT ![b] = "list"]
      /\ UNCHANGED <<deployments, target, dbName, told, databases, accounts, spoiled>>
  BY DEF ReceiveBinder, vars, composeVars
<1>3. [op |-> op, binding |-> x, held |-> IF op = "Unbind" THEN holder[x] ELSE Nil] \in Ask
  BY DEF BindInv, BindTypeOK, Ask
<1>4. BindTypeOK'
  BY <1>1, <1>2, <1>3 DEF BindInv, BindTypeOK
<1>5. WorkInv'
  BY <1>1, <1>2 DEF BindInv, BindTypeOK, WorkInv
<1> QED
  BY <1>4, <1>5 DEF BindInv

LEMMA ListForBinderInv ==
  ASSUME BindInv, NEW b \in Binders, ListForBinder(b)
  PROVE  BindInv'
<1>1. /\ at[b] = "list"
      /\ UNCHANGED <<deployments, ask, dbName, databases, accounts>>
  BY DEF ListForBinder, vars, composeVars
<1>2. dbName[b] = Nil
  BY <1>1 DEF BindInv, WorkInv
<1>3. PICK answer \in ReadAnswers :
        /\ Spoil(b, answer # "ok")
        /\ \/ /\ \E d \in DOMAIN deployments : target' = [target EXCEPT ![b] = d]
              /\ Proceed(b, "get")
           \/ (\E reason \in Answer : Tell(b, reason)) /\ UNCHANGED target
  <2>1. "gone" \in Answer /\ \A name : Named(name) \subseteq DOMAIN deployments
    BY DEF Answer, Named
  <2> QED
    BY <2>1, FailureIsAnswer DEF ListForBinder
<1>4. \E wrong \in BOOLEAN : Spoil(b, wrong)
  BY <1>3
<1>5. CASE Proceed(b, "get") /\ \E d \in DOMAIN deployments : target' = [target EXCEPT ![b] = d]
  <2>1. at'[b] = "get" /\ "get" \in Stages \ {"idle"}
    BY <1>5 DEF Proceed, BindInv, BindTypeOK, Stages
  <2>2. /\ target' \in [Binders -> DOMAIN deployments \cup {Nil}]
        /\ target'[b] \in DOMAIN deployments
        /\ \A c \in Binders \ {b} : target'[c] = target[c]
    BY <1>5 DEF BindInv, BindTypeOK
  <2>3. dbName' \in [Binders -> Databases \cup {Nil}] /\ accounts' \in [DOMAIN deployments -> SUBSET Account]
    BY <1>1 DEF BindInv, BindTypeOK
  <2> QED
    BY <1>1, <1>2, <1>4, <1>5, <2>1, <2>2, <2>3, StepInv
<1>6. CASE (\E reason \in Answer : Tell(b, reason)) /\ UNCHANGED target
  <2>1. at'[b] = "done"
    BY <1>6 DEF Tell, BindInv, BindTypeOK
  <2>2. /\ target' \in [Binders -> DOMAIN deployments \cup {Nil}]
        /\ dbName' \in [Binders -> Databases \cup {Nil}]
        /\ accounts' \in [DOMAIN deployments -> SUBSET Account]
    BY <1>1, <1>6 DEF BindInv, BindTypeOK
  <2> QED
    BY <1>1, <1>2, <1>4, <1>6, <2>1, <2>2, StepInv
<1> QED
  BY <1>3, <1>5, <1>6

\* The same for a step that only moves a binder on and works on accounts.
LEMMA CallInv ==
  ASSUME BindInv, NEW b \in Binders, at[b] \notin {"idle", "done"},
         UNCHANGED <<deployments, ask, target, dbName, databases>>,
         accounts' \in [DOMAIN deployments -> SUBSET Account],
         (\E wrong \in BOOLEAN : Spoil(b, wrong)) \/ UNCHANGED spoiled,
         \/ at[b] = "get" /\ Proceed(b, "lookup")
         \/ at[b] = "update" /\ Proceed(b, "create")
         \/ \E answer \in Answer : Tell(b, answer)
  PROVE  BindInv'
<1>1. /\ target' \in [Binders -> DOMAIN deployments \cup {Nil}]
      /\ dbName' \in [Binders -> Databases \cup {Nil}]
  BY DEF BindInv, BindTypeOK
<1>2. CASE \E answer \in Answer : Tell(b, answer)
  <2>1. at'[b] = "done"
    BY <1>2 DEF Tell, BindInv, BindTypeOK
  <2> QED
    BY <1>1, <1>2, <2>1, StepInv DEF BindInv, WorkInv
<1>3. CASE at[b] = "get" /\ Proceed(b, "lookup")
  <2>1. at'[b] = "lookup" /\ "lookup" \in Stages \ {"idle"}
    BY <1>3 DEF Proceed, BindInv, BindTypeOK, Stages
  <2> QED
    BY <1>1, <1>3, <2>1, StepInv DEF BindInv, WorkInv
<1>4. CASE at[b] = "update" /\ Proceed(b, "create")
  <2>1. at'[b] = "create" /\ "create" \in Stages \ {"idle"}
    BY <1>4 DEF Proceed, BindInv, BindTypeOK, Stages
  <2> QED
    BY <1>1, <1>4, <2>1, StepInv DEF BindInv, WorkInv
<1> QED
  BY <1>2, <1>3, <1>4

LEMMA GetForBinderInv ==
  ASSUME BindInv, NEW b \in Binders, GetForBinder(b)
  PROVE  BindInv'
<1>1. /\ at[b] = "get"
      /\ UNCHANGED <<deployments, ask, target, dbName, databases, accounts>>
  BY DEF GetForBinder, vars, composeVars
<1>2. (\E wrong \in BOOLEAN : Spoil(b, wrong)) \/ UNCHANGED spoiled
  BY DEF GetForBinder
<1>3. Proceed(b, "lookup") \/ \E answer \in Answer : Tell(b, answer)
  BY DEF GetForBinder, Engine, Mongo, Elastic, Answer
<1>4. accounts' \in [DOMAIN deployments -> SUBSET Account]
  BY <1>1 DEF BindInv, BindTypeOK
<1> QED
  BY <1>1, <1>2, <1>3, <1>4, CallInv

LEMMA LookupInv ==
  ASSUME BindInv, NEW b \in Binders, Lookup(b)
  PROVE  BindInv'
<1>1. /\ at[b] = "lookup"
      /\ UNCHANGED <<deployments, ask, target, databases, accounts>>
  BY DEF Lookup, vars, composeVars
<1>2. /\ target' \in [Binders -> DOMAIN deployments \cup {Nil}]
      /\ accounts' \in [DOMAIN deployments -> SUBSET Account]
      /\ target'[b] \in DOMAIN deployments
  BY <1>1 DEF BindInv, BindTypeOK, WorkInv
<1>3. CASE Tell(b, "failed") /\ Spoil(b, TRUE) /\ UNCHANGED dbName
  <2>1. accounts' \in [DOMAIN deployments -> SUBSET Account] /\ "failed" \in Answer
    BY <1>1 DEF BindInv, BindTypeOK, Answer
  <2> QED
    BY <1>1, <1>3, <2>1, CallInv
<1>4. CASE /\ \E name \in Databases : dbName' = [dbName EXCEPT ![b] = name]
           /\ Proceed(b, IF ask[b].op = "Bind" THEN "update" ELSE "remove")
           /\ UNCHANGED spoiled
  <2>1. PICK name \in Databases : dbName' = [dbName EXCEPT ![b] = name]
    BY <1>4
  <2>2. /\ dbName' \in [Binders -> Databases \cup {Nil}]
        /\ dbName'[b] # Nil
        /\ \A c \in Binders \ {b} : dbName'[c] = dbName[c]
    BY <2>1, BindingAssumption DEF BindInv, BindTypeOK
  <2>3. PICK stage \in {"update", "remove"} : Proceed(b, stage)
    BY <1>4
  <2>4. at'[b] = stage /\ stage \in Stages \ {"idle"}
    BY <2>3 DEF Proceed, BindInv, BindTypeOK, Stages
  <2> QED
    BY <1>1, <1>2, <1>4, <2>2, <2>3, <2>4, StepInv
<1> QED
  BY <1>3, <1>4 DEF Lookup

\* The users stay users whatever a command does to those of one binding.
LEMMA CommandTypes ==
  ASSUME BindInv, NEW b \in Binders, at[b] \in {"update", "create", "remove"},
         NEW mine \in SUBSET ({NewAccount(b)} \cup MyAccounts(b)),
         SetAccounts(b, mine) \/ UNCHANGED accounts, UNCHANGED deployments
  PROVE  accounts' \in [DOMAIN deployments -> SUBSET Account]
<1>1. target[b] \in DOMAIN deployments /\ dbName[b] \in Databases /\ ask[b].binding \in BindingIds
  BY DEF BindInv, BindTypeOK, WorkInv
<1>2. NewAccount(b) \in Account /\ MyAccounts(b) \subseteq Account
  BY <1>1 DEF NewAccount, Account, MyAccounts, BindInv, BindTypeOK
<1> QED
  BY <1>1, <1>2 DEF SetAccounts, BindInv, BindTypeOK

\* The three commands, in one: what they do to accounts and to the binder.
LEMMA CommandShape ==
  ASSUME NEW b \in Binders, UpdateUser(b) \/ CreateUser(b) \/ RemoveUser(b)
  PROVE  /\ at[b] \in {"update", "create", "remove"}
         /\ UNCHANGED <<deployments, ask, target, dbName, databases>>
         /\ UNCHANGED accounts \/ \E mine \in {{}, {NewAccount(b)}} : SetAccounts(b, mine)
         /\ (\E wrong \in BOOLEAN : Spoil(b, wrong)) \/ UNCHANGED spoiled
         /\ \/ at[b] = "update" /\ Proceed(b, "create")
            \/ \E answer \in Answer : Tell(b, answer)
<1>1. UNCHANGED vars => UNCHANGED deployments
  BY DEF vars, composeVars
<1>2. \A answer : Spoil(b, ~Live(target[b])) => \E wrong \in BOOLEAN : Spoil(b, wrong)
  BY DEF Live
<1>3. {"created", "ok", "failed"} \subseteq Answer
  BY DEF Answer
<1>4. CASE UpdateUser(b)
  BY <1>1, <1>3, <1>4 DEF UpdateUser, NewPassword, Command
<1>5. CASE CreateUser(b)
  BY <1>1, <1>3, <1>5 DEF CreateUser, Command
<1>6. CASE RemoveUser(b)
  BY <1>1, <1>2, <1>3, <1>6 DEF RemoveUser, Remove, Command
<1> QED
  BY <1>4, <1>5, <1>6

LEMMA CommandInv ==
  ASSUME BindInv, NEW b \in Binders, UpdateUser(b) \/ CreateUser(b) \/ RemoveUser(b)
  PROVE  BindInv'
<1>1. accounts' \in [DOMAIN deployments -> SUBSET Account]
  BY CommandShape, CommandTypes
<1> QED
  BY <1>1, CommandShape, CallInv

LEMMA CrashBinderInv ==
  ASSUME BindInv, NEW b \in Binders, CrashBinder(b)
  PROVE  BindInv'
<1>1. /\ at[b] \notin {"idle", "done"} /\ Tell(b, "dropped") /\ Spoil(b, TRUE)
      /\ UNCHANGED <<deployments, ask, target, dbName, databases, accounts>>
  BY DEF CrashBinder, vars, composeVars
<1>2. accounts' \in [DOMAIN deployments -> SUBSET Account] /\ "dropped" \in Answer
  BY <1>1 DEF BindInv, BindTypeOK, Answer
<1> QED
  BY <1>1, <1>2, CallInv

\* Applications only change which databases are listed.
LEMMA WriteDropInv ==
  ASSUME BindInv, NEW d \in DOMAIN deployments, Write(d) \/ Drop(d)
  PROVE  BindInv'
<1>1. UNCHANGED <<deployments, binderLocals, accounts, history>>
  BY DEF Write, Drop, vars, composeVars
<1>2. databases' \in [DOMAIN deployments -> SUBSET Databases]
  BY DEF Write, Drop, BindInv, BindTypeOK, Account
<1> QED
  BY <1>1, <1>2 DEF BindInv, BindTypeOK, WorkInv, binderLocals, history

LEMMA BrokerStepInv ==
  ASSUME BindInv, BrokerStep
  PROVE  BindInv'
<1>1. DOMAIN deployments \subseteq DOMAIN deployments'
  BY DeploymentsStay DEF BrokerStep
<1>2. UNCHANGED <<at, ask, target, dbName, told, holder, forgotten, spoiled>>
  BY DEF BrokerStep, binderLocals, history
<1>3. databases' \in [DOMAIN deployments' -> SUBSET Databases]
  BY DatabaseAssumption DEF BrokerStep, Populated, BindInv, BindTypeOK
<1>4. accounts' \in [DOMAIN deployments' -> SUBSET Account]
  BY DEF BrokerStep, Populated, BindInv, BindTypeOK
<1> QED
  BY <1>1, <1>2, <1>3, <1>4 DEF BindInv, BindTypeOK, WorkInv

LEMMA BindInitInv == BindInit => BindInv
<1> SUFFICES ASSUME BindInit PROVE BindInv
  OBVIOUS
<1>1. databases \in [DOMAIN deployments -> SUBSET Databases]
  BY DatabaseAssumption DEF BindInit
<1> QED
  BY <1>1 DEF BindInit, BindInv, BindTypeOK, WorkInv, Ask

LEMMA BindNextInv == BindInv /\ [BindNext]_bindVars => BindInv'
<1> SUFFICES ASSUME BindInv, [BindNext]_bindVars PROVE BindInv'
  OBVIOUS
<1>1. ASSUME NEW b \in Binders, ReceiveBinder(b) \/ HandleBinder(b) \/ CrashBinder(b)
      PROVE  BindInv'
  BY <1>1, ReceiveBinderInv, ListForBinderInv, GetForBinderInv, LookupInv, CommandInv,
     CrashBinderInv DEF HandleBinder
<1>2. CASE UNCHANGED bindVars
  BY <1>2 DEF bindVars, vars, composeVars, binderLocals, history, BindInv, BindTypeOK, WorkInv
<1> QED
  BY <1>1, <1>2, WriteDropInv, BrokerStepInv DEF BindNext

\* Every binder holds deployments, databases and answers of the right kind,
\* and every deployment, also one that is made meanwhile, has its databases
\* and users.
THEOREM BindTypesCorrect == BindSpec => []BindTypeOK
<1>1. BindInv => BindTypeOK
  BY DEF BindInv
<1> QED
  BY <1>1, BindInitInv, BindNextInv, PTL DEF BindSpec

---------------------------------------------------------------------------
(* The database of a deployment.                                           *)

\* The users that a step of one binder changes are in the database that it
\* looked up.
LEMMA CommandHome ==
  ASSUME BindInv, HomeInv, NEW b \in Binders, UpdateUser(b) \/ CreateUser(b) \/ RemoveUser(b)
  PROVE  HomeInv'
<1>1. /\ dbName[b] # Nil /\ target[b] \in DOMAIN deployments
      /\ UNCHANGED <<deployments, target, dbName, databases>>
  BY CommandShape DEF BindInv, WorkInv
<1>2. IsHome(target[b], dbName[b])
  BY <1>1 DEF HomeInv
<1>3. \A d \in DOMAIN deployments : \A a \in accounts'[d] :
        a \in accounts[d] \/ (d = target[b] /\ a = NewAccount(b))
  BY <1>1, CommandShape DEF SetAccounts, BindInv, BindTypeOK
<1>4. NewAccount(b).db = dbName[b]
  BY DEF NewAccount
<1>5. \A d, name : IsHome(d, name)' = IsHome(d, name)
  BY <1>1 DEF IsHome, Candidates
<1> QED
  BY <1>1, <1>2, <1>3, <1>4, <1>5 DEF HomeInv, Candidates

\* The other steps of a binder change no users; the database that is looked
\* up is the deployment's.
LEMMA BinderHome ==
  ASSUME BindInv, HomeInv, NEW b \in Binders,
         ReceiveBinder(b) \/ HandleBinder(b) \/ CrashBinder(b)
  PROVE  HomeInv'
<1>1. CASE UpdateUser(b) \/ CreateUser(b) \/ RemoveUser(b)
  BY <1>1, CommandHome
<1>2. CASE ReceiveBinder(b) \/ GetForBinder(b) \/ CrashBinder(b)
  <2>1. UNCHANGED <<deployments, target, dbName, databases, accounts>>
    BY <1>2 DEF ReceiveBinder, GetForBinder, CrashBinder, vars, composeVars
  <2> QED
    BY <2>1 DEF HomeInv, IsHome, Candidates
<1>3. CASE ListForBinder(b)
  <2>1. /\ UNCHANGED <<deployments, dbName, databases, accounts>>
        /\ dbName[b] = Nil
        /\ \A c \in Binders \ {b} : target'[c] = target[c]
    BY <1>3 DEF ListForBinder, vars, composeVars, BindInv, BindTypeOK, WorkInv
  <2> QED
    BY <2>1 DEF HomeInv, IsHome, Candidates
<1>4. CASE Lookup(b)
  <2>1. /\ UNCHANGED <<deployments, target, databases, accounts>>
        /\ target[b] \in DOMAIN deployments
        /\ \/ UNCHANGED dbName
           \/ \E name \in Databases :
                IsDatabaseName(target[b], name) /\ dbName' = [dbName EXCEPT ![b] = name]
    BY <1>4 DEF Lookup, vars, composeVars, BindInv, WorkInv
  <2>2. \A name : IsDatabaseName(target[b], name) => IsHome(target[b], name)
    BY <2>1 DEF IsDatabaseName, IsHome, HomeInv, Candidates, Ours
  <2>3. \A d, name : IsHome(d, name)' = IsHome(d, name)
    BY <2>1 DEF IsHome, Candidates
  <2> QED
    BY <2>1, <2>2, <2>3 DEF HomeInv, Candidates, BindInv, BindTypeOK
<1> QED
  BY <1>1, <1>2, <1>3, <1>4 DEF HandleBinder

\* Writing makes the database of a user listed, which is the only one that
\* could be; dropping hides it, and then the default name is taken, which is
\* the same.
LEMMA WriteDropHome ==
  ASSUME OneHome, BindInv, HomeInv, NEW d \in DOMAIN deployments, Write(d) \/ Drop(d)
  PROVE  HomeInv'
<1>1. UNCHANGED <<deployments, target, dbName, accounts>>
  BY DEF Write, Drop, vars, composeVars, binderLocals
<1>2. PICK a \in accounts[d] :
        \/ databases' = [databases EXCEPT ![d] = @ \cup {a.db}]
        \/ /\ a.db \in Droppable \cap databases[d]
           /\ databases' = [databases EXCEPT ![d] = @ \ {a.db}]
  BY DEF Write, Drop
<1>3. IsHome(d, a.db)
  BY DEF HomeInv
<1>4. /\ databases' \in [DOMAIN deployments -> SUBSET Databases]
      /\ \A e \in DOMAIN deployments \ {d} : databases'[e] = databases[e]
  BY <1>2 DEF BindInv, BindTypeOK, Account
<1>5. \A name : IsHome(d, name) => name = a.db
  BY <1>3 DEF IsHome
<1>6. Candidates(d)' \subseteq {a.db}
  BY <1>2, <1>3 DEF IsHome, Candidates, BindInv, BindTypeOK
<1>7. Candidates(d)' = {} => a.db = Default
  BY <1>2, <1>3 DEF IsHome, Candidates, BindInv, BindTypeOK, OneHome
<1>8. \A e \in DOMAIN deployments : \A name : IsHome(e, name) => IsHome(e, name)'
  <2>1. ASSUME NEW name, IsHome(d, name) PROVE IsHome(d, name)'
    BY <1>3, <1>5, <1>6, <1>7, <2>1 DEF IsHome
  <2>2. ASSUME NEW e \in DOMAIN deployments \ {d}, NEW name, IsHome(e, name)
        PROVE  IsHome(e, name)'
    BY <1>4, <2>2 DEF IsHome, Candidates
  <2> QED
    BY <2>1, <2>2
<1>9. \A e \in DOMAIN deployments : \A x, y \in Candidates(e)' : x = y
  BY <1>4, <1>6 DEF HomeInv, Candidates
<1>10. \A b \in Binders : dbName[b] # Nil => target[b] \in DOMAIN deployments
  BY DEF BindInv, WorkInv
<1> QED
  BY <1>1, <1>8, <1>9, <1>10 DEF HomeInv

\* A new deployment has no users yet.
LEMMA BrokerStepHome ==
  ASSUME OneHome, BindInv, HomeInv, BrokerStep
  PROVE  HomeInv'
<1>1. DOMAIN deployments \subseteq DOMAIN deployments'
  BY DeploymentsStay DEF BrokerStep
<1>2. PICK contents \in Contents :
        databases' = [d \in DOMAIN deployments' |->
                        IF d \in DOMAIN deployments THEN databases[d] ELSE contents]
  BY DEF BrokerStep, Populated
<1>3. UNCHANGED <<target, dbName>>
  BY DEF BrokerStep, binderLocals
<1>4. \A d \in DOMAIN deployments : databases'[d] = databases[d] /\ accounts'[d] = accounts[d]
  BY <1>1, <1>2 DEF BrokerStep, Populated
<1>5. \A d \in DOMAIN deployments' \ DOMAIN deployments :
        databases'[d] = contents /\ accounts'[d] = {}
  BY <1>2 DEF BrokerStep, Populated
<1>6. \A d \in DOMAIN deployments : \A name : IsHome(d, name)' = IsHome(d, name)
  BY <1>4 DEF IsHome, Candidates
<1>7. \A d \in DOMAIN deployments' : \A x, y \in Candidates(d)' : x = y
  BY <1>4, <1>5 DEF HomeInv, Candidates, OneHome
<1>8. \A d \in DOMAIN deployments' : \A a \in accounts'[d] : IsHome(d, a.db)'
  BY <1>4, <1>5, <1>6 DEF HomeInv
<1>9. \A b \in Binders : dbName[b] # Nil => IsHome(target[b], dbName[b])'
  BY <1>3, <1>6 DEF HomeInv, BindInv, WorkInv
<1> QED
  BY <1>3, <1>7, <1>8, <1>9 DEF HomeInv

LEMMA HomeInitInv ==
  ASSUME OneHome, BindInit
  PROVE  HomeInv
BY DEF BindInit, HomeInv, Candidates, OneHome

LEMMA HomeNextInv ==
  ASSUME OneHome, BindInv, HomeInv, [BindNext]_bindVars
  PROVE  HomeInv'
<1>1. CASE UNCHANGED bindVars
  BY <1>1 DEF bindVars, vars, composeVars, binderLocals, HomeInv, IsHome, Candidates
<1> QED
  BY <1>1, BinderHome, WriteDropHome, BrokerStepHome DEF BindNext

\* All bindings of a deployment share one database, whoever binds when and
\* whatever applications write and drop, as long as a deployment comes with
\* at most one database to choose from and no database but the default one is
\* emptied.  What has to be carried along is that a name looked up earlier is
\* still the one that a look-up would find.
THEOREM BindingsShareDatabase ==
  ASSUME OneHome
  PROVE  BindSpec => []SameDatabase
<1>1. BindInit => BindInv /\ HomeInv
  BY HomeInitInv, BindInitInv
<1>2. (BindInv /\ HomeInv) /\ [BindNext]_bindVars => (BindInv /\ HomeInv)'
  BY HomeNextInv, BindNextInv
<1>3. BindInv /\ HomeInv => SameDatabase
  BY DEF SameDatabase, HomeInv, BindInv, WorkInv, IsHome
<1> QED
  BY <1>1, <1>2, <1>3, PTL DEF BindSpec

---------------------------------------------------------------------------
(* The credentials in use.                                                 *)

UseInv == SerialInv /\ HolderInv

\* What a serial platform sends keeps its bindings apart; an Unbind takes the
\* credentials out of use when it comes in.
LEMMA ReceiveUse ==
  ASSUME Serial, BindInv, UseInv, NEW b \in Binders, ReceiveBinder(b)
  PROVE  UseInv'
<1>1. PICK op \in {"Bind", "Unbind"}, x \in BindingIds :
        /\ MaySend(op, x)
        /\ ask' = [ask EXCEPT ![b] =
             [op |-> op, binding |-> x, held |-> IF op = "Unbind" THEN holder[x] ELSE Nil]]
        /\ holder' = [holder EXCEPT ![x] = IF op = "Unbind" THEN Nil ELSE @]
  BY DEF ReceiveBinder
<1>2. /\ at[b] = "idle" /\ at' = [at EXCEPT ![b] = "list"]
      /\ UNCHANGED <<target, dbName, accounts>>
  BY DEF ReceiveBinder
<1>3. /\ \A c \in Binders \ {b} : Working(c) => ask[c].binding # x
      /\ holder'[x] = Nil
      /\ \A y \in BindingIds \ {x} : holder'[y] = holder[y]
  BY <1>1 DEF MaySend, Working, BindInv, BindTypeOK
<1>4. /\ ask'[b].binding = x /\ Working(b)'
      /\ \A c \in Binders \ {b} : ask'[c] = ask[c] /\ (Working(c)' <=> Working(c))
  BY <1>1, <1>2 DEF Working, BindInv, BindTypeOK
<1>5. SerialInv'
  <2> SUFFICES ASSUME NEW c \in Binders, Working(c)'
               PROVE  /\ holder'[ask'[c].binding] = Nil
                      /\ \A e \in Binders \ {c} : Working(e)' => ask'[e].binding # ask'[c].binding
    BY DEF SerialInv
  <2>1. CASE c = b
    BY <1>3, <1>4, <2>1
  <2>2. CASE c # b
    <3>1. Working(c) /\ ask[c].binding \in BindingIds \ {x}
      BY <1>3, <1>4, <2>2 DEF BindInv, WorkInv, Working
    <3> QED
      BY <1>3, <1>4, <2>2, <3>1 DEF UseInv, SerialInv
  <2> QED
    BY <2>1, <2>2
<1>6. HolderInv'
  <2> SUFFICES ASSUME NEW y \in BindingIds, holder'[y] # Nil
               PROVE  LET c == holder'[y]
                      IN  /\ at'[c] = "done"
                          /\ dbName[c] # Nil =>
                               [db |-> dbName[c], binding |-> y, password |-> c] \in accounts[target[c]]
    BY <1>2 DEF HolderInv
  <2>1. y # x /\ holder'[y] = holder[y]
    BY <1>3
  <2>2. holder[y] \in Binders /\ at[holder[y]] = "done" /\ holder[y] # b
    BY <1>2, <2>1 DEF UseInv, HolderInv, BindInv, BindTypeOK
  <2> QED
    BY <1>2, <2>1, <2>2 DEF UseInv, HolderInv, BindInv, BindTypeOK
<1> QED
  BY <1>5, <1>6 DEF UseInv

\* A binder at work moves on or ends, and whatever it does to users, it does
\* to those of its own binding, which is not in use.  If it ends with
\* credentials, its user is there.
LEMMA WorkerUse ==
  ASSUME BindInv, UseInv, NEW b \in Binders, Working(b), UNCHANGED ask,
         \/ \E stage \in Stages : Proceed(b, stage)
         \/ \E answer \in Answer : Tell(b, answer),
         \A c \in Binders \ {b} : target'[c] = target[c] /\ dbName'[c] = dbName[c],
         \A d \in DOMAIN deployments : \A a \in accounts[d] :
           a \in accounts'[d] \/ a.binding = ask[b].binding,
         Tell(b, "created") /\ dbName'[b] # Nil =>
           [db |-> dbName'[b], binding |-> ask[b].binding, password |-> b] \in accounts'[target'[b]]
  PROVE  UseInv'
<1> DEFINE x == ask[b].binding
<1>1. x \in BindingIds /\ holder[x] = Nil
  BY DEF BindInv, WorkInv, UseInv, SerialInv, Working
<1>2. \A c \in Binders \ {b} : at'[c] = at[c] /\ (Working(c)' <=> Working(c))
  BY DEF Proceed, Tell, BindInv, BindTypeOK, Working
<1>3. \/ UNCHANGED holder
      \/ /\ Tell(b, "created") /\ at'[b] = "done"
         /\ holder' = [holder EXCEPT ![x] = b]
  BY DEF Proceed, Tell, BindInv, BindTypeOK
<1>4. \A y \in BindingIds \ {x} : holder'[y] = holder[y]
  BY <1>3 DEF BindInv, BindTypeOK
<1>5. SerialInv'
  <2> SUFFICES ASSUME NEW c \in Binders, Working(c)'
               PROVE  /\ holder'[ask[c].binding] = Nil
                      /\ \A e \in Binders \ {c} : Working(e)' => ask[e].binding # ask[c].binding
    BY DEF SerialInv
  <2>1. CASE c = b
    <3>1. UNCHANGED holder
      BY <1>3, <2>1 DEF Working
    <3> QED
      BY <1>1, <1>2, <2>1, <3>1 DEF UseInv, SerialInv
  <2>2. CASE c # b
    <3>1. Working(c) /\ ask[c].binding \in BindingIds \ {x}
      BY <1>2, <2>2 DEF UseInv, SerialInv, BindInv, WorkInv, Working
    <3> QED
      BY <1>2, <1>4, <2>2, <3>1 DEF UseInv, SerialInv
  <2> QED
    BY <2>1, <2>2
<1>6. HolderInv'
  <2> SUFFICES ASSUME NEW y \in BindingIds, holder'[y] # Nil
               PROVE  LET c == holder'[y]
                      IN  /\ at'[c] = "done"
                          /\ dbName'[c] # Nil =>
                               [db |-> dbName'[c], binding |-> y, password |-> c] \in accounts'[target'[c]]
    BY DEF HolderInv
  <2>1. CASE y = x
    BY <1>1, <1>3, <2>1 DEF BindInv, BindTypeOK
  <2>2. CASE y # x
    <3> DEFINE c == holder[y]
    <3>1. holder'[y] = c /\ c \in Binders /\ at[c] = "done" /\ c # b
      BY <1>4, <2>2 DEF UseInv, HolderInv, BindInv, BindTypeOK, Working
    <3>2. ASSUME dbName[c] # Nil
          PROVE  [db |-> dbName[c], binding |-> y, password |-> c] \in accounts'[target[c]]
      <4>1. /\ [db |-> dbName[c], binding |-> y, password |-> c] \in accounts[target[c]]
            /\ target[c] \in DOMAIN deployments
        BY <3>1, <3>2 DEF UseInv, HolderInv, BindInv, WorkInv
      <4> QED
        BY <2>2, <4>1
    <3> QED
      BY <1>2, <3>1, <3>2
  <2> QED
    BY <2>1, <2>2
<1> QED
  BY <1>5, <1>6 DEF UseInv

\* A new deployment, or another list of databases, changes no user.
LEMMA OthersUse ==
  ASSUME BindInv, UseInv, UNCHANGED <<binderLocals, holder>>,
         \A d \in DOMAIN deployments : accounts'[d] = accounts[d]
  PROVE  UseInv'
<1>1. SerialInv'
  BY DEF UseInv, SerialInv, Working, binderLocals
<1>2. HolderInv'
  <2> SUFFICES ASSUME NEW x \in BindingIds, holder[x] # Nil
               PROVE  LET b == holder[x]
                      IN  /\ at[b] = "done"
                          /\ dbName[b] # Nil =>
                               [db |-> dbName[b], binding |-> x, password |-> b] \in accounts'[target[b]]
    BY DEF HolderInv, binderLocals
  <2>1. holder[x] \in Binders
    BY DEF BindInv, BindTypeOK
  <2>2. dbName[holder[x]] # Nil => target[holder[x]] \in DOMAIN deployments
    BY <2>1 DEF BindInv, WorkInv
  <2> QED
    BY <2>2 DEF UseInv, HolderInv
<1> QED
  BY <1>1, <1>2 DEF UseInv

LEMMA HandleUse ==
  ASSUME BindInv, UseInv, NEW b \in Binders, HandleBinder(b) \/ CrashBinder(b)
  PROVE  UseInv'
<1>1. CASE ListForBinder(b)
  <2>1. /\ at[b] = "list" /\ UNCHANGED <<ask, dbName, accounts>>
        /\ \A c \in Binders \ {b} : target'[c] = target[c]
        /\ Proceed(b, "get") \/ \E answer \in Answer \ {"created"} : Tell(b, answer)
    BY <1>1 DEF ListForBinder, Failure, Answer, BindInv, BindTypeOK
  <2>2. Working(b) /\ "get" \in Stages /\ dbName[b] = Nil
    BY <2>1 DEF Working, Stages, BindInv, WorkInv
  <2> QED
    BY <2>1, <2>2, WorkerUse
<1>2. CASE GetForBinder(b)
  <2>1. /\ at[b] = "get" /\ UNCHANGED <<ask, target, dbName, accounts>>
        /\ Proceed(b, "lookup") \/ \E answer \in Answer : Tell(b, answer)
    BY <1>2 DEF GetForBinder, Engine, Mongo, Elastic, Answer
  <2>2. Working(b) /\ "lookup" \in Stages /\ dbName[b] = Nil
    BY <2>1 DEF Working, Stages, BindInv, WorkInv
  <2> QED
    BY <2>1, <2>2, WorkerUse
<1>3. ASSUME NEW answer, Tell(b, answer), answer # "created"
      PROVE  ~Tell(b, "created")
  BY <1>3 DEF Tell, BindInv, BindTypeOK
<1>4. CASE Lookup(b)
  <2>1. /\ at[b] = "lookup" /\ UNCHANGED <<ask, target, accounts>>
        /\ \A c \in Binders \ {b} : dbName'[c] = dbName[c]
        /\ (\E stage \in {"update", "remove"} : Proceed(b, stage)) \/ Tell(b, "failed")
    BY <1>4 DEF Lookup, BindInv, BindTypeOK
  <2>2. Working(b) /\ {"update", "remove"} \subseteq Stages /\ "failed" \in Answer
    BY <2>1 DEF Working, Stages, Answer
  <2>3. ~Tell(b, "created")
    <3>1. ASSUME NEW stage \in {"update", "remove"}, Proceed(b, stage)
          PROVE  ~Tell(b, "created")
      BY <3>1 DEF Proceed, Tell, BindInv, BindTypeOK
    <3> QED
      BY <1>3, <2>1, <3>1
  <2> QED
    BY <2>1, <2>2, <2>3, WorkerUse
<1>5. CASE CrashBinder(b)
  <2>1. /\ Working(b) /\ UNCHANGED <<ask, target, dbName, accounts>>
        /\ Tell(b, "dropped") /\ "dropped" \in Answer
    BY <1>5 DEF CrashBinder, Working, Answer
  <2> QED
    BY <1>3, <2>1, WorkerUse
<1>6. CASE UpdateUser(b) \/ CreateUser(b) \/ RemoveUser(b)
  <2>1. /\ Working(b) /\ UNCHANGED <<deployments, ask, target, dbName>>
        /\ UNCHANGED accounts \/ \E mine \in {{}, {NewAccount(b)}} : SetAccounts(b, mine)
        /\ \/ \E stage \in Stages : Proceed(b, stage)
           \/ \E answer \in Answer : Tell(b, answer)
    BY <1>6, CommandShape DEF Working, Stages
  <2>2. target[b] \in DOMAIN deployments
    BY <1>6, CommandShape DEF BindInv, WorkInv
  <2>3. \A d \in DOMAIN deployments : \A a \in accounts[d] :
          a \in accounts'[d] \/ a.binding = ask[b].binding
    BY <2>1 DEF SetAccounts, MyAccounts, BindInv, BindTypeOK
  <2>4. ~Tell(b, "created") \/ SetAccounts(b, {NewAccount(b)})
    <3>1. CASE UpdateUser(b)
      <4>1. CASE Proceed(b, "create")
        BY <4>1 DEF Proceed, Tell, BindInv, BindTypeOK
      <4> QED
        BY <1>3, <3>1, <4>1 DEF UpdateUser, NewPassword, Command
    <3>2. CASE CreateUser(b)
      BY <1>3, <3>2 DEF CreateUser, Command
    <3>3. CASE RemoveUser(b)
      BY <1>3, <3>3 DEF RemoveUser, Remove, Command
    <3> QED
      BY <1>6, <3>1, <3>2, <3>3
  <2>5. SetAccounts(b, {NewAccount(b)}) =>
          [db |-> dbName[b], binding |-> ask[b].binding, password |-> b] \in accounts'[target[b]]
    BY <2>2 DEF SetAccounts, NewAccount, BindInv, BindTypeOK
  <2> QED
    BY <2>1, <2>3, <2>4, <2>5, WorkerUse
<1> QED
  BY <1>1, <1>2, <1>4, <1>5, <1>6 DEF HandleBinder

LEMMA UseInitInv ==
  ASSUME BindInit
  PROVE  UseInv
BY DEF BindInit, UseInv, SerialInv, HolderInv, Working

LEMMA UseNextInv ==
  ASSUME Serial, BindInv, UseInv, [BindNext]_bindVars
  PROVE  UseInv'
<1>1. CASE \E d \in DOMAIN deployments : Write(d) \/ Drop(d)
  BY <1>1, OthersUse DEF Write, Drop, history
<1>2. CASE BrokerStep
  <2>1. \A d \in DOMAIN deployments : accounts'[d] = accounts[d]
    BY <1>2, DeploymentsStay DEF BrokerStep, Populated
  <2> QED
    BY <1>2, <2>1, OthersUse DEF BrokerStep, history
<1>3. CASE UNCHANGED bindVars
  BY <1>3, OthersUse DEF bindVars, history
<1> QED
  BY <1>1, <1>2, <1>3, ReceiveUse, HandleUse DEF BindNext

\* As long as the platform asks one thing at a time for a binding, the
\* credentials an application holds keep working, through failed and repeated
\* requests, crashes, whatever other bindings do and whatever is dropped.
THEOREM CredentialsKeepWorking ==
  ASSUME Serial
  PROVE  BindSpec => []CredentialsWork
<1>1. BindInit => BindInv /\ UseInv
  BY UseInitInv, BindInitInv
<1>2. (BindInv /\ UseInv) /\ [BindNext]_bindVars => (BindInv /\ UseInv)'
  BY UseNextInv, BindNextInv
<1>3. UseInv => CredentialsWork
  BY DEF UseInv, HolderInv, CredentialsWork
<1> QED
  BY <1>1, <1>2, <1>3, PTL DEF BindSpec
=============================================================================
