------------------------------ MODULE Bindings ------------------------------
(***************************************************************************)
(* Bind and Unbind of broker/broker.go with the engines of dbengine/, next *)
(* to the asynchronous operations of module Broker.                        *)
(*                                                                         *)
(* A binder is one Bind or Unbind.  It looks its deployment up as the      *)
(* other handlers do, and then works on the database itself: a binding of  *)
(* a MongoDB deployment is a user of one of its databases, which database  *)
(* is asked anew each time.  Elasticsearch has no users to make: every     *)
(* binding gets the administrator's credentials and revoking does nothing. *)
(***************************************************************************)
EXTENDS Broker

CONSTANTS
  Binders,       \* the Bind and Unbind requests, each one used once
  InstanceOf,    \* binding -> the instance it is for
  Databases,     \* names of databases
  Default,       \* defaultDatabaseName
  Prefixed,      \* the databases whose names begin with "db_"
  Contents,      \* what a deployment may come with: sets of databases
  Droppable,     \* the databases that applications may empty
  Serial         \* the platform asks one thing at a time for a binding, and
                 \* binds it only while it has no credentials for it

VARIABLES
  at,          \* binder -> the call it makes next, "idle" or "done"
  ask,         \* binder -> what it asks for
  target,      \* binder -> what findDeployment returned
  dbName,      \* binder -> the database GetDatabaseName returned
  told,        \* binder -> the answer to the platform
  databases,   \* deployment -> the databases listDatabases lists
  accounts,    \* deployment -> its users
  holder,      \* history: binding -> the Bind whose credentials are in use
  forgotten,   \* history: binding -> the Unbind the platform forgot it after
  spoiled      \* history: binder -> whether some call of it went wrong

binderLocals == <<at, ask, target, dbName, told>>
history == <<holder, forgotten, spoiled>>
bindVars == <<vars, binderLocals, databases, accounts, history>>

BindingIds == DOMAIN InstanceOf

ASSUME BindingAssumption ==
  /\ InstanceOf \in [BindingIds -> Instances]
  /\ Nil \notin Binders \cup BindingIds \cup Databases
  /\ Serial \in BOOLEAN

ASSUME DatabaseAssumption ==
  /\ {Default} \cup Prefixed \cup Droppable \subseteq Databases
  /\ Contents \subseteq SUBSET Databases /\ Contents # {}

\* held: for an Unbind, the Bind whose credentials it is to revoke.
Ask == [op : {"none", "Bind", "Unbind"}, binding : BindingIds \cup {Nil},
        held : Binders \cup {Nil}]

\* A user: makeUserName names it after its binding, and the password is a
\* random one, named here after the Bind that made it.
Account == [db : Databases, binding : BindingIds, password : Binders]

BindTypeOK ==
  /\ at \in [Binders -> {"idle", "list", "get", "lookup", "update", "create", "remove", "done"}]
  /\ ask \in [Binders -> Ask]
  /\ target \in [Binders -> DOMAIN deployments \cup {Nil}]
  /\ dbName \in [Binders -> Databases \cup {Nil}]
  /\ told \in [Binders -> {"none", "created", "ok", "gone", "failed", "dropped"}]
  /\ databases \in [DOMAIN deployments -> SUBSET Databases]
  /\ accounts \in [DOMAIN deployments -> SUBSET Account]
  /\ holder \in [BindingIds -> Binders \cup {Nil}]
  /\ forgotten \in [BindingIds -> Binders \cup {Nil}]
  /\ spoiled \in [Binders -> BOOLEAN]

BindInit ==
  /\ Init
  /\ at = [b \in Binders |-> "idle"]
  /\ ask = [b \in Binders |-> [op |-> "none", binding |-> Nil, held |-> Nil]]
  /\ target = [b \in Binders |-> Nil]
  /\ dbName = [b \in Binders |-> Nil]
  /\ told = [b \in Binders |-> "none"]
  /\ databases \in [DOMAIN deployments -> Contents]
  /\ accounts = [d \in DOMAIN deployments |-> {}]
  /\ holder = [x \in BindingIds |-> Nil]
  /\ forgotten = [x \in BindingIds |-> Nil]
  /\ spoiled = [b \in Binders |-> FALSE]

---------------------------------------------------------------------------
Proceed(b, call) == at' = [at EXCEPT ![b] = call] /\ UNCHANGED <<told, holder, forgotten>>

\* The handler returns.  The application gets the credentials of a Bind that
\* is answered so; the platform forgets a binding once an Unbind of it, or
\* the absence of its instance, is reported.
Tell(b, answer) ==
  LET x == ask[b].binding
      forgets == ask[b].op = "Unbind" /\ answer \in {"ok", "gone"}
  IN  /\ at' = [at EXCEPT ![b] = "done"]
      /\ told' = [told EXCEPT ![b] = answer]
      /\ holder' = IF answer = "created" THEN [holder EXCEPT ![x] = b] ELSE holder
      /\ forgotten' = IF forgets THEN [forgotten EXCEPT ![x] = b] ELSE forgotten

\* Some call of b did not go as it should.
Spoil(b, wrong) == spoiled' = [spoiled EXCEPT ![b] = @ \/ wrong]

\* The platform's side: whether it sends this request now.
MaySend(op, x) ==
  Serial => /\ \A c \in Binders : at[c] \in {"idle", "done"} \/ ask[c].binding # x
            /\ op = "Bind" => holder[x] = Nil

ReceiveBinder(b) ==
  /\ at[b] = "idle"
  /\ \E op \in {"Bind", "Unbind"}, x \in BindingIds :
       /\ MaySend(op, x)
       /\ ask' = [ask EXCEPT ![b] =
            [op |-> op, binding |-> x, held |-> IF op = "Unbind" THEN holder[x] ELSE Nil]]
       /\ holder' = [holder EXCEPT ![x] = IF op = "Unbind" THEN Nil ELSE @]
       /\ forgotten' = [forgotten EXCEPT ![x] = IF op = "Bind" THEN Nil ELSE @]
  /\ at' = [at EXCEPT ![b] = "list"]
  /\ UNCHANGED <<vars, target, dbName, told, databases, accounts, spoiled>>

---------------------------------------------------------------------------
(* findDeployment again, and the choice of an engine.                      *)

\* How a read ends: see Answers in module Broker.
ReadAnswers == {"ok", "error"} \cup (Faults \cap {"blank", "panic"})

ListForBinder(b) ==
  /\ at[b] = "list"
  /\ \E answer \in ReadAnswers :
       /\ Spoil(b, answer # "ok")
       /\ LET named == Named(InstanceOf[ask[b].binding])
          IN  \/ /\ answer = "ok"
                 /\ \E d \in named : target' = [target EXCEPT ![b] = d]
                 /\ Proceed(b, "get")
              \/ answer = "ok" /\ named = {} /\ Tell(b, "gone") /\ UNCHANGED target
              \/ answer = "blank" /\ Tell(b, "gone") /\ UNCHANGED target
              \/ answer \in {"error", "panic"} /\ Tell(b, Failure(answer)) /\ UNCHANGED target
  /\ UNCHANGED <<vars, ask, dbName, databases, accounts>>

\* Compose has finished making d, so that it has its connection strings.
Provisioned(d) == d \in DOMAIN Existing \/ recipes[d].status = "complete"

\* ElasticSearchEngine: the administrator's credentials come with the
\* connection strings, and there is nothing to revoke.
Elastic(b, strings) ==
  \/ ask[b].op = "Unbind" /\ Tell(b, "ok")
  \/ /\ ask[b].op = "Bind"
     /\ \/ strings = "usable" /\ Tell(b, "created")
        \/ strings = "unmatched" /\ Tell(b, "dropped")
        \/ strings \in {"missing", "unparsable"} /\ Tell(b, "failed")

\* MongoEngine: it goes on to the database if it can be dialled.
Mongo(b, strings) == IF strings = "usable" THEN Proceed(b, "lookup") ELSE Tell(b, "failed")

\* Seeded fault for RequestsSucceed: Elasticsearch is not among the engines.
EngineOfMongoOnly(b, strings) ==
  IF deployments[target[b]].type = "mongodb" THEN Mongo(b, strings) ELSE Tell(b, "failed")

\* GetDBEngine.
Engine(b, strings) ==
  LET type == deployments[target[b]].type
  IN  \/ type = "mongodb" /\ Mongo(b, strings)
      \/ type = "elastic_search" /\ Elastic(b, strings)
      \/ type \notin {"mongodb", "elastic_search"} /\ Tell(b, "failed")

\* The connection strings are missing until the deployment is provisioned;
\* some do not parse; one that fixComposeDirectHostname takes for its own but
\* does not match makes it index an empty match.
GetForBinder(b) ==
  /\ at[b] = "get"
  /\ \/ \E strings \in {"usable", "missing", "unparsable", "unmatched"} :
          /\ Live(target[b])
          /\ strings = "missing" => ~Provisioned(target[b])
          /\ strings = "unmatched" =>
               "panic" \in Faults /\ deployments[target[b]].type = "elastic_search"
          /\ Engine(b, strings) /\ Spoil(b, strings # "usable")
     \/ ~Live(target[b]) /\ Tell(b, "gone") /\ UNCHANGED spoiled
     \/ "panic" \in Faults /\ Tell(b, "dropped") /\ Spoil(b, TRUE)
     \/ Tell(b, "failed") /\ Spoil(b, TRUE)
  /\ UNCHANGED <<vars, ask, target, dbName, databases, accounts>>

---------------------------------------------------------------------------
(* MongoEngine: commands to the deployment's database.                     *)

\* The databases a binding may be in, of those that d lists.
Ours == {Default} \cup Prefixed
Candidates(d) == databases[d] \cap Ours

\* Seeded fault for SameDatabase: any database will do.
AnyListed(d, name) == name \in databases[d] \/ (databases[d] = {} /\ name = Default)

\* GetDatabaseName: the first one listed, in MongoDB's own order.
IsDatabaseName(d, name) ==
  name \in Candidates(d) \/ (Candidates(d) = {} /\ name = Default)

\* Dialling, or the command, fails: nothing has changed yet.
Lookup(b) ==
  /\ at[b] = "lookup"
  /\ \/ /\ Live(target[b])
        /\ \E name \in Databases :
             IsDatabaseName(target[b], name) /\ dbName' = [dbName EXCEPT ![b] = name]
        /\ Proceed(b, IF ask[b].op = "Bind" THEN "update" ELSE "remove")
        /\ UNCHANGED spoiled
     \/ Tell(b, "failed") /\ Spoil(b, TRUE) /\ UNCHANGED dbName
  /\ UNCHANGED <<vars, ask, target, databases, accounts>>

\* The user of b's binding in the database b works in.
MyAccounts(b) ==
  {a \in accounts[target[b]] : a.db = dbName[b] /\ a.binding = ask[b].binding}

SetAccounts(b, mine) ==
  accounts' = [accounts EXCEPT ![target[b]] = (@ \ MyAccounts(b)) \cup mine]

NewAccount(b) == [db |-> dbName[b], binding |-> ask[b].binding, password |-> b]

\* A command whose effect on b's user is mine ends with answer, or with an
\* error, performed or not.
Command(b, mine, answer) ==
  \/ Live(target[b]) /\ SetAccounts(b, mine) /\ Tell(b, answer) /\ UNCHANGED spoiled
  \/ Live(target[b]) /\ SetAccounts(b, mine) /\ Tell(b, "failed") /\ Spoil(b, TRUE)
  \/ UNCHANGED accounts /\ Tell(b, "failed") /\ Spoil(b, TRUE)

\* Seeded fault for CredentialsWork: a user that exists is left as it is.
KeepPassword(b) == Command(b, MyAccounts(b), "created")

\* updateUser on a user that exists.
NewPassword(b) == Command(b, {NewAccount(b)}, "created")

\* Seeded fault for RequestsSucceed: the user is created without looking.
NotAsked(b) == TRUE

\* updateUser answers that there is no such user.
NoSuchUser(b) == MyAccounts(b) = {}

\* UpsertUser: updateUser, and if that finds no user, createUser.
UpdateUser(b) ==
  /\ at[b] = "update"
  /\ \/ NoSuchUser(b) /\ Live(target[b]) /\ Proceed(b, "create") /\ UNCHANGED <<accounts, spoiled>>
     \/ ~NoSuchUser(b) /\ NewPassword(b)
     \/ UNCHANGED accounts /\ Tell(b, "failed") /\ Spoil(b, TRUE)
  /\ UNCHANGED <<vars, ask, target, dbName, databases>>

\* The user may have come to exist meanwhile: then it is an error.
CreateUser(b) ==
  /\ at[b] = "create"
  /\ \/ MyAccounts(b) = {} /\ Command(b, {NewAccount(b)}, "created")
     \/ MyAccounts(b) # {} /\ Tell(b, "failed") /\ UNCHANGED <<accounts, spoiled>>
  /\ UNCHANGED <<vars, ask, target, dbName, databases>>

\* Seeded fault for Revoked: the error of dropUser is not looked at.
RemoveUnchecked(b) == \E mine \in {{}, MyAccounts(b)} :
  SetAccounts(b, mine) /\ Tell(b, "ok") /\ UNCHANGED spoiled

\* dropUser: a user that is not there is an error.
Remove(b) ==
  \/ MyAccounts(b) # {} /\ Command(b, {}, "ok")
  \/ MyAccounts(b) = {} /\ Tell(b, "failed") /\ Spoil(b, ~Live(target[b])) /\ UNCHANGED accounts

RemoveUser(b) ==
  /\ at[b] = "remove" /\ Remove(b)
  /\ UNCHANGED <<vars, ask, target, dbName, databases>>

HandleBinder(b) ==
  \/ ListForBinder(b) \/ GetForBinder(b) \/ Lookup(b)
  \/ UpdateUser(b) \/ CreateUser(b) \/ RemoveUser(b)

\* The process is killed.
CrashBinder(b) ==
  /\ "crash" \in Faults /\ at[b] \notin {"idle", "done"}
  /\ Tell(b, "dropped") /\ Spoil(b, TRUE)
  /\ UNCHANGED <<vars, ask, target, dbName, databases, accounts>>

---------------------------------------------------------------------------
(* Everything else.                                                        *)

\* An application writes: a database with something in it is listed.
Write(d) ==
  /\ Live(d)
  /\ \E a \in accounts[d] : databases' = [databases EXCEPT ![d] = @ \cup {a.db}]
  /\ UNCHANGED <<vars, binderLocals, accounts, history>>

\* An application drops the last collection: an empty database is not listed.
Drop(d) ==
  /\ Live(d)
  /\ \E a \in accounts[d] :
       a.db \in Droppable \cap databases[d] /\ databases' = [databases EXCEPT ![d] = @ \ {a.db}]
  /\ UNCHANGED <<vars, binderLocals, accounts, history>>

\* A deployment that a step makes comes without users, blank or with what its
\* backup held.
Populated ==
  /\ \E contents \in Contents :
       databases' = [d \in DOMAIN deployments' |->
                       IF d \in DOMAIN deployments THEN databases[d] ELSE contents]
  /\ accounts' = [d \in DOMAIN deployments' |->
                    IF d \in DOMAIN deployments THEN accounts[d] ELSE {}]

\* A step of module Broker.
BrokerStep == Next /\ Populated /\ UNCHANGED <<binderLocals, history>>

BindNext ==
  \/ \E b \in Binders : ReceiveBinder(b) \/ HandleBinder(b) \/ CrashBinder(b)
  \/ \E d \in DOMAIN deployments : Write(d) \/ Drop(d)
  \/ BrokerStep

BindSpec == BindInit /\ [][BindNext]_bindVars
=============================================================================
