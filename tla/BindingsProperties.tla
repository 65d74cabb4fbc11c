------------------------- MODULE BindingsProperties -------------------------
(***************************************************************************)
(* What bindings promise to applications and to the platform.              *)
(***************************************************************************)
EXTENDS Bindings, BrokerProperties

\* The credentials for a database that an application holds work, whatever
\* became of requests for the same binding before them and of other bindings
\* since: the deployment still has that user, in that database, with that
\* password.
CredentialsWork ==
  \A x \in BindingIds :
    LET b == holder[x]
    IN  b # Nil /\ dbName[b] # Nil =>
          [db |-> dbName[b], binding |-> x, password |-> b] \in accounts[target[b]]

\* Once the platform forgets a binding, because its Unbind was answered with
\* success or with "instance does not exist", no user of that binding is left
\* on any deployment of the instance, also not one that an earlier Bind made
\* before it failed.  An instance with two deployments is not meant.
Revoked ==
  \A x \in BindingIds : forgotten[x] # Nil /\ Single(InstanceOf[x]) =>
    \A d \in Named(InstanceOf[x]) : \A a \in accounts[d] : a.binding # x

\* All bindings of a deployment that are given a database are given the same
\* one, so that applications see each other's data, as
\* integration_tests/mongodb_test.go relies on.
SameDatabase ==
  \A b, c \in Binders :
    /\ told[b] = "created" /\ told[c] = "created" /\ target[b] = target[c]
    /\ Nil \notin {dbName[b], dbName[c]}
    => dbName[b] = dbName[c]

\* A Bind, or an Unbind of credentials in use, that no failure hits does what
\* it is asked: it does not matter what an earlier, failed request left behind
\* nor what applications did to the databases meanwhile.  Only of two
\* deployments of one name an Unbind may find the other.
RequestsSucceed ==
  \A b \in Binders :
    /\ at[b] = "done" /\ ~spoiled[b] /\ told[b] # "gone"
    /\ deployments[target[b]].type \in {"mongodb", "elastic_search"}
    /\ ask[b].op = "Unbind" => ask[b].held # Nil /\ Single(InstanceOf[ask[b].binding])
    => told[b] = IF ask[b].op = "Bind" THEN "created" ELSE "ok"

---------------------------------------------------------------------------
(* The inductive invariants behind SameDatabase and CredentialsWork.       *)

\* A binder has what its next call needs, and keeps its database to the end.
WorkInv ==
  \A b \in Binders :
    /\ at[b] # "idle" => ask[b].binding \in BindingIds
    /\ at[b] \in {"get", "lookup", "update", "create", "remove"} =>
         target[b] \in DOMAIN deployments
    /\ at[b] \in {"update", "create", "remove"} => dbName[b] # Nil
    /\ at[b] \in {"idle", "list", "get", "lookup"} => dbName[b] = Nil
    /\ dbName[b] # Nil => target[b] \in DOMAIN deployments

\* A deployment comes with at most one database a binding may be in, and only
\* the default one is ever dropped.
OneHome ==
  /\ \A contents \in Contents : \A x, y \in contents \cap Ours : x = y
  /\ Droppable \subseteq {Default}

\* name is the only database GetDatabaseName can return for d.
IsHome(d, name) ==
  /\ name \in Ours
  /\ \A other \in Candidates(d) : other = name
  /\ Candidates(d) = {} => name = Default

\* Whatever was looked up, whenever it was, is what would be looked up now.
HomeInv ==
  /\ \A d \in DOMAIN deployments :
       /\ \A x, y \in Candidates(d) : x = y
       /\ \A a \in accounts[d] : IsHome(d, a.db)
  /\ \A b \in Binders : dbName[b] # Nil => IsHome(target[b], dbName[b])

Working(b) == at[b] \notin {"idle", "done"}

\* With a serial platform nobody works on a binding that is in use, nor two
\* on one binding.
SerialInv ==
  \A b \in Binders : Working(b) =>
    /\ holder[ask[b].binding] = Nil
    /\ \A c \in Binders \ {b} : Working(c) => ask[c].binding # ask[b].binding

\* The Bind whose credentials are in use is over, and its user is there.
HolderInv ==
  \A x \in BindingIds :
    LET b == holder[x]
    IN  b # Nil =>
          /\ at[b] = "done"
          /\ dbName[b] # Nil =>
               [db |-> dbName[b], binding |-> x, password |-> b] \in accounts[target[b]]
---------------------------------------------------------------------------
(* The inductive invariants behind Revoked and RequestsSucceed, on top of  *)
(* those above.                                                            *)

\* What a binder works on is a deployment of its instance, and a MongoDB one
\* if it works on a database; a user that was not there is not there yet when
\* it is created.
Aim(b) ==
  /\ at[b] \in {"idle", "list"} => target[b] = Nil
  /\ at[b] # "idle" => ask[b].op # "none"
  /\ target[b] \in DOMAIN deployments =>
       deployments[target[b]].name = InstanceOf[ask[b].binding]
  /\ at[b] \in {"lookup", "update", "create", "remove"} \/ dbName[b] # Nil =>
       deployments[target[b]].type = "mongodb"
  /\ at[b] \in {"update", "create"} => ask[b].op = "Bind"
  /\ at[b] = "remove" => ask[b].op = "Unbind"
  /\ at[b] = "create" => MyAccounts(b) = {}

AimInv == \A b \in Binders : Aim(b)

\* Only MongoDB deployments have users.
UserInv ==
  \A d \in DOMAIN deployments : accounts[d] # {} => deployments[d].type = "mongodb"

\* c gave out credentials for x, and the user they need is still there.
Gave(c, x) ==
  /\ c \in Binders /\ at[c] = "done"
  /\ target[c] \in DOMAIN deployments
  /\ deployments[target[c]].name = InstanceOf[x]
  /\ dbName[c] = Nil => deployments[target[c]].type # "mongodb"
  /\ dbName[c] # Nil =>
       [db |-> dbName[c], binding |-> x, password |-> c] \in accounts[target[c]]

\* Credentials in use work, and those that an Unbind is to revoke still do.
HeldInv ==
  /\ \A x \in BindingIds : holder[x] # Nil => Gave(holder[x], x)
  /\ \A b \in Binders : Working(b) /\ ask[b].held # Nil => Gave(ask[b].held, ask[b].binding)

\* Nobody binds what the platform has forgotten.
CleanInv ==
  /\ Revoked
  /\ \A b \in Binders : Working(b) /\ ask[b].op = "Bind" => forgotten[ask[b].binding] = Nil

\* A request that went well got as far as a deployment.
DoneInv ==
  /\ RequestsSucceed
  /\ \A b \in Binders : at[b] = "done" /\ ~spoiled[b] /\ told[b] # "gone" =>
       target[b] \in DOMAIN deployments
=============================================================================
