------------------------------ MODULE Startup ------------------------------
(***************************************************************************)
(* How the processes of the broker come to serve: main.go with config.New, *)
(* catalog.Load and broker.New, under Cloud Foundry, which starts every    *)
(* process again that stopped.                                             *)
(*                                                                         *)
(* What a process reads at its start it keeps until it stops: the          *)
(* environment, the account and the cluster.  Meanwhile Compose may have   *)
(* replaced the cluster, and another start may have had another            *)
(* environment.  Provision and Deprovision are here only as far as they    *)
(* depend on that: a deployment is made and looked for in one step.        *)
(***************************************************************************)
EXTENDS Naturals, Sequences

CONSTANTS
  Processes,     \* the processes of the application: manifest.yml has two
  Environments,  \* what operators start it with
  Trimmed,       \* DB_PREFIX -> the same without spaces around it
  Fields,        \* entry of IP_WHITELIST -> how many parts its dots make
  AccountOf,     \* API key -> the account it is for
  NameOf,        \* identifier of a cluster -> its name
  Instances,     \* service instances, each provisioned once
  MaxChanges,    \* bound: how often operators and Compose change something
  None           \* an absent cluster, account, environment or configuration

VARIABLES
  env,         \* what the application was last started with
  stage,       \* process -> what main does next
  conf,        \* process -> broker.Config
  account,     \* process -> broker.AccountID
  clusterID,   \* process -> broker.ClusterID
  clusters,    \* the clusters Compose has
  made,        \* instance -> its deployment, while it has one
  forgotten,   \* instance -> the environment the platform forgot it under
  cause,       \* history: process -> what stopped it the last time
  changes      \* how much operators and Compose have changed

own == <<stage, conf, account, clusterID, cause>>
startVars == <<env, own, clusters, made, forgotten, changes>>

\* "" is a variable that is not set: os.Getenv does not tell them apart.
\* IP_WHITELIST is the list of what its commas separate, <<>> for "".
Environment ==
  [LOG_LEVEL : STRING, USERNAME : STRING, PASSWORD : STRING, DB_PREFIX : DOMAIN Trimmed \cup {""},
   COMPOSE_API_KEY : DOMAIN AccountOf \cup {""}, CLUSTER_NAME : STRING,
   IP_WHITELIST : Seq(DOMAIN Fields), catalog : {"whole", "undecodable", "missing"}]

DefaultPrefix == "compose-broker"

ASSUME EnvironmentAssumption == Environments # {} /\ Environments \subseteq Environment

ASSUME PrefixAssumption == DefaultPrefix \in DOMAIN Trimmed /\ "" \notin DOMAIN Trimmed

ASSUME ClusterAssumption ==
  /\ None \notin DOMAIN NameOf /\ None \notin Environments
  /\ \A id \in DOMAIN NameOf : NameOf[id] # ""

ASSUME ChangeAssumption == MaxChanges \in Nat

---------------------------------------------------------------------------
(* config.New.                                                             *)

\* The keys of logLevels; New maps a level to upper case first.
logLevels == {"DEBUG", "INFO", "ERROR", "FATAL"}

\* ParseIPWhitelist takes an entry of four parts for an address.
WellFormed(e) == \A i \in DOMAIN e.IP_WHITELIST : Fields[e.IP_WHITELIST[i]] = 4

\* Seeded fault for StartTypeOK: a password is not insisted on.
AcceptedWithoutPassword(e) ==
  /\ e.LOG_LEVEL \in logLevels \cup {""}
  /\ "" \notin {e.USERNAME, e.COMPOSE_API_KEY}
  /\ WellFormed(e)

\* Seeded fault for ComesUp: CLUSTER_NAME is insisted on.
AcceptedWithCluster(e) ==
  /\ e.LOG_LEVEL \in logLevels \cup {""}
  /\ "" \notin {e.USERNAME, e.PASSWORD, e.COMPOSE_API_KEY, e.CLUSTER_NAME}
  /\ WellFormed(e)

\* New returns no error.
Accepted(e) ==
  /\ e.LOG_LEVEL \in logLevels \cup {""}
  /\ "" \notin {e.USERNAME, e.PASSWORD, e.COMPOSE_API_KEY}
  /\ WellFormed(e)

Config(e) ==
  [Username |-> e.USERNAME, Password |-> e.PASSWORD, APIToken |-> e.COMPOSE_API_KEY,
   DBPrefix |-> IF e.DB_PREFIX = "" THEN DefaultPrefix ELSE e.DB_PREFIX,
   ClusterName |-> e.CLUSTER_NAME, IPWhitelist |-> e.IP_WHITELIST]

ASSUME ConfigAssumption == \A e \in Environments : Config(e) # None

---------------------------------------------------------------------------

StartInit ==
  /\ env \in Environments
  /\ stage = [p \in Processes |-> "config"]
  /\ conf = [p \in Processes |-> None]
  /\ account = [p \in Processes |-> None]
  /\ clusterID = [p \in Processes |-> None]
  /\ clusters \in SUBSET DOMAIN NameOf
  /\ made = [i \in {} |-> i]
  /\ forgotten = [i \in Instances |-> None]
  /\ cause = [p \in Processes |-> "none"]
  /\ changes = 0

Enter(p, next) == stage' = [stage EXCEPT ![p] = next]

\* os.Exit, a panic, or the end of main: what the process knew is lost.
Stop(p) ==
  /\ Enter(p, "down") /\ cause' = [cause EXCEPT ![p] = stage[p]]
  /\ conf' = [conf EXCEPT ![p] = None] /\ account' = [account EXCEPT ![p] = None]
  /\ clusterID' = [clusterID EXCEPT ![p] = None]

Configure(p) ==
  /\ stage[p] = "config"
  /\ \/ /\ Accepted(env) /\ Enter(p, "catalog")
        /\ conf' = [conf EXCEPT ![p] = Config(env)]
        /\ UNCHANGED <<account, clusterID, cause>>
     \/ ~Accepted(env) /\ Stop(p)
  /\ UNCHANGED <<env, clusters, made, forgotten, changes>>

\* Opening, decoding and closing the catalog file; decoding yields what the
\* file holds, whether or not there is a service in it.
Load(p) ==
  /\ stage[p] = "catalog"
  /\ \/ /\ env.catalog = "whole" /\ Enter(p, "account")
        /\ UNCHANGED <<conf, account, clusterID, cause>>
     \/ env.catalog # "whole" /\ Stop(p)
  /\ UNCHANGED <<env, clusters, made, forgotten, changes>>

\* broker.New: an error of GetAccount ends main; a body without an account,
\* or no response, is a panic.
GetAccount(p) ==
  /\ stage[p] = "account"
  /\ \/ /\ account' = [account EXCEPT ![p] = AccountOf[conf[p].APIToken]]
        /\ Enter(p, IF conf[p].ClusterName = "" THEN "listen" ELSE "cluster")
        /\ UNCHANGED <<conf, clusterID, cause>>
     \/ Stop(p)
  /\ UNCHANGED <<env, clusters, made, forgotten, changes>>

\* Seeded fault for PlacedAsConfigured: without its cluster, a process uses
\* hosted Compose.
NoClusterIsHosted(p) ==
  Enter(p, "listen") /\ UNCHANGED <<conf, account, clusterID, cause>>

\* GetClusterByName returns an error.
NoCluster(p) == Stop(p)

\* GetClusterByName: a list that does not decode holds no cluster either.
GetClusterByName(p) ==
  /\ stage[p] = "cluster"
  /\ \/ /\ \E id \in clusters :
             NameOf[id] = conf[p].ClusterName /\ clusterID' = [clusterID EXCEPT ![p] = id]
        /\ Enter(p, "listen") /\ UNCHANGED <<conf, account, cause>>
     \/ NoCluster(p)
  /\ UNCHANGED <<env, clusters, made, forgotten, changes>>

\* ListenAndServe returns only with an error, after which main is over.
Listen(p) ==
  /\ stage[p] = "listen"
  /\ \/ Enter(p, "serving") /\ UNCHANGED <<conf, account, clusterID, cause>>
     \/ Stop(p)
  /\ UNCHANGED <<env, clusters, made, forgotten, changes>>

---------------------------------------------------------------------------
(* Requests.                                                               *)

\* Seeded fault for NothingOrphaned: the prefix is used as it is.
MakeUntrimmedName(prefix, i) == <<prefix, i>>

MakeInstanceName(prefix, i) == <<Trimmed[prefix], i>>

\* createDeployment, and likewise the restore of a backup.
Provision(p, i) ==
  /\ stage[p] = "serving" /\ i \notin DOMAIN made /\ forgotten[i] = None
  /\ made' = [j \in DOMAIN made \cup {i} |->
       IF j # i THEN made[j]
       ELSE [env |-> env, name |-> MakeInstanceName(conf[p].DBPrefix, i),
             account |-> account[p], cluster |-> clusterID[p]]]
  /\ UNCHANGED <<env, own, clusters, forgotten, changes>>

\* The deployments findDeployment finds for i: of the account of its key.
Found(p, i) ==
  {j \in DOMAIN made :
     /\ made[j].name = MakeInstanceName(conf[p].DBPrefix, i)
     /\ made[j].account = AccountOf[conf[p].APIToken]}

\* Deprovision takes what it finds away, or says that the instance is gone;
\* in either case the platform forgets the instance.
Deprovision(p, i) ==
  /\ stage[p] = "serving" /\ i \in DOMAIN made /\ forgotten[i] = None
  /\ made' = [j \in DOMAIN made \ Found(p, i) |-> made[j]]
  /\ forgotten' = [forgotten EXCEPT ![i] = env]
  /\ UNCHANGED <<env, own, clusters, changes>>

---------------------------------------------------------------------------
(* The platform and Compose.                                               *)

\* Cloud Foundry starts a stopped process again, in the same environment.
Restart(p) ==
  /\ stage[p] = "down" /\ Enter(p, "config")
  /\ UNCHANGED <<env, conf, account, clusterID, clusters, made, forgotten, cause, changes>>

\* A process that serves is killed, or moved to another machine.
Kill(p) ==
  /\ stage[p] = "serving" /\ Stop(p)
  /\ UNCHANGED <<env, clusters, made, forgotten, changes>>

Change == changes < MaxChanges /\ changes' = changes + 1

\* cf restart: all processes stop before one is started, with the variables
\* that were set meanwhile.
StartApplication ==
  /\ Change
  /\ env' \in Environments
  /\ stage' = [p \in Processes |-> "config"]
  /\ conf' = [p \in Processes |-> None] /\ account' = [p \in Processes |-> None]
  /\ clusterID' = [p \in Processes |-> None] /\ cause' = [p \in Processes |-> "none"]
  /\ UNCHANGED <<clusters, made, forgotten>>

\* Clusters come and go.
ChangeClusters ==
  /\ Change
  /\ clusters' \in SUBSET DOMAIN NameOf
  /\ UNCHANGED <<env, own, made, forgotten>>

Starting(p) == Configure(p) \/ Load(p) \/ GetAccount(p) \/ GetClusterByName(p) \/ Listen(p)

StartNext ==
  \/ \E p \in Processes : Starting(p) \/ Restart(p) \/ Kill(p)
  \/ \E p \in Processes, i \in Instances : Provision(p, i) \/ Deprovision(p, i)
  \/ StartApplication \/ ChangeClusters

StartSpec == StartInit /\ [][StartNext]_startVars

\* A process runs on; Cloud Foundry starts one again that stopped; and of the
\* calls a start needs, each succeeds at last when it is made again and again.
FairStartSpec ==
  /\ StartSpec
  /\ \A p \in Processes :
       /\ WF_startVars(Starting(p)) /\ WF_startVars(Restart(p))
       /\ SF_startVars(GetAccount(p) /\ stage'[p] # "down")
       /\ SF_startVars(GetClusterByName(p) /\ stage'[p] # "down")
       /\ SF_startVars(Listen(p) /\ stage'[p] # "down")
=============================================================================
