--------------------------- MODULE StartupProofs ---------------------------
(***************************************************************************)
(* Proofs about Startup for every set of processes, environments, clusters *)
(* and instances, and any number of changes.                               *)
(***************************************************************************)
EXTENDS StartupProperties, TLAPS

\* What config.New returns is complete.
LEMMA ConfigComplete ==
  ASSUME NEW e \in Environments, Accepted(e)
  PROVE  Config(e) \in ConfigType /\ Config(e) # None
<1>1. e \in Environment
  BY EnvironmentAssumption
<1>2. DefaultPrefix \in DOMAIN Trimmed
  BY PrefixAssumption
<1>3. e.USERNAME # "" /\ e.PASSWORD # "" /\ e.COMPOSE_API_KEY # ""
  BY DEF Accepted
<1> QED
  BY <1>1, <1>2, <1>3, ConfigAssumption DEF Config, ConfigType, Environment

LEMMA ConfigFields ==
  ASSUME NEW e
  PROVE  /\ Config(e).APIToken = e.COMPOSE_API_KEY
         /\ Config(e).ClusterName = e.CLUSTER_NAME
         /\ Config(e).DBPrefix = IF e.DB_PREFIX = "" THEN DefaultPrefix ELSE e.DB_PREFIX
  BY DEF Config

\* At the start nothing is known and nothing is made.
LEMMA StartInvHolds == StartInit => StartInv
<1> SUFFICES ASSUME StartInit PROVE StartInv
  OBVIOUS
<1>1. StartTypeOK
  BY ChangeAssumption DEF StartInit, StartTypeOK, Stages
<1>2. KnowsInv
  BY DEF StartInit, KnowsInv
<1>3. PlacedAsConfigured /\ NamesInv /\ NothingOrphaned
  BY DEF StartInit, PlacedAsConfigured, NamesInv, NothingOrphaned
<1> QED
  BY <1>1, <1>2, <1>3 DEF StartInv

\* What was made, and what was forgotten, stays what it is.
LEMMA MadeKept ==
  ASSUME StartInv, UNCHANGED <<made, forgotten>>
  PROVE  PlacedAsConfigured' /\ NamesInv' /\ NothingOrphaned'
  BY DEF StartInv, PlacedAsConfigured, NamesInv, NothingOrphaned, PrefixOf

\* A process that stops knows nothing any more.
LEMMA StopKeeps ==
  ASSUME StartInv, NEW p \in Processes, Stop(p),
         UNCHANGED <<env, clusters, made, forgotten, changes>>
  PROVE  StartTypeOK' /\ KnowsInv'
<1>1. StartTypeOK'
  BY DEF StartInv, StartTypeOK, Stop, Enter, Stages
<1>2. KnowsInv'
  BY DEF StartInv, StartTypeOK, KnowsInv, Stop, Enter, Stages
<1> QED
  BY <1>1, <1>2

\* The steps of a start.
LEMMA StartingKeeps ==
  ASSUME StartInv, NEW p \in Processes, Starting(p)
  PROVE  StartTypeOK' /\ KnowsInv'
<1> USE DEF StartInv
<1>1. CASE Stop(p) /\ UNCHANGED <<env, clusters, made, forgotten, changes>>
  BY <1>1, StopKeeps
<1>2. CASE Configure(p) /\ ~Stop(p)
  <2>1. /\ Accepted(env) /\ stage[p] = "config"
        /\ stage' = [stage EXCEPT ![p] = "catalog"] /\ conf' = [conf EXCEPT ![p] = Config(env)]
        /\ UNCHANGED <<env, account, clusterID, cause, clusters, made, forgotten, changes>>
    BY <1>2 DEF Configure, Enter
  <2>2. Config(env) \in ConfigType /\ Config(env) # None
    BY <2>1, ConfigComplete DEF StartTypeOK
  <2>3. StartTypeOK'
    BY <2>1, <2>2 DEF StartTypeOK, Stages
  <2>4. KnowsInv'
    BY <2>1 DEF StartTypeOK, KnowsInv
  <2> QED
    BY <2>3, <2>4
<1>3. CASE Load(p) /\ ~Stop(p)
  <2>1. /\ stage[p] = "catalog" /\ stage' = [stage EXCEPT ![p] = "account"]
        /\ UNCHANGED <<env, conf, account, clusterID, cause, clusters, made, forgotten, changes>>
    BY <1>3 DEF Load, Enter
  <2>2. StartTypeOK'
    BY <2>1 DEF StartTypeOK, Stages
  <2>3. KnowsInv'
    BY <2>1 DEF StartTypeOK, KnowsInv
  <2> QED
    BY <2>2, <2>3
<1>4. CASE GetAccount(p) /\ ~Stop(p)
  <2> DEFINE next == IF conf[p].ClusterName = "" THEN "listen" ELSE "cluster"
  <2>1. /\ stage[p] = "account" /\ stage' = [stage EXCEPT ![p] = next]
        /\ account' = [account EXCEPT ![p] = AccountOf[conf[p].APIToken]]
        /\ UNCHANGED <<env, conf, clusterID, cause, clusters, made, forgotten, changes>>
    BY <1>4 DEF GetAccount, Enter
  <2>2. conf[p] # None /\ conf[p] \in ConfigType
    BY <2>1 DEF StartTypeOK
  <2>3. conf[p].APIToken \in DOMAIN AccountOf
    BY <2>2 DEF ConfigType
  <2>4. conf[p] = Config(env)
    BY <2>1 DEF KnowsInv
  <2>5. conf[p].APIToken = env.COMPOSE_API_KEY /\ conf[p].ClusterName = env.CLUSTER_NAME
    BY <2>4, ConfigFields
  <2>6. StartTypeOK'
    BY <2>1, <2>3 DEF StartTypeOK, Stages
  <2>7. clusterID[p] = None
    BY <2>1 DEF KnowsInv
  <2>8. KnowsInv'
    BY <2>1, <2>5, <2>7 DEF StartTypeOK, KnowsInv
  <2> QED
    BY <2>6, <2>8
<1>5. CASE GetClusterByName(p) /\ ~Stop(p)
  <2>1. PICK id \in clusters :
          /\ stage[p] = "cluster" /\ stage' = [stage EXCEPT ![p] = "listen"]
          /\ NameOf[id] = conf[p].ClusterName /\ clusterID' = [clusterID EXCEPT ![p] = id]
          /\ UNCHANGED <<env, conf, account, cause, clusters, made, forgotten, changes>>
    BY <1>5 DEF GetClusterByName, NoCluster, Enter
  <2>2. conf[p].ClusterName = env.CLUSTER_NAME
    BY <2>1, ConfigFields DEF KnowsInv
  <2>3. id \in DOMAIN NameOf /\ NameOf[id] # ""
    BY ClusterAssumption DEF StartTypeOK
  <2>4. StartTypeOK'
    BY <2>1, <2>3 DEF StartTypeOK, Stages
  <2>5. KnowsInv'
    BY <2>1, <2>2, <2>3 DEF StartTypeOK, KnowsInv
  <2> QED
    BY <2>4, <2>5
<1>6. CASE Listen(p) /\ ~Stop(p)
  <2>1. /\ stage[p] = "listen" /\ stage' = [stage EXCEPT ![p] = "serving"]
        /\ UNCHANGED <<env, conf, account, clusterID, cause, clusters, made, forgotten, changes>>
    BY <1>6 DEF Listen, Enter
  <2>2. StartTypeOK'
    BY <2>1 DEF StartTypeOK, Stages
  <2>3. KnowsInv'
    BY <2>1 DEF StartTypeOK, KnowsInv
  <2> QED
    BY <2>2, <2>3
<1>7. UNCHANGED <<env, clusters, made, forgotten, changes>>
  BY DEF Starting, Configure, Load, GetAccount, GetClusterByName, Listen
<1> QED
  BY <1>1, <1>2, <1>3, <1>4, <1>5, <1>6, <1>7 DEF Starting

\* Names and accounts are those of the environment a process serves under.
LEMMA ServesAsStarted ==
  ASSUME StartInv, NEW p \in Processes, stage[p] = "serving", NEW i
  PROVE  /\ MakeInstanceName(conf[p].DBPrefix, i) = <<PrefixOf(env), i>>
         /\ AccountOf[conf[p].APIToken] = AccountOf[env.COMPOSE_API_KEY]
         /\ account[p] = AccountOf[env.COMPOSE_API_KEY]
         /\ IF env.CLUSTER_NAME = "" THEN clusterID[p] = None
            ELSE clusterID[p] # None /\ NameOf[clusterID[p]] = env.CLUSTER_NAME
<1>1. conf[p] = Config(env)
  BY DEF StartInv, KnowsInv
<1>2. IF env.CLUSTER_NAME = "" THEN clusterID[p] = None
      ELSE clusterID[p] # None /\ NameOf[clusterID[p]] = env.CLUSTER_NAME
  BY ClusterAssumption DEF StartInv, KnowsInv
<1>3. account[p] = AccountOf[env.COMPOSE_API_KEY]
  BY DEF StartInv, KnowsInv
<1> QED
  BY <1>1, <1>2, <1>3, ConfigFields DEF MakeInstanceName, PrefixOf

\* Provision puts the deployment where it belongs.
LEMMA ProvisionKeeps ==
  ASSUME StartInv, NEW p \in Processes, NEW i \in Instances, Provision(p, i)
  PROVE  StartInv'
<1> DEFINE d == [env |-> env, name |-> MakeInstanceName(conf[p].DBPrefix, i),
                 account |-> account[p], cluster |-> clusterID[p]]
<1>1. /\ DOMAIN made' = DOMAIN made \cup {i} /\ made'[i] = d
      /\ \A j \in DOMAIN made : made'[j] = made[j]
      /\ UNCHANGED <<env, stage, conf, account, clusterID, cause, clusters, forgotten, changes>>
      /\ stage[p] = "serving" /\ forgotten[i] = None
  BY DEF Provision, own
<1>2. /\ d.name = <<PrefixOf(env), i>> /\ d.account = AccountOf[env.COMPOSE_API_KEY]
      /\ IF env.CLUSTER_NAME = "" THEN d.cluster = None
         ELSE d.cluster # None /\ NameOf[d.cluster] = env.CLUSTER_NAME
      /\ d.env = env
  BY <1>1, ServesAsStarted
<1>3. StartTypeOK' /\ KnowsInv'
  BY <1>1 DEF StartInv, StartTypeOK, KnowsInv
<1>4. PlacedAsConfigured'
  <2> SUFFICES ASSUME NEW j \in DOMAIN made'
               PROVE  LET e == made'[j].env
                      IN  /\ made'[j].account = AccountOf[e.COMPOSE_API_KEY]
                          /\ IF e.CLUSTER_NAME = "" THEN made'[j].cluster = None
                             ELSE made'[j].cluster # None /\ NameOf[made'[j].cluster] = e.CLUSTER_NAME
    BY DEF PlacedAsConfigured
  <2>1. CASE j = i
    BY <2>1, <1>1, <1>2
  <2>2. CASE j \in DOMAIN made /\ j # i
    BY <2>2, <1>1 DEF StartInv, PlacedAsConfigured
  <2> QED
    BY <1>1, <2>1, <2>2
<1>5. NamesInv'
  BY <1>1, <1>2 DEF StartInv, NamesInv, PrefixOf
<1>6. NothingOrphaned'
  BY <1>1 DEF StartInv, NothingOrphaned, PrefixOf
<1> QED
  BY <1>3, <1>4, <1>5, <1>6 DEF StartInv

\* Deprovision leaves a deployment only where it does not look for it.
LEMMA DeprovisionKeeps ==
  ASSUME StartInv, NEW p \in Processes, NEW i \in Instances, Deprovision(p, i)
  PROVE  StartInv'
<1>1. /\ DOMAIN made' = DOMAIN made \ Found(p, i)
      /\ \A j \in DOMAIN made' : made'[j] = made[j]
      /\ forgotten' = [forgotten EXCEPT ![i] = env]
      /\ UNCHANGED <<env, stage, conf, account, clusterID, cause, clusters, changes>>
      /\ stage[p] = "serving" /\ i \in DOMAIN made
  BY DEF Deprovision, own
<1>2. StartTypeOK'
  BY <1>1 DEF StartInv, StartTypeOK
<1>3. KnowsInv'
  BY <1>1 DEF StartInv, KnowsInv
<1>4. PlacedAsConfigured' /\ NamesInv'
  BY <1>1 DEF StartInv, PlacedAsConfigured, NamesInv, PrefixOf
<1>5. NothingOrphaned'
  <2> SUFFICES ASSUME NEW j \in DOMAIN made', forgotten'[j] # None
               PROVE  \/ PrefixOf(made'[j].env) # PrefixOf(forgotten'[j])
                      \/ AccountOf[made'[j].env.COMPOSE_API_KEY] # AccountOf[forgotten'[j].COMPOSE_API_KEY]
    BY DEF NothingOrphaned, PrefixOf
  <2>1. CASE j = i
    <3>1. /\ made[i].name = <<PrefixOf(made[i].env), i>>
          /\ made[i].account = AccountOf[made[i].env.COMPOSE_API_KEY]
      BY <1>1 DEF StartInv, NamesInv, PlacedAsConfigured
    <3>2. i \notin Found(p, i)
      BY <2>1, <1>1
    <3>3. \/ <<PrefixOf(made[i].env), i>> # <<PrefixOf(env), i>>
          \/ AccountOf[made[i].env.COMPOSE_API_KEY] # AccountOf[env.COMPOSE_API_KEY]
      BY <1>1, <3>1, <3>2, ServesAsStarted DEF Found
    <3>4. forgotten'[i] = env
      BY <1>1 DEF StartInv, StartTypeOK
    <3> QED
      BY <2>1, <1>1, <3>3, <3>4
  <2>2. CASE j # i
    <3>1. j \in Instances /\ forgotten'[j] = forgotten[j] /\ made'[j] = made[j]
      BY <2>2, <1>1 DEF StartInv, StartTypeOK
    <3> QED
      BY <3>1, <1>1 DEF StartInv, NothingOrphaned
  <2> QED
    BY <2>1, <2>2
<1> QED
  BY <1>2, <1>3, <1>4, <1>5 DEF StartInv

\* Every step preserves the invariant.
LEMMA StartInvKept == StartInv /\ [StartNext]_startVars => StartInv'
<1> SUFFICES ASSUME StartInv, [StartNext]_startVars PROVE StartInv'
  OBVIOUS
<1>1. ASSUME NEW p \in Processes, Starting(p) PROVE StartInv'
  <2>1. UNCHANGED <<made, forgotten>>
    BY <1>1 DEF Starting, Configure, Load, GetAccount, GetClusterByName, Listen
  <2> QED
    BY <1>1, <2>1, StartingKeeps, MadeKept DEF StartInv
<1>2. ASSUME NEW p \in Processes, Restart(p) PROVE StartInv'
  <2>1. StartTypeOK'
    BY <1>2 DEF Restart, Enter, StartInv, StartTypeOK, Stages
  <2>2. KnowsInv'
    BY <1>2 DEF Restart, Enter, StartInv, StartTypeOK, KnowsInv
  <2> QED
    BY <1>2, <2>1, <2>2, MadeKept DEF Restart, StartInv
<1>3. ASSUME NEW p \in Processes, Kill(p) PROVE StartInv'
  BY <1>3, StopKeeps, MadeKept DEF Kill, StartInv
<1>4. ASSUME NEW p \in Processes, NEW i \in Instances, Provision(p, i) PROVE StartInv'
  BY <1>4, ProvisionKeeps
<1>5. ASSUME NEW p \in Processes, NEW i \in Instances, Deprovision(p, i) PROVE StartInv'
  BY <1>5, DeprovisionKeeps
<1>6. CASE StartApplication
  <2>1. StartTypeOK'
    BY <1>6, ChangeAssumption DEF StartApplication, Change, StartInv, StartTypeOK, Stages
  <2>2. KnowsInv'
    BY <1>6 DEF StartApplication, StartInv, KnowsInv
  <2> QED
    BY <1>6, <2>1, <2>2, MadeKept DEF StartApplication, StartInv
<1>7. CASE ChangeClusters
  <2>1. StartTypeOK'
    BY <1>7, ChangeAssumption DEF ChangeClusters, Change, own, StartInv, StartTypeOK
  <2>2. KnowsInv'
    BY <1>7 DEF ChangeClusters, own, StartInv, KnowsInv
  <2> QED
    BY <1>7, <2>1, <2>2, MadeKept DEF ChangeClusters, StartInv
<1>8. CASE UNCHANGED startVars
  <2>1. StartTypeOK' /\ KnowsInv'
    BY <1>8 DEF startVars, own, StartInv, StartTypeOK, KnowsInv
  <2> QED
    BY <1>8, <2>1, MadeKept DEF startVars, StartInv
<1> QED
  BY <1>1, <1>2, <1>3, <1>4, <1>5, <1>6, <1>7, <1>8 DEF StartNext

\* The types of all variables are right at all times; a process that serves
\* has a complete configuration.
THEOREM StartTypesCorrect == StartSpec => []StartTypeOK
<1>1. StartInv => StartTypeOK
  BY DEF StartInv
<1> QED
  BY StartInvHolds, StartInvKept, <1>1, PTL DEF StartSpec

\* Deployments are always where the environment they were made under says.
THEOREM DeploymentsPlaced == StartSpec => []PlacedAsConfigured
<1>1. StartInv => PlacedAsConfigured
  BY DEF StartInv
<1> QED
  BY StartInvHolds, StartInvKept, <1>1, PTL DEF StartSpec

\* Restarts alone never make the broker overlook a deployment.
THEOREM OrphansOnlyByChange == StartSpec => []NothingOrphaned
<1>1. StartInv => NothingOrphaned
  BY DEF StartInv
<1> QED
  BY StartInvHolds, StartInvKept, <1>1, PTL DEF StartSpec
=============================================================================
