------------------------- MODULE StartupProperties -------------------------
(***************************************************************************)
(* What a start of the broker comes to.                                    *)
(***************************************************************************)
EXTENDS Startup

Stages == {"config", "catalog", "account", "cluster", "listen", "serving", "down"}

\* A configuration that config.New returns has credentials and a key.
ConfigType ==
  [Username : STRING \ {""}, Password : STRING \ {""}, APIToken : DOMAIN AccountOf,
   DBPrefix : DOMAIN Trimmed, ClusterName : STRING, IPWhitelist : Seq(DOMAIN Fields)]

\* Types of all variables; a process holds a configuration, a complete one,
\* just while it is past config.New, so that none serves without.
StartTypeOK ==
  /\ env \in Environments
  /\ stage \in [Processes -> Stages]
  /\ conf \in [Processes -> ConfigType \cup {None}]
  /\ account \in [Processes -> {AccountOf[key] : key \in DOMAIN AccountOf} \cup {None}]
  /\ clusterID \in [Processes -> DOMAIN NameOf \cup {None}]
  /\ cause \in [Processes -> Stages \cup {"none"}]
  /\ clusters \subseteq DOMAIN NameOf
  /\ DOMAIN made \subseteq Instances
  /\ forgotten \in [Instances -> Environments \cup {None}]
  /\ changes \in 0 .. MaxChanges
  /\ \A p \in Processes : stage[p] \in {"config", "down"} <=> conf[p] = None

\* A deployment is where the environment it was made under says: in the
\* account of its API key, in a cluster of the name that CLUSTER_NAME gives,
\* and on hosted Compose if and only if that is not set, also when there is no
\* such cluster, and calls fail, while processes start.  Whether the cluster is
\* still there when the deployment is made is not said.
PlacedAsConfigured ==
  \A i \in DOMAIN made :
    LET e == made[i].env
    IN  /\ made[i].account = AccountOf[e.COMPOSE_API_KEY]
        /\ IF e.CLUSTER_NAME = "" THEN made[i].cluster = None
           ELSE made[i].cluster # None /\ NameOf[made[i].cluster] = e.CLUSTER_NAME

PrefixOf(e) == Trimmed[IF e.DB_PREFIX = "" THEN DefaultPrefix ELSE e.DB_PREFIX]

\* When the platform forgets an instance its deployment is gone, though the
\* broker was started anew in between, unless its environment then had it
\* name deployments differently or look in another account.
NothingOrphaned ==
  \A i \in DOMAIN made :
    LET then == made[i].env
        now == forgotten[i]
    IN  now # None => \/ PrefixOf(then) # PrefixOf(now)
                      \/ AccountOf[then.COMPOSE_API_KEY] # AccountOf[now.COMPOSE_API_KEY]

\* No value in the environment is malformed.
NoneMalformed(e) == e.LOG_LEVEL \in logLevels \cup {""} /\ WellFormed(e)

\* Nothing about the environment, or what Compose has, prevents a start.
Startable ==
  /\ NoneMalformed(env) /\ env.catalog = "whole"
  /\ "" \notin {env.USERNAME, env.PASSWORD, env.COMPOSE_API_KEY}
  /\ env.CLUSTER_NAME = "" \/ \E id \in clusters : NameOf[id] = env.CLUSTER_NAME

\* Once nothing prevents a start any more, every process comes to serve, and
\* to serve again each time it was stopped, whatever failed before and
\* whichever optional variables are set: nothing that fails during a start
\* leaves a process that neither serves nor stops.
ComesUp == <>[]Startable => \A p \in Processes : []<>(stage[p] = "serving")

---------------------------------------------------------------------------
(* The inductive invariant behind PlacedAsConfigured and NothingOrphaned.  *)

\* What a process knows is what the environment it was started in says.
KnowsInv ==
  \A p \in Processes :
    /\ stage[p] \in {"catalog", "account", "cluster", "listen", "serving"} => conf[p] = Config(env)
    /\ clusterID[p] # None => stage[p] \in {"listen", "serving"}
    /\ stage[p] \in {"cluster", "listen", "serving"} =>
         account[p] = AccountOf[env.COMPOSE_API_KEY]
    /\ stage[p] \in {"listen", "serving"} =>
         IF env.CLUSTER_NAME = "" THEN clusterID[p] = None
         ELSE clusterID[p] \in DOMAIN NameOf /\ NameOf[clusterID[p]] = env.CLUSTER_NAME

\* A deployment is called after its instance, under the prefix of its time.
NamesInv == \A i \in DOMAIN made : made[i].name = <<PrefixOf(made[i].env), i>>

StartInv == StartTypeOK /\ KnowsInv /\ PlacedAsConfigured /\ NamesInv /\ NothingOrphaned
=============================================================================
