------------------------------ MODULE Compose ------------------------------
(***************************************************************************)
(* The Compose platform as the broker sees it through its HTTP API.        *)
(*                                                                         *)
(* Compose is not part of the repository: this module is modelled from how *)
(* broker/broker.go and the vendored client gocomposeapi use it.  It keeps *)
(* deployments, the asynchronous jobs ("recipes") that work on them, and   *)
(* the backups that are taken of them.  A call that changes something      *)
(* answers at once with a recipe, and the recipe finishes, or fails, later.*)
(*                                                                         *)
(* What Compose makes is named after the request that had it made: <<r, n>>*)
(* is the n-th thing made for request r.  A new deployment and the recipe  *)
(* that provisions it share one identifier.                                *)
(***************************************************************************)
EXTENDS Naturals, Sequences, FiniteSets

CONSTANTS
  Requests,        \* the requests the broker handles, each one used once
  Instances,       \* service instances, that is, deployment names
  Spaces,          \* Cloud Foundry spaces, written into the billing code
  Types,           \* database types
  IPs,             \* addresses a deployment can admit
  Existing,        \* deployments made earlier: id -> [name, type, space]
  Statuses,        \* the statuses a recipe goes through
  MaxBackups,      \* bound: backups taken in one behaviour
  Nil              \* an absent instance, space, identifier, plan or address

VARIABLES
  deployments,     \* id -> every deployment there has ever been
  recipes,         \* id -> every recipe
  backups,         \* the backups taken, oldest first
  made             \* request -> how many things were made for it

composeVars == <<deployments, recipes, backups, made>>

Ids == (Requests \X (Nat \ {0})) \cup DOMAIN Existing

\* A recipe goes no further from these.
Finished == {"complete", "failed"}

ASSUME ExistingAssumption ==
  /\ DOMAIN Existing \cap (Requests \X Nat) = {}
  /\ Existing \in [DOMAIN Existing -> [name : Instances, type : Types, space : Spaces]]

ASSUME NilAssumption ==
  /\ Nil \notin Requests \cup Instances \cup Spaces \cup Types \cup IPs
  /\ Nil \notin Ids

ASSUME StatusAssumption == {"waiting"} \cup Finished \subseteq Statuses

ASSUME BoundAssumption == MaxBackups \in Nat

\* space: the billing code, Nil until it is written.  data: the space whose
\* data the deployment was filled with.  from: the backup it was restored
\* from, 0 when it was created blank.
Deployment ==
  [name : Instances, type : Types, space : Spaces \cup {Nil}, data : Spaces,
   from : Nat, live : BOOLEAN, admits : SUBSET IPs]

Recipe ==
  [kind : {"provision", "whitelist", "deprovision", "scale"},
   on : Ids, ip : IPs \cup {Nil}, status : Statuses]

Backup == [of : Ids, restorable : BOOLEAN]

ComposeTypeOK ==
  /\ DOMAIN deployments \subseteq Ids
  /\ deployments \in [DOMAIN deployments -> Deployment]
  /\ DOMAIN recipes \subseteq Ids
  /\ recipes \in [DOMAIN recipes -> Recipe]
  /\ backups \in Seq(Backup)
  /\ made \in [Requests -> Nat]

ComposeInit ==
  /\ deployments = [d \in DOMAIN Existing |->
       [name |-> Existing[d].name, type |-> Existing[d].type,
        space |-> Existing[d].space, data |-> Existing[d].space,
        from |-> 0, live |-> TRUE, admits |-> {}]]
  /\ recipes = [x \in {} |-> x]
  /\ backups = <<>>
  /\ made = [r \in Requests |-> 0]

Live(d) == d \in DOMAIN deployments /\ deployments[d].live

\* GET /deployments lists the live ones, in an order that is Compose's own.
Named(name) == {d \in DOMAIN deployments : Live(d) /\ deployments[d].name = name}

\* Function f with x mapped to v, whether or not x was in its domain.
With(f, x, v) == [y \in DOMAIN f \cup {x} |-> IF y = x THEN v ELSE f[y]]

\* The identifier of the next thing made for r.
Fresh(r) == <<r, made[r] + 1>>

RecipeFor(kind, d, ip) == [kind |-> kind, on |-> d, ip |-> ip, status |-> "waiting"]

---------------------------------------------------------------------------
(* What a call that Compose performs does at once.                         *)

\* Compose accepts a new deployment, blank or from a backup.
NewDeployment(r, name, type, space, data, from) ==
  /\ deployments' = With(deployments, Fresh(r),
       [name |-> name, type |-> type, space |-> space, data |-> data,
        from |-> from, live |-> TRUE, admits |-> {}])
  /\ recipes' = With(recipes, Fresh(r), RecipeFor("provision", Fresh(r), Nil))
  /\ made' = [made EXCEPT ![r] = @ + 1]
  /\ UNCHANGED backups

\* Compose accepts a change to deployment d, to be made by a recipe.
NewRecipe(r, kind, d, ip) ==
  /\ recipes' = With(recipes, Fresh(r), RecipeFor(kind, d, ip))
  /\ made' = [made EXCEPT ![r] = @ + 1]
  /\ UNCHANGED <<deployments, backups>>

\* PATCH /deployments/d writes the billing code.
SetSpace(d, space) ==
  /\ deployments' = [deployments EXCEPT ![d].space = space]
  /\ UNCHANGED <<recipes, backups, made>>

---------------------------------------------------------------------------
(* What Compose does in its own time.                                      *)

\* What deployment e is once a recipe that works on it has completed.
Effect(recipe, e) ==
  CASE recipe.kind = "whitelist"   -> [e EXCEPT !.admits = @ \cup {recipe.ip}]
    [] recipe.kind = "deprovision" -> [e EXCEPT !.live = FALSE]
    [] OTHER                       -> e

\* Recipe x moves to another status; completing takes effect in the same step.
Progress(x) ==
  /\ recipes[x].status \notin Finished
  /\ \E status \in Statuses \ {"waiting", recipes[x].status} :
       /\ recipes' = [recipes EXCEPT ![x].status = status]
       /\ IF status = "complete"
            THEN /\ Live(recipes[x].on)
                 /\ deployments' = [deployments EXCEPT ![recipes[x].on] = Effect(recipes[x], @)]
            ELSE UNCHANGED deployments
  /\ UNCHANGED <<backups, made>>

\* A backup of d is taken; it may be of a kind that cannot be restored.
TakeBackup(d) ==
  /\ Live(d)
  /\ Len(backups) < MaxBackups
  /\ \E restorable \in BOOLEAN :
       backups' = Append(backups, [of |-> d, restorable |-> restorable])
  /\ UNCHANGED <<deployments, recipes, made>>

ComposeStep ==
  \/ \E x \in DOMAIN recipes : Progress(x)
  \/ \E d \in DOMAIN deployments : TakeBackup(d)
=============================================================================
