---------------------------- MODULE BrokerProofs ----------------------------
(***************************************************************************)
(* Proofs about Broker for every set of requests, instances, spaces and    *)
(* existing deployments, every catalogue and whitelist, every number of    *)
(* repetitions and all faults.                                             *)
(***************************************************************************)
EXTENDS BrokerProperties, SequenceTheorems, TLAPS

---------------------------------------------------------------------------
(* What Compose does keeps its types.                                      *)

\* The next identifier for r is one, and counting keeps the counters natural.
LEMMA FreshIsId ==
  ASSUME NEW r \in Requests, made \in [Requests -> Nat]
  PROVE  /\ Fresh(r) \in Ids
         /\ Fresh(r) \in {r} \X Nat
         /\ [made EXCEPT ![r] = @ + 1] \in [Requests -> Nat]
BY DEF Fresh, Ids

\* A new deployment, with the recipe that provisions it, is well typed.
LEMMA NewDeploymentTypes ==
  ASSUME ComposeTypeOK, RecipeInv, NEW r \in Requests, NEW name \in Instances, NEW type \in Types,
         NEW space \in Spaces \cup {Nil}, NEW data \in Spaces, NEW from \in Nat,
         NewDeployment(r, name, type, space, data, from)
  PROVE  ComposeTypeOK' /\ RecipeInv'
<1>1. Fresh(r) \in Ids /\ made' \in [Requests -> Nat]
  BY FreshIsId DEF NewDeployment, ComposeTypeOK
<1>2. /\ DOMAIN deployments' = DOMAIN deployments \cup {Fresh(r)}
      /\ DOMAIN recipes' = DOMAIN recipes \cup {Fresh(r)}
  BY DEF NewDeployment, With
<1>3. [name |-> name, type |-> type, space |-> space, data |-> data,
       from |-> from, live |-> TRUE, admits |-> {}] \in Deployment
  BY DEF Deployment
<1>4. RecipeFor("provision", Fresh(r), Nil) \in Recipe
  BY <1>1, StatusAssumption DEF RecipeFor, Recipe
<1>5. deployments' \in [DOMAIN deployments' -> Deployment]
  BY <1>2, <1>3 DEF NewDeployment, With, ComposeTypeOK
<1>6. recipes' \in [DOMAIN recipes' -> Recipe]
  BY <1>2, <1>4 DEF NewDeployment, With, ComposeTypeOK
<1>7. RecipeInv'
  BY <1>2 DEF NewDeployment, With, RecipeFor, RecipeInv
<1> QED
  BY <1>1, <1>2, <1>5, <1>6, <1>7 DEF ComposeTypeOK, NewDeployment

\* So is a new recipe.
LEMMA NewRecipeTypes ==
  ASSUME ComposeTypeOK, RecipeInv, NEW r \in Requests,
         NEW kind \in {"whitelist", "deprovision", "scale"},
         NEW d \in Ids, NEW ip \in IPs \cup {Nil}, kind = "whitelist" => ip \in IPs,
         NewRecipe(r, kind, d, ip)
  PROVE  ComposeTypeOK' /\ RecipeInv'
<1>1. Fresh(r) \in Ids /\ made' \in [Requests -> Nat]
  BY FreshIsId DEF NewRecipe, ComposeTypeOK
<1>2. RecipeFor(kind, d, ip) \in Recipe
  BY StatusAssumption DEF RecipeFor, Recipe
<1>3. DOMAIN recipes' = DOMAIN recipes \cup {Fresh(r)}
  BY DEF NewRecipe, With
<1>4. recipes' \in [DOMAIN recipes' -> Recipe]
  BY <1>2, <1>3 DEF NewRecipe, With, ComposeTypeOK
<1>5. RecipeInv'
  BY <1>3 DEF NewRecipe, With, RecipeFor, RecipeInv
<1> QED
  BY <1>1, <1>3, <1>4, <1>5 DEF ComposeTypeOK, NewRecipe

\* Writing the billing code keeps the deployment's type.
LEMMA SetSpaceTypes ==
  ASSUME ComposeTypeOK, NEW d \in DOMAIN deployments, NEW space \in Spaces \cup {Nil},
         RecipeInv, SetSpace(d, space)
  PROVE  ComposeTypeOK' /\ RecipeInv'
<1>1. [deployments[d] EXCEPT !.space = space] \in Deployment
  BY DEF ComposeTypeOK, Deployment
<1>2. /\ DOMAIN deployments' = DOMAIN deployments
      /\ deployments' \in [DOMAIN deployments -> Deployment]
  BY <1>1 DEF SetSpace, ComposeTypeOK
<1> QED
  BY <1>2 DEF SetSpace, ComposeTypeOK, RecipeInv

\* What Compose does in its own time keeps its types too: a completed
\* whitelist recipe admits an address.
LEMMA ComposeStepTypes ==
  ASSUME ComposeTypeOK, RecipeInv, ComposeStep
  PROVE  ComposeTypeOK' /\ RecipeInv'
<1>1. ASSUME NEW x \in DOMAIN recipes, Progress(x)
      PROVE  ComposeTypeOK' /\ RecipeInv'
  <2>1. PICK status \in Statuses :
          /\ recipes' = [recipes EXCEPT ![x].status = status]
          /\ \/ /\ Live(recipes[x].on)
                /\ deployments' = [deployments EXCEPT ![recipes[x].on] = Effect(recipes[x], @)]
             \/ UNCHANGED deployments
    BY <1>1 DEF Progress
  <2>2. recipes[x] \in Recipe
    BY DEF ComposeTypeOK
  <2>3. /\ [recipes[x] EXCEPT !.status = status] \in Recipe
        /\ [recipes[x] EXCEPT !.status = status].kind = recipes[x].kind
        /\ [recipes[x] EXCEPT !.status = status].ip = recipes[x].ip
    BY <2>2 DEF Recipe
  <2>4. /\ DOMAIN recipes' = DOMAIN recipes
        /\ recipes' \in [DOMAIN recipes -> Recipe]
        /\ RecipeInv'
    BY <2>1, <2>3 DEF ComposeTypeOK, RecipeInv
  <2>5. ASSUME NEW e \in Deployment PROVE Effect(recipes[x], e) \in Deployment
    <3>1. CASE recipes[x].kind = "whitelist"
      <4>1. recipes[x].ip \in IPs
        BY <3>1 DEF RecipeInv
      <4> QED
        BY <4>1, <3>1 DEF Effect, Deployment
    <3>2. CASE recipes[x].kind = "deprovision"
      BY <3>2 DEF Effect, Deployment
    <3>3. CASE recipes[x].kind \notin {"whitelist", "deprovision"}
      BY <3>3 DEF Effect
    <3> QED
      BY <3>1, <3>2, <3>3
  <2>6. /\ DOMAIN deployments' = DOMAIN deployments
        /\ deployments' \in [DOMAIN deployments -> Deployment]
    BY <2>1, <2>5 DEF ComposeTypeOK, Live
  <2> QED
    BY <1>1, <2>4, <2>6 DEF ComposeTypeOK, Progress
<1>2. ASSUME NEW d \in DOMAIN deployments, TakeBackup(d)
      PROVE  ComposeTypeOK' /\ RecipeInv'
  <2>1. PICK restorable \in BOOLEAN :
          backups' = Append(backups, [of |-> d, restorable |-> restorable])
    BY <1>2 DEF TakeBackup
  <2>2. [of |-> d, restorable |-> restorable] \in Backup
    BY DEF Backup, ComposeTypeOK
  <2>3. backups' \in Seq(Backup)
    BY <2>1, <2>2 DEF ComposeTypeOK
  <2> QED
    BY <1>2, <2>3 DEF TakeBackup, ComposeTypeOK, RecipeInv
<1> QED
  BY <1>1, <1>2 DEF ComposeStep

---------------------------------------------------------------------------
(* What every handler step does to the type invariant.                     *)

\* A call leaves the number of repetitions within its bound.
LEMMA CountTypes ==
  ASSUME LocalsTypeOK, NEW r \in Requests, NEW answer \in Answers(r), Count(r, answer)
  PROVE  tries' \in [Requests -> 0 .. Retries]
<1>1. answer = "again" => tries[r] < Retries
  BY DEF Answers
<1>2. tries[r] \in 0 .. Retries /\ Retries \in Nat
  BY RetryAssumption DEF LocalsTypeOK
<1> QED
  BY <1>1, <1>2 DEF Count, LocalsTypeOK

\* The handler ends, or makes the same call again.
LEMMA GiveUpTypes ==
  ASSUME LocalsTypeOK, NEW r \in Requests, NEW answer, GiveUp(r, answer)
  PROVE  /\ pc' \in [Requests -> Calls \cup {"idle", "done"}]
         /\ reply' \in [Requests -> Replies]
         /\ \A q \in Requests : pc'[q] = pc[q] \/ pc'[q] = "done"
BY DEF GiveUp, Reply, Goto, Failure, LocalsTypeOK, Replies

\* A request that stays where it is, or moves on to a call outside the loops,
\* with what it asks for and lists unchanged, keeps ArgsInv and LoopInv.
LEMMA MovingOn ==
  ASSUME TypeInv, NEW r \in Requests, NEW label \in Calls \cup {"done"},
         pc' = [pc EXCEPT ![r] = label], UNCHANGED <<arg, opdata, todo>>,
         \/ label = pc[r]
         \/ /\ label \in {"create", "backups", "restore", "patch", "cleanup"} => arg[r].op = "Provision"
            /\ label \notin {"whitelist", "poll"}
            /\ label \notin {"cleanup", "done"} => opdata[r].whitelist = <<>>
  PROVE  ArgsInv' /\ LoopInv'
BY DEF TypeInv, TypeOK, LocalsTypeOK, ArgsInv, LoopInv, Offered, Calls

\* The same for a step into the whitelist loop, round it or out of it.
LEMMA Whitelisting ==
  ASSUME TypeInv, NEW r \in Requests, arg[r].op = "Provision",
         NEW ids \in Seq(Ids), Len(ids) <= Len(IPWhitelist), Whitelist(r, ids),
         UNCHANGED <<arg, todo>>, opdata'[r].whitelist = ids,
         \A q \in Requests \ {r} : opdata'[q] = opdata[q]
  PROVE  /\ ArgsInv' /\ LoopInv'
         /\ pc' \in [Requests -> Calls \cup {"idle", "done"}]
         /\ reply' \in [Requests -> Replies]
<1>1. Len(ids) \in Nat /\ Len(IPWhitelist) \in Nat
  BY WhitelistAssumption
<1>2. PICK label \in {"whitelist", "done"} :
        /\ pc' = [pc EXCEPT ![r] = label]
        /\ label = "whitelist" => Len(ids) # Len(IPWhitelist)
        /\ reply' \in {reply, [reply EXCEPT ![r] = "accepted"]}
  BY DEF Whitelist, AllWhitelisted, Goto, Reply
<1>3. /\ pc' \in [Requests -> Calls \cup {"idle", "done"}]
      /\ reply' \in [Requests -> Replies]
  BY <1>2 DEF TypeInv, TypeOK, LocalsTypeOK, Calls, Replies
<1>4. ArgsInv'
  BY <1>2 DEF TypeInv, TypeOK, LocalsTypeOK, ArgsInv, Offered
<1>5. LoopInv'
  BY <1>1, <1>2 DEF TypeInv, TypeOK, LocalsTypeOK, LoopInv
<1> QED
  BY <1>3, <1>4, <1>5

\* Noting a recipe in the operation data changes nothing else in it.
LEMMA NotingRecipe ==
  ASSUME LocalsTypeOK, NEW r \in Requests, NEW x \in Ids,
         opdata' \in {opdata, [opdata EXCEPT ![r].recipe = x]}
  PROVE  /\ opdata' \in [Requests -> [recipe : Ids \cup {Nil}, whitelist : Seq(Ids)]]
         /\ \A q \in Requests : opdata'[q].whitelist = opdata[q].whitelist
         /\ \A q \in Requests \ {r} : opdata'[q] = opdata[q]
<1>1. CASE UNCHANGED opdata
  BY <1>1 DEF LocalsTypeOK
<1>2. CASE opdata' = [opdata EXCEPT ![r].recipe = x]
  <2>1. opdata[r] \in [recipe : Ids \cup {Nil}, whitelist : Seq(Ids)]
    BY DEF LocalsTypeOK
  <2>2. /\ [opdata[r] EXCEPT !.recipe = x] \in [recipe : Ids \cup {Nil}, whitelist : Seq(Ids)]
        /\ [opdata[r] EXCEPT !.recipe = x].whitelist = opdata[r].whitelist
    BY <2>1
  <2>3. opdata' = [opdata EXCEPT ![r] = [opdata[r] EXCEPT !.recipe = x]]
    BY <1>2
  <2> QED
    BY <2>2, <2>3 DEF LocalsTypeOK
<1> QED
  BY <1>1, <1>2

\* A request that makes its call again or gives up keeps ArgsInv and LoopInv.
LEMMA GivingUp ==
  ASSUME TypeInv, NEW r \in Requests, pc[r] \in Calls, NEW answer, GiveUp(r, answer),
         UNCHANGED <<arg, opdata, todo>>
  PROVE  ArgsInv' /\ LoopInv'
<1>1. PICK label \in {pc[r], "done"} : pc' = [pc EXCEPT ![r] = label]
  BY DEF GiveUp, Reply, Goto, TypeInv, TypeOK, LocalsTypeOK
<1> QED
  BY <1>1, MovingOn

\* findDeployment's list: it finds an identifier of Compose's, or the request
\* ends.
LEMMA ListTypes ==
  ASSUME TypeInv, NEW r \in Requests, List(r)
  PROVE  TypeInv'
<1>1. PICK answer \in AllFaults \cup {"ok", "error"} :
       /\ Reads(r, answer)
       /\ \/ /\ \E d \in Named(Sought(r)) : found' = [found EXCEPT ![r] = d]
             /\ Goto(r, "get") /\ UNCHANGED reply
          \/ NotFound(r) /\ UNCHANGED found
          \/ GiveUp(r, answer) /\ UNCHANGED found /\ answer # "again"
  BY DEF List
<1>2. UNCHANGED <<composeVars, tries, arg, dep, snap, opdata, todo, logged, began>>
  BY <1>1 DEF List, Reads
<1>3. Named(Sought(r)) \subseteq Ids
  BY DEF Named, TypeInv, TypeOK, ComposeTypeOK
<1>4. \E label \in {"get", "done"} : pc' = [pc EXCEPT ![r] = label]
  BY <1>1 DEF NotFound, GiveUp, Reply, Goto
<1>5. /\ found' \in [Requests -> Ids \cup {Nil}]
      /\ reply' \in [Requests -> Replies]
  BY <1>1, <1>3 DEF NotFound, GiveUp, Reply, Failure, Goto, TypeInv, TypeOK, LocalsTypeOK, Replies
<1>6. ArgsInv' /\ LoopInv'
  <2>1. opdata[r].whitelist = <<>>
    BY DEF List, TypeInv, LoopInv
  <2> QED
    BY <1>2, <1>4, <2>1, MovingOn DEF Calls
<1>7. LocalsTypeOK'
  BY <1>2, <1>4, <1>5 DEF TypeInv, TypeOK, LocalsTypeOK, Calls
<1>8. ComposeTypeOK' /\ RecipeInv'
  BY <1>2 DEF composeVars, TypeInv, TypeOK, ComposeTypeOK, RecipeInv
<1> QED
  BY <1>6, <1>7, <1>8 DEF TypeInv, TypeOK

\* findDeployment's GET: the handler that goes on is the one that asked.
LEMMA GetTypes ==
  ASSUME TypeInv, NEW r \in Requests, Get(r)
  PROVE  TypeInv'
<1>1. PICK answer \in AllFaults \cup {"ok", "error"} :
       /\ Reads(r, answer)
       /\ found' \in {found, [found EXCEPT ![r] = Nil]}
       /\ \/ \E d : Got(r, d)
          \/ NotFound(r)
          \/ GiveUp(r, answer) /\ answer # "again"
  BY DEF Get
<1>2. UNCHANGED <<composeVars, tries, arg, dep, snap, opdata, todo, logged, began>>
  BY <1>1 DEF Get, Reads
<1>3. PICK label \in {"deprovision", "backups", "scale", "done"} :
        /\ pc' = [pc EXCEPT ![r] = label]
        /\ label = "backups" => arg[r].op = "Provision"
  BY <1>1 DEF Got, NotFound, GiveUp, Reply, Goto
<1>4. reply' \in [Requests -> Replies] /\ found' \in [Requests -> Ids \cup {Nil}]
  BY <1>1 DEF Got, NotFound, GiveUp, Reply, Failure, Goto, TypeInv, TypeOK, LocalsTypeOK, Replies
<1>5. ArgsInv' /\ LoopInv'
  <2>1. opdata[r].whitelist = <<>>
    BY DEF Get, TypeInv, LoopInv
  <2> QED
    BY <1>2, <1>3, <2>1, MovingOn DEF Calls
<1>6. LocalsTypeOK'
  BY <1>2, <1>3, <1>4 DEF TypeInv, TypeOK, LocalsTypeOK, Calls
<1>7. ComposeTypeOK' /\ RecipeInv'
  BY <1>2 DEF composeVars, TypeInv, TypeOK, ComposeTypeOK, RecipeInv
<1> QED
  BY <1>5, <1>6, <1>7 DEF TypeInv, TypeOK

\* createDeployment: what the repetition made first is named nowhere, so it
\* keeps its type like the one that counts.
LEMMA CreateTypes ==
  ASSUME TypeInv, NEW r \in Requests, Create(r)
  PROVE  TypeInv'
<1>1. PICK answer \in AllFaults \cup {"ok", "error"}, done \in BOOLEAN :
       /\ Exchange(r, answer, done, TRUE)
       /\ IF done THEN NewDeployment(r, arg[r].instance, WantedType(r), arg[r].space, arg[r].space, 0)
                  ELSE UNCHANGED composeVars
       /\ \/ /\ dep' = [dep EXCEPT ![r] = Fresh(r)]
             /\ opdata' = [opdata EXCEPT ![r].recipe = Fresh(r)]
             /\ Whitelist(r, <<>>)
          \/ Whitelist(r, <<>>) /\ UNCHANGED <<dep, opdata>>
          \/ GiveUp(r, answer) /\ UNCHANGED <<dep, opdata>>
  BY DEF Create
<1>2. UNCHANGED <<arg, found, snap, todo, logged, began>>
  BY DEF Create
<1>3. /\ arg[r].op = "Provision" /\ arg[r].instance \in Instances /\ arg[r].space \in Spaces
      /\ Offered(arg[r].service, arg[r].plan)
  BY DEF TypeInv, ArgsInv, Create
<1>4. WantedType(r) \in Types
  BY <1>3, CatalogAssumption DEF WantedType, Offered
<1>5. ComposeTypeOK' /\ RecipeInv'
  <2>1. CASE done
    BY <1>1, <1>3, <1>4, <2>1, NewDeploymentTypes DEF TypeInv, TypeOK
  <2>2. CASE ~done
    BY <1>1, <2>2 DEF composeVars, TypeInv, TypeOK, ComposeTypeOK, RecipeInv
  <2> QED
    BY <2>1, <2>2
<1>6. tries' \in [Requests -> 0 .. Retries]
  BY <1>1, CountTypes DEF Exchange, TypeInv, TypeOK
<1>7. Fresh(r) \in Ids
  BY FreshIsId DEF TypeInv, TypeOK, ComposeTypeOK
<1>8. /\ dep' \in [Requests -> Ids \cup {Nil}]
      /\ opdata' \in [Requests -> [recipe : Ids \cup {Nil}, whitelist : Seq(Ids)]]
      /\ \A q \in Requests : opdata'[q].whitelist = opdata[q].whitelist
      /\ \A q \in Requests \ {r} : opdata'[q] = opdata[q]
  <2>1. opdata' \in {opdata, [opdata EXCEPT ![r].recipe = Fresh(r)]}
    BY <1>1
  <2>2. dep' \in [Requests -> Ids \cup {Nil}]
    BY <1>1, <1>7 DEF TypeInv, TypeOK, LocalsTypeOK
  <2> QED
    BY <1>7, <2>1, <2>2, NotingRecipe DEF TypeInv, TypeOK
<1>9. opdata[r].whitelist = <<>>
  BY DEF Create, TypeInv, LoopInv
<1>10. /\ ArgsInv' /\ LoopInv'
       /\ pc' \in [Requests -> Calls \cup {"idle", "done"}]
       /\ reply' \in [Requests -> Replies]
  <2>1. CASE Whitelist(r, <<>>)
    <3>1. <<>> \in Seq(Ids) /\ Len(<<>>) <= Len(IPWhitelist)
      BY WhitelistAssumption
    <3> QED
      BY <1>2, <1>3, <1>8, <1>9, <2>1, <3>1, Whitelisting
  <2>2. CASE GiveUp(r, answer) /\ UNCHANGED <<dep, opdata>>
    <3>3. ArgsInv' /\ LoopInv'
      BY <1>2, <2>2, GivingUp DEF Create, Calls
    <3> QED
      BY <2>2, <3>3, GiveUpTypes DEF TypeInv, TypeOK
  <2> QED
    BY <1>1, <2>1, <2>2
<1> QED
  BY <1>2, <1>5, <1>6, <1>8, <1>10 DEF TypeInv, TypeOK, LocalsTypeOK

\* Choosing a backup: its number is a natural one.
LEMMA GetBackupsTypes ==
  ASSUME TypeInv, NEW r \in Requests, GetBackups(r)
  PROVE  TypeInv'
<1>1. PICK answer \in AllFaults \cup {"ok", "error"} :
       /\ Reads(r, answer)
       /\ \/ /\ \E b \in DOMAIN backups : snap' = [snap EXCEPT ![r] = b]
             /\ Goto(r, "restore") /\ UNCHANGED reply
          \/ Reply(r, "failed") /\ UNCHANGED snap
          \/ GiveUp(r, answer) /\ UNCHANGED snap /\ answer # "again"
  BY DEF GetBackups
<1>2. UNCHANGED <<composeVars, tries, arg, found, dep, opdata, todo, logged, began>>
  BY <1>1 DEF GetBackups, Reads
<1>3. PICK label \in {"restore", "done"} : pc' = [pc EXCEPT ![r] = label]
  BY <1>1 DEF GiveUp, Reply, Goto
<1>4. DOMAIN backups \subseteq Nat
  BY DEF TypeInv, TypeOK, ComposeTypeOK
<1>5. reply' \in [Requests -> Replies] /\ snap' \in [Requests -> Nat]
  BY <1>1, <1>4 DEF GiveUp, Reply, Failure, Goto, TypeInv, TypeOK, LocalsTypeOK, Replies
<1>6. ArgsInv' /\ LoopInv'
  <2>1. opdata[r].whitelist = <<>> /\ arg[r].op = "Provision"
    BY DEF GetBackups, TypeInv, LoopInv, ArgsInv
  <2> QED
    BY <1>2, <1>3, <2>1, MovingOn DEF Calls
<1>7. LocalsTypeOK'
  BY <1>2, <1>3, <1>5 DEF TypeInv, TypeOK, LocalsTypeOK, Calls
<1>8. ComposeTypeOK' /\ RecipeInv'
  BY <1>2 DEF composeVars, TypeInv, TypeOK, ComposeTypeOK, RecipeInv
<1> QED
  BY <1>6, <1>7, <1>8 DEF TypeInv, TypeOK

\* Restoring: the source was found, so it has a type and data to go by.
LEMMA RestoreTypes ==
  ASSUME TypeInv, NEW r \in Requests, Restore(r)
  PROVE  TypeInv'
<1>1. PICK answer \in AllFaults \cup {"ok", "error"}, done \in BOOLEAN :
       /\ Exchange(r, answer, done, Live(found[r]))
       /\ IF done THEN NewDeployment(r, arg[r].instance, deployments[found[r]].type, Nil,
                                     deployments[found[r]].data, snap[r])
                  ELSE UNCHANGED composeVars
       /\ \/ /\ dep' = [dep EXCEPT ![r] = Fresh(r)]
             /\ opdata' = [opdata EXCEPT ![r].recipe = Fresh(r)]
             /\ Goto(r, "patch") /\ UNCHANGED reply
          \/ Goto(r, "patch") /\ UNCHANGED <<dep, opdata, reply>>
          \/ GiveUp(r, answer) /\ UNCHANGED <<dep, opdata>>
  BY DEF Restore
<1>2. UNCHANGED <<arg, found, snap, todo, logged, began>>
  BY DEF Restore
<1>3. pc[r] = "restore" /\ arg[r].op = "Provision" /\ arg[r].instance \in Instances
  BY DEF TypeInv, ArgsInv, Restore
<1>4. ComposeTypeOK' /\ RecipeInv'
  <2>1. CASE done
    <3>1. found[r] \in DOMAIN deployments
      BY <1>1, <2>1 DEF Exchange, Live
    <3>2. deployments[found[r]].type \in Types /\ deployments[found[r]].data \in Spaces
      BY <3>1 DEF TypeInv, TypeOK, ComposeTypeOK, Deployment
    <3>3. snap[r] \in Nat
      BY DEF TypeInv, TypeOK, LocalsTypeOK
    <3> QED
      BY <1>1, <1>3, <2>1, <3>2, <3>3, NewDeploymentTypes DEF TypeInv, TypeOK
  <2>2. CASE ~done
    BY <1>1, <2>2 DEF composeVars, TypeInv, TypeOK, ComposeTypeOK, RecipeInv
  <2> QED
    BY <2>1, <2>2
<1>5. tries' \in [Requests -> 0 .. Retries]
  BY <1>1, CountTypes DEF Exchange, TypeInv, TypeOK
<1>6. Fresh(r) \in Ids
  BY FreshIsId DEF TypeInv, TypeOK, ComposeTypeOK
<1>7. /\ dep' \in [Requests -> Ids \cup {Nil}]
      /\ opdata' \in [Requests -> [recipe : Ids \cup {Nil}, whitelist : Seq(Ids)]]
      /\ \A q \in Requests : opdata'[q].whitelist = opdata[q].whitelist
  <2>1. opdata' \in {opdata, [opdata EXCEPT ![r].recipe = Fresh(r)]}
    BY <1>1
  <2>2. dep' \in [Requests -> Ids \cup {Nil}]
    BY <1>1, <1>6 DEF TypeInv, TypeOK, LocalsTypeOK
  <2> QED
    BY <1>6, <2>1, <2>2, NotingRecipe DEF TypeInv, TypeOK
<1>8. PICK label \in {"restore", "patch", "done"} : pc' = [pc EXCEPT ![r] = label]
  BY <1>1, <1>3 DEF GiveUp, Reply, Goto, TypeInv, TypeOK, LocalsTypeOK
<1>9. /\ pc' \in [Requests -> Calls \cup {"idle", "done"}]
      /\ reply' \in [Requests -> Replies]
  BY <1>1, <1>8 DEF GiveUp, Reply, Failure, Goto, TypeInv, TypeOK, LocalsTypeOK, Replies, Calls
<1>10. ArgsInv'
  BY <1>2, <1>3, <1>8 DEF TypeInv, TypeOK, LocalsTypeOK, ArgsInv, Offered
<1>11. LoopInv'
  BY <1>2, <1>3, <1>7, <1>8 DEF TypeInv, TypeOK, LocalsTypeOK, LoopInv
<1> QED
  BY <1>2, <1>4, <1>5, <1>7, <1>9, <1>10, <1>11 DEF TypeInv, TypeOK, LocalsTypeOK

\* Writing the billing code.
LEMMA PatchTypes ==
  ASSUME TypeInv, NEW r \in Requests, Patch(r)
  PROVE  TypeInv'
<1>1. PICK answer \in AllFaults \cup {"ok", "error"}, done \in BOOLEAN :
       /\ Exchange(r, answer, done, Live(dep[r]))
       /\ IF done THEN SetSpace(dep[r], arg[r].space) ELSE UNCHANGED composeVars
       /\ dep' \in {dep, [dep EXCEPT ![r] = Nil]}
       /\ Whitelist(r, <<>>) \/ GiveUp(r, answer)
  BY DEF Patch
<1>2. UNCHANGED <<arg, found, snap, opdata, todo, logged, began>>
  BY DEF Patch
<1>3. pc[r] = "patch" /\ arg[r].op = "Provision" /\ arg[r].space \in Spaces
  BY DEF TypeInv, ArgsInv, Patch
<1>4. ComposeTypeOK' /\ RecipeInv'
  <2>1. CASE done
    <3>1. dep[r] \in DOMAIN deployments
      BY <1>1, <2>1 DEF Exchange, Live
    <3> QED
      BY <1>1, <1>3, <2>1, <3>1, SetSpaceTypes DEF TypeInv, TypeOK
  <2>2. CASE ~done
    BY <1>1, <2>2 DEF composeVars, TypeInv, TypeOK, ComposeTypeOK, RecipeInv
  <2> QED
    BY <2>1, <2>2
<1>5. tries' \in [Requests -> 0 .. Retries]
  BY <1>1, CountTypes DEF Exchange, TypeInv, TypeOK
<1>6. dep' \in [Requests -> Ids \cup {Nil}]
  BY <1>1 DEF TypeInv, TypeOK, LocalsTypeOK
<1>7. /\ ArgsInv' /\ LoopInv'
      /\ pc' \in [Requests -> Calls \cup {"idle", "done"}]
      /\ reply' \in [Requests -> Replies]
  <2>1. CASE Whitelist(r, <<>>)
    <3>1. <<>> \in Seq(Ids) /\ Len(<<>>) <= Len(IPWhitelist)
      BY WhitelistAssumption
    <3>2. opdata'[r].whitelist = <<>>
      BY <1>2, <1>3 DEF TypeInv, LoopInv
    <3> QED
      BY <1>2, <1>3, <2>1, <3>1, <3>2, Whitelisting
  <2>2. CASE GiveUp(r, answer)
    <3>1. ArgsInv' /\ LoopInv'
      BY <1>2, <1>3, <2>2, GivingUp DEF Calls
    <3> QED
      BY <2>2, <3>1, GiveUpTypes DEF TypeInv, TypeOK
  <2> QED
    BY <1>1, <2>1, <2>2
<1> QED
  BY <1>2, <1>4, <1>5, <1>6, <1>7 DEF TypeInv, TypeOK, LocalsTypeOK

\* The whitelist loop reads IPWhitelist only inside its domain.
LEMMA AddWhitelistTypes ==
  ASSUME TypeInv, NEW r \in Requests, AddWhitelist(r)
  PROVE  TypeInv'
<1> DEFINE ids == opdata[r].whitelist
<1> DEFINE ip == IPWhitelist[Len(ids) + 1]
<1>1. PICK answer \in AllFaults \cup {"ok", "error"}, done \in BOOLEAN :
       /\ Exchange(r, answer, done, Live(dep[r]))
       /\ IF done THEN NewRecipe(r, "whitelist", dep[r], ip) ELSE UNCHANGED composeVars
       /\ \/ /\ opdata' = [opdata EXCEPT ![r].whitelist = Append(ids, Fresh(r))]
             /\ Whitelist(r, Append(ids, Fresh(r)))
          \/ GiveUp(r, answer) /\ UNCHANGED opdata
          \/ RunDeferred(r, answer) /\ UNCHANGED opdata
  BY DEF AddWhitelist
<1>2. UNCHANGED <<arg, found, dep, snap, todo, logged, began>>
  BY DEF AddWhitelist
<1>3. pc[r] = "whitelist" /\ arg[r].op = "Provision" /\ Len(ids) < Len(IPWhitelist)
  BY DEF TypeInv, ArgsInv, LoopInv, AddWhitelist
<1>4. opdata[r] \in [recipe : Ids \cup {Nil}, whitelist : Seq(Ids)]
  BY DEF TypeInv, TypeOK, LocalsTypeOK
<1>5. ids \in Seq(Ids) /\ Len(ids) \in Nat
  BY <1>4
<1>6. ip \in IPs
  <2>1. Len(ids) + 1 \in 1 .. Len(IPWhitelist)
    BY <1>3, <1>5, WhitelistAssumption
  <2> QED
    BY <2>1, WhitelistAssumption
<1>7. ComposeTypeOK' /\ RecipeInv'
  <2>1. CASE done
    <3>1. dep[r] \in Ids
      BY <1>1, <2>1 DEF Exchange, Live, TypeInv, TypeOK, ComposeTypeOK
    <3> QED
      BY <1>1, <1>6, <2>1, <3>1, NewRecipeTypes DEF TypeInv, TypeOK
  <2>2. CASE ~done
    BY <1>1, <2>2 DEF composeVars, TypeInv, TypeOK, ComposeTypeOK, RecipeInv
  <2> QED
    BY <2>1, <2>2
<1>8. tries' \in [Requests -> 0 .. Retries]
  BY <1>1, CountTypes DEF Exchange, TypeInv, TypeOK
<1>9. /\ opdata' \in [Requests -> [recipe : Ids \cup {Nil}, whitelist : Seq(Ids)]]
      /\ ArgsInv' /\ LoopInv'
      /\ pc' \in [Requests -> Calls \cup {"idle", "done"}]
      /\ reply' \in [Requests -> Replies]
  <2>1. CASE /\ opdata' = [opdata EXCEPT ![r].whitelist = Append(ids, Fresh(r))]
             /\ Whitelist(r, Append(ids, Fresh(r)))
    <3>1. Fresh(r) \in Ids
      BY FreshIsId DEF TypeInv, TypeOK, ComposeTypeOK
    <3>2. Append(ids, Fresh(r)) \in Seq(Ids) /\ Len(Append(ids, Fresh(r))) = Len(ids) + 1
      BY <1>5, <3>1
    <3>3. Len(Append(ids, Fresh(r))) <= Len(IPWhitelist)
      BY <1>3, <1>5, <3>2, WhitelistAssumption
    <3> HIDE DEF ids
    <3>4. /\ [opdata[r] EXCEPT !.whitelist = Append(ids, Fresh(r))]
               \in [recipe : Ids \cup {Nil}, whitelist : Seq(Ids)]
          /\ [opdata[r] EXCEPT !.whitelist = Append(ids, Fresh(r))].whitelist = Append(ids, Fresh(r))
      BY <1>4, <3>2
    <3>5. opdata' = [opdata EXCEPT ![r] = [opdata[r] EXCEPT !.whitelist = Append(ids, Fresh(r))]]
      BY <2>1
    <3>6. /\ opdata' \in [Requests -> [recipe : Ids \cup {Nil}, whitelist : Seq(Ids)]]
          /\ opdata'[r].whitelist = Append(ids, Fresh(r))
          /\ \A q \in Requests \ {r} : opdata'[q] = opdata[q]
      BY <3>4, <3>5 DEF TypeInv, TypeOK, LocalsTypeOK
    <3> QED
      BY <1>2, <1>3, <2>1, <3>2, <3>3, <3>6, Whitelisting
  <2>2. CASE GiveUp(r, answer) /\ UNCHANGED opdata
    <3>1. ArgsInv' /\ LoopInv'
      BY <1>2, <1>3, <2>2, GivingUp DEF Calls
    <3> QED
      BY <2>2, <3>1, GiveUpTypes DEF TypeInv, TypeOK, LocalsTypeOK
  <2>3. CASE RunDeferred(r, answer) /\ UNCHANGED opdata
    <3>1. pc' = [pc EXCEPT ![r] = "cleanup"]
      BY <2>3 DEF RunDeferred, Goto
    <3>2. ArgsInv' /\ LoopInv'
      BY <1>2, <1>3, <2>3, <3>1, MovingOn DEF Calls
    <3> QED
      BY <2>3, <3>1, <3>2 DEF RunDeferred, Failure, TypeInv, TypeOK, LocalsTypeOK, Calls, Replies
  <2> QED
    BY <1>1, <2>1, <2>2, <2>3
<1> QED
  BY <1>2, <1>7, <1>8, <1>9 DEF TypeInv, TypeOK, LocalsTypeOK

\* The deferred function leaves the operation data alone.
LEMMA CleanupTypes ==
  ASSUME TypeInv, NEW r \in Requests, Cleanup(r)
  PROVE  TypeInv'
<1>1. PICK answer \in AllFaults \cup {"ok", "error"}, done \in BOOLEAN :
       /\ Exchange(r, answer, done, Live(dep[r]))
       /\ IF done THEN NewRecipe(r, "deprovision", dep[r], Nil) ELSE UNCHANGED composeVars
       /\ logged' \in {logged, [logged EXCEPT ![r] = TRUE]}
       /\ \/ Goto(r, "done") /\ UNCHANGED reply
          \/ GiveUp(r, answer)
  BY DEF Cleanup
<1>2. UNCHANGED <<arg, found, dep, snap, opdata, todo, began>>
  BY DEF Cleanup
<1>3. pc[r] = "cleanup"
  BY DEF Cleanup
<1>4. ComposeTypeOK' /\ RecipeInv'
  <2>1. CASE done
    <3>1. dep[r] \in Ids
      BY <1>1, <2>1 DEF Exchange, Live, TypeInv, TypeOK, ComposeTypeOK
    <3> QED
      BY <1>1, <2>1, <3>1, NewRecipeTypes DEF TypeInv, TypeOK
  <2>2. CASE ~done
    BY <1>1, <2>2 DEF composeVars, TypeInv, TypeOK, ComposeTypeOK, RecipeInv
  <2> QED
    BY <2>1, <2>2
<1>5. tries' \in [Requests -> 0 .. Retries]
  BY <1>1, CountTypes DEF Exchange, TypeInv, TypeOK
<1>6. PICK label \in {"cleanup", "done"} : pc' = [pc EXCEPT ![r] = label]
  BY <1>1, <1>3 DEF GiveUp, Reply, Goto, TypeInv, TypeOK, LocalsTypeOK
<1>7. ArgsInv' /\ LoopInv'
  BY <1>2, <1>3, <1>6, MovingOn DEF Calls
<1>8. reply' \in [Requests -> Replies] /\ logged' \in [Requests -> BOOLEAN]
  BY <1>1 DEF GiveUp, Reply, Failure, Goto, TypeInv, TypeOK, LocalsTypeOK, Replies
<1> QED
  BY <1>2, <1>4, <1>5, <1>6, <1>7, <1>8 DEF TypeInv, TypeOK, LocalsTypeOK, Calls

\* The last call of Deprovision and Update.
LEMMA LastCallTypes ==
  ASSUME TypeInv, NEW r \in Requests, NEW kind \in {"deprovision", "scale"},
         pc[r] \in {"deprovision", "scale"}, LastCall(r, kind)
  PROVE  TypeInv'
<1>1. PICK answer \in AllFaults \cup {"ok", "error"}, done \in BOOLEAN :
       /\ Exchange(r, answer, done, Live(found[r]))
       /\ IF done THEN NewRecipe(r, kind, found[r], Nil) ELSE UNCHANGED composeVars
       /\ \/ opdata' = [opdata EXCEPT ![r].recipe = Fresh(r)] /\ Reply(r, "accepted")
          \/ Reply(r, "accepted") /\ UNCHANGED opdata
          \/ GiveUp(r, answer) /\ UNCHANGED opdata
  BY DEF LastCall
<1>2. UNCHANGED <<arg, found, dep, snap, todo, logged, began>>
  BY DEF LastCall
<1>3. ComposeTypeOK' /\ RecipeInv'
  <2>1. CASE done
    <3>1. found[r] \in Ids
      BY <1>1, <2>1 DEF Exchange, Live, TypeInv, TypeOK, ComposeTypeOK
    <3> QED
      BY <1>1, <2>1, <3>1, NewRecipeTypes DEF TypeInv, TypeOK
  <2>2. CASE ~done
    BY <1>1, <2>2 DEF composeVars, TypeInv, TypeOK, ComposeTypeOK, RecipeInv
  <2> QED
    BY <2>1, <2>2
<1>4. tries' \in [Requests -> 0 .. Retries]
  BY <1>1, CountTypes DEF Exchange, TypeInv, TypeOK
<1>5. /\ opdata' \in [Requests -> [recipe : Ids \cup {Nil}, whitelist : Seq(Ids)]]
      /\ \A q \in Requests : opdata'[q].whitelist = opdata[q].whitelist
  <2>1. Fresh(r) \in Ids
    BY FreshIsId DEF TypeInv, TypeOK, ComposeTypeOK
  <2>2. opdata' \in {opdata, [opdata EXCEPT ![r].recipe = Fresh(r)]}
    BY <1>1
  <2> QED
    BY <2>1, <2>2, NotingRecipe DEF TypeInv, TypeOK
<1>6. PICK label \in {pc[r], "done"} : pc' = [pc EXCEPT ![r] = label]
  BY <1>1 DEF GiveUp, Reply, Goto, TypeInv, TypeOK, LocalsTypeOK
<1>7. /\ pc' \in [Requests -> Calls \cup {"idle", "done"}]
      /\ reply' \in [Requests -> Replies]
  BY <1>1, <1>6 DEF GiveUp, Reply, Failure, Goto, TypeInv, TypeOK, LocalsTypeOK, Replies, Calls
<1>8. ArgsInv'
  BY <1>2, <1>6 DEF TypeInv, TypeOK, LocalsTypeOK, ArgsInv, Offered
<1>9. LoopInv'
  BY <1>2, <1>5, <1>6 DEF TypeInv, TypeOK, LocalsTypeOK, LoopInv
<1> QED
  BY <1>2, <1>3, <1>4, <1>5, <1>7, <1>8, <1>9 DEF TypeInv, TypeOK, LocalsTypeOK

\* Whatever Compose reports, the platform gets one of three states.
LEMMA StateIsReply ==
  ASSUME NEW status
  PROVE  State(status) \in Replies
<1>1. DOMAIN BrokerState = {"complete", "running", "waiting", "failed"}
  BY DEF BrokerState
<1>2. /\ BrokerState["complete"] = "op succeeded"
      /\ BrokerState["running"] = "op in progress"
      /\ BrokerState["waiting"] = "op in progress"
      /\ BrokerState["failed"] = "op failed"
  BY DEF BrokerState
<1> QED
  BY <1>1, <1>2 DEF State, Replies

\* What is left of a list of more than one is not empty.
LEMMA TailOfLonger ==
  ASSUME NEW S, NEW s \in Seq(S), Len(s) > 1
  PROVE  Tail(s) # <<>>
<1> DEFINE t == Tail(s)
<1>1. Len(s) \in Nat /\ s # <<>>
  OBVIOUS
<1>2. t \in Seq(S) /\ Len(t) = Len(s) - 1
  BY <1>1, HeadTailProperties
<1> HIDE DEF t
<1>3. Len(t) # 0
  BY <1>1, <1>2
<1>4. t # <<>>
  BY <1>3
<1> QED
  BY <1>4 DEF t

\* LastOperation reads the head of its list only while there is one.
LEMMA PollTypes ==
  ASSUME TypeInv, NEW r \in Requests, Poll(r)
  PROVE  TypeInv'
<1>1. PICK answer \in AllFaults \cup {"ok", "error"} :
       /\ Reads(r, answer)
       /\ \/ Len(todo[r]) > 1 /\ UNCHANGED <<pc, reply>>
          \/ \E status : Reply(r, State(status))
          \/ GiveUp(r, answer) /\ answer # "again"
  BY DEF Poll, GoesOn
<1>2. /\ UNCHANGED <<composeVars, tries, arg, found, dep, snap, opdata, logged, began>>
      /\ todo' = [todo EXCEPT ![r] = Tail(@)]
      /\ pc[r] = "poll"
  BY <1>1 DEF Poll, Reads
<1>3. todo[r] \in Seq(Ids \cup {Nil}) /\ todo[r] # <<>>
  BY <1>2 DEF TypeInv, TypeOK, LocalsTypeOK, LoopInv
<1>4. Tail(todo[r]) \in Seq(Ids \cup {Nil}) /\ Len(Tail(todo[r])) = Len(todo[r]) - 1
  BY <1>3, HeadTailProperties
<1>5. PICK label \in {"poll", "done"} :
        pc' = [pc EXCEPT ![r] = label] /\ (label = "poll" => Len(todo[r]) > 1)
  BY <1>1, <1>2 DEF GiveUp, Reply, Goto, TypeInv, TypeOK, LocalsTypeOK
<1>6. reply' \in [Requests -> Replies]
  BY <1>1, StateIsReply DEF GiveUp, Reply, Failure, Goto, TypeInv, TypeOK, LocalsTypeOK, Replies
<1>7. LocalsTypeOK'
  BY <1>2, <1>4, <1>5, <1>6 DEF TypeInv, TypeOK, LocalsTypeOK, Calls
<1>8. ArgsInv'
  BY <1>2, <1>5 DEF TypeInv, TypeOK, LocalsTypeOK, ArgsInv, Offered
<1>9. LoopInv'
  <2>1. label = "poll" => Tail(todo[r]) # <<>>
    BY <1>3, <1>5, TailOfLonger
  <2> QED
    BY <1>2, <1>5, <2>1 DEF TypeInv, TypeOK, LocalsTypeOK, LoopInv
<1>10. ComposeTypeOK' /\ RecipeInv'
  BY <1>2 DEF composeVars, TypeInv, TypeOK, ComposeTypeOK, RecipeInv
<1> QED
  BY <1>7, <1>8, <1>9, <1>10 DEF TypeInv, TypeOK

\* A request comes in with what it asks for, checked as far as the code does.
LEMMA BeginTypes ==
  ASSUME TypeInv, NEW r \in Requests, pc[r] = "idle", NEW a \in Arg, NEW label \in Calls,
         Begin(r, a, label), UNCHANGED opdata,
         todo' \in [Requests -> Seq(Ids \cup {Nil})],
         \A q \in Requests \ {r} : todo'[q] = todo[q],
         label = "poll" => todo'[r] # <<>>,
         label # "whitelist",
         label \in {"create", "backups", "restore", "patch", "cleanup"} => a.op = "Provision",
         a.op = "Provision" => /\ a.instance \in Instances /\ a.space \in Spaces
                               /\ Offered(a.service, a.plan)
  PROVE  /\ pc' \in [Requests -> Calls \cup {"idle", "done"}]
         /\ arg' \in [Requests -> Arg]
         /\ began' \in [Requests -> Nat]
         /\ reply' \in [Requests -> Replies]
         /\ ArgsInv' /\ LoopInv'
<1>1. pc' = [pc EXCEPT ![r] = label] /\ arg' = [arg EXCEPT ![r] = a] /\ UNCHANGED reply
  BY DEF Begin, Goto
<1>2. began' = [began EXCEPT ![r] = Len(backups)] /\ Len(backups) \in Nat
  BY DEF Begin, TypeInv, TypeOK, ComposeTypeOK
<1>3. /\ pc' \in [Requests -> Calls \cup {"idle", "done"}]
      /\ arg' \in [Requests -> Arg]
      /\ began' \in [Requests -> Nat]
      /\ reply' \in [Requests -> Replies]
  BY <1>1, <1>2 DEF TypeInv, TypeOK, LocalsTypeOK
<1>4. ArgsInv'
  <2> SUFFICES ASSUME NEW q \in Requests
               PROVE  /\ pc'[q] \in {"create", "backups", "restore", "patch", "whitelist", "cleanup"}
                           => arg'[q].op = "Provision"
                      /\ arg'[q].op = "Provision" =>
                           /\ arg'[q].instance \in Instances
                           /\ arg'[q].space \in Spaces
                           /\ Offered(arg'[q].service, arg'[q].plan)
    BY DEF ArgsInv, Offered
  <2>1. CASE q = r
    <3>1. pc'[q] = label /\ arg'[q] = a
      BY <1>1, <2>1 DEF TypeInv, TypeOK, LocalsTypeOK
    <3> QED
      BY <3>1
  <2>2. CASE q # r
    <3>1. pc'[q] = pc[q] /\ arg'[q] = arg[q]
      BY <1>1, <2>2 DEF TypeInv, TypeOK, LocalsTypeOK
    <3> QED
      BY <3>1 DEF TypeInv, ArgsInv
  <2> QED
    BY <2>1, <2>2
<1>5. LoopInv'
  BY <1>1 DEF TypeInv, TypeOK, LocalsTypeOK, LoopInv
<1> QED
  BY <1>3, <1>4, <1>5

\* A refused request keeps nothing.
LEMMA RefuseTypes ==
  ASSUME TypeInv, NEW r \in Requests, Refuse(r), UNCHANGED <<opdata, todo>>
  PROVE  /\ pc' \in [Requests -> Calls \cup {"idle", "done"}]
         /\ arg' \in [Requests -> Arg]
         /\ began' \in [Requests -> Nat]
         /\ reply' \in [Requests -> Replies]
         /\ ArgsInv' /\ LoopInv'
<1>1. /\ pc' = [pc EXCEPT ![r] = "done"]
      /\ reply' = [reply EXCEPT ![r] = "refused"]
      /\ UNCHANGED <<arg, began>>
  BY DEF Refuse, Reply, Goto
<1>2. ArgsInv' /\ LoopInv'
  BY <1>1, MovingOn DEF Calls
<1> QED
  BY <1>1, <1>2 DEF TypeInv, TypeOK, LocalsTypeOK, Calls, Replies

\* Nil is what an absent service or plan is called.
LEMMA NoArgTypes ==
  /\ NoArg \in Arg /\ NoArg.op = "none"
  /\ Nil \in Services /\ Nil \in Plans
<1>1. Nil \in Services
  BY DEF Services
<1>2. Nil \in Plans
  BY DEF Plans
<1> QED
  BY <1>1, <1>2 DEF NoArg, Arg

\* Every way a request comes in keeps the types: Provision only with a plan
\* that is offered, LastOperation with at least one recipe to read.
LEMMA ReceiveTypes ==
  ASSUME TypeInv, NEW r \in Requests, Receive(r)
  PROVE  TypeInv'
<1>1. pc[r] = "idle" /\ UNCHANGED <<composeVars, found, dep, snap, opdata, tries, logged>>
  BY DEF Receive
<1>2. Nil \in Services /\ Nil \in Plans
  BY NoArgTypes
<1> DEFINE Received ==
      /\ pc' \in [Requests -> Calls \cup {"idle", "done"}]
      /\ arg' \in [Requests -> Arg]
      /\ began' \in [Requests -> Nat]
      /\ reply' \in [Requests -> Replies]
      /\ todo' \in [Requests -> Seq(Ids \cup {Nil})]
      /\ ArgsInv' /\ LoopInv'
<1> SUFFICES Received
  <2>1. ComposeTypeOK' /\ RecipeInv'
    BY <1>1 DEF composeVars, TypeInv, TypeOK, ComposeTypeOK, RecipeInv
  <2> QED
    BY <1>1, <2>1 DEF TypeInv, TypeOK, LocalsTypeOK
<1>3. CASE Refuse(r) /\ UNCHANGED todo
  BY <1>1, <1>3, RefuseTypes DEF TypeInv, TypeOK, LocalsTypeOK
<1>4. ASSUME NEW a \in Arg, NEW label \in {"create", "list"}, Begin(r, a, label), UNCHANGED todo,
             label = "create" => a.op = "Provision",
             a.op = "Provision" => /\ a.instance \in Instances /\ a.space \in Spaces
                                   /\ Offered(a.service, a.plan)
      PROVE  Received
  <2>1. todo' \in [Requests -> Seq(Ids \cup {Nil})] /\ \A q \in Requests \ {r} : todo'[q] = todo[q]
    BY <1>4 DEF TypeInv, TypeOK, LocalsTypeOK
  <2> QED
    BY <1>1, <1>4, <2>1, BeginTypes DEF Calls
<1>5. CASE ReceiveProvision(r)
  <2>1. CASE ~ (Refuse(r) /\ UNCHANGED todo)
    <3>1. PICK i \in Instances, source \in Instances \cup {Nil}, s \in Services, p \in Plans,
               space \in Spaces :
            /\ Offered(s, p)
            /\ Begin(r, [NoArg EXCEPT !.op = "Provision", !.instance = i, !.service = s,
                           !.plan = p, !.space = space, !.source = source],
                     IF source = Nil THEN "create" ELSE "list")
            /\ UNCHANGED todo
      BY <1>5, <2>1 DEF ReceiveProvision
    <3> DEFINE a == [NoArg EXCEPT !.op = "Provision", !.instance = i, !.service = s,
                       !.plan = p, !.space = space, !.source = source]
    <3>2. /\ a \in Arg /\ a.op = "Provision" /\ a.instance \in Instances /\ a.space \in Spaces
          /\ a.service = s /\ a.plan = p
      BY <1>2 DEF NoArg, Arg, AllOps
    <3> HIDE DEF a
    <3> QED
      BY <1>4, <3>1, <3>2 DEF a
  <2> QED
    BY <1>3, <2>1
<1>6. CASE ReceiveDeprovision(r)
  <2>1. CASE ~ (Refuse(r) /\ UNCHANGED todo)
    <3>1. PICK i \in Instances :
            Begin(r, [NoArg EXCEPT !.op = "Deprovision", !.instance = i], "list") /\ UNCHANGED todo
      BY <1>6, <2>1 DEF ReceiveDeprovision
    <3>2. /\ [NoArg EXCEPT !.op = "Deprovision", !.instance = i] \in Arg
          /\ [NoArg EXCEPT !.op = "Deprovision", !.instance = i].op = "Deprovision"
      BY <1>2 DEF NoArg, Arg, AllOps
    <3> QED
      BY <1>4, <3>1, <3>2
  <2> QED
    BY <1>3, <2>1
<1>7. CASE ReceiveUpdate(r)
  <2>1. CASE ~ (Refuse(r) /\ UNCHANGED todo)
    <3>1. PICK i \in Instances, s \in Services, p \in Plans, previous \in Plans :
            /\ Begin(r, [NoArg EXCEPT !.op = "Update", !.instance = i, !.service = s,
                           !.plan = p, !.previous = previous], "list")
            /\ UNCHANGED todo
      BY <1>7, <2>1 DEF ReceiveUpdate
    <3>2. /\ [NoArg EXCEPT !.op = "Update", !.instance = i, !.service = s,
                !.plan = p, !.previous = previous] \in Arg
          /\ [NoArg EXCEPT !.op = "Update", !.instance = i, !.service = s,
                !.plan = p, !.previous = previous].op = "Update"
      BY <1>2 DEF NoArg, Arg, AllOps
    <3> QED
      BY <1>4, <3>1, <3>2
  <2> QED
    BY <1>3, <2>1
<1>8. CASE ReceiveLastOperation(r)
  <2>1. CASE ~ (Refuse(r) /\ UNCHANGED todo)
    <3>1. PICK q \in Requests :
            /\ Begin(r, [NoArg EXCEPT !.op = "LastOperation", !.of = q], "poll")
            /\ todo' = [todo EXCEPT ![r] = RecipesOf(opdata[q])]
      BY <1>8, <2>1 DEF ReceiveLastOperation
    <3>2. /\ [NoArg EXCEPT !.op = "LastOperation", !.of = q] \in Arg
          /\ [NoArg EXCEPT !.op = "LastOperation", !.of = q].op = "LastOperation"
      BY <1>2 DEF NoArg, Arg, AllOps
    <3>3. opdata[q].recipe \in Ids \cup {Nil} /\ opdata[q].whitelist \in Seq(Ids \cup {Nil})
      <4>1. Ids \subseteq Ids \cup {Nil}
        OBVIOUS
      <4>2. Seq(Ids) \subseteq Seq(Ids \cup {Nil})
        BY <4>1
      <4> QED
        BY <4>2 DEF TypeInv, TypeOK, LocalsTypeOK
    <3>4. RecipesOf(opdata[q]) \in Seq(Ids \cup {Nil}) /\ RecipesOf(opdata[q]) # <<>>
      BY <3>3 DEF RecipesOf
    <3>5. /\ todo' \in [Requests -> Seq(Ids \cup {Nil})]
          /\ \A p \in Requests \ {r} : todo'[p] = todo[p]
          /\ todo'[r] # <<>>
      BY <3>1, <3>4 DEF TypeInv, TypeOK, LocalsTypeOK
    <3> QED
      BY <1>1, <3>1, <3>2, <3>5, BeginTypes DEF Calls
  <2> QED
    BY <1>3, <2>1
<1> QED
  BY <1>5, <1>6, <1>7, <1>8 DEF Receive

\* A killed process.
LEMMA CrashTypes ==
  ASSUME TypeInv, NEW r \in Requests, Crash(r)
  PROVE  TypeInv'
<1>1. /\ pc' = [pc EXCEPT ![r] = "done"]
      /\ reply' = [reply EXCEPT ![r] = "dropped"]
      /\ UNCHANGED <<composeVars, arg, found, dep, snap, opdata, todo, tries, logged, began>>
  BY DEF Crash, Reply, Goto
<1>2. ArgsInv' /\ LoopInv'
  BY <1>1, MovingOn DEF Calls
<1> QED
  BY <1>1, <1>2 DEF composeVars, TypeInv, TypeOK, ComposeTypeOK, RecipeInv, LocalsTypeOK, Calls, Replies

\* Every step of a handler keeps the types.
LEMMA HandleTypes ==
  ASSUME TypeInv, NEW r \in Requests, Handle(r)
  PROVE  TypeInv'
<1>1. CASE Deprovision(r) \/ Update(r)
  BY <1>1, LastCallTypes DEF Deprovision, Update
<1> QED
  BY <1>1, ListTypes, GetTypes, CreateTypes, GetBackupsTypes, RestoreTypes, PatchTypes,
     AddWhitelistTypes, CleanupTypes, PollTypes DEF Handle

\* Initially all types are right and no request has come in.
LEMMA InitTypes == Init => TypeInv
<1> SUFFICES ASSUME Init PROVE TypeInv
  OBVIOUS
<1>1. NoArg \in Arg /\ NoArg.op = "none"
  BY NoArgTypes
<1>2. NoOpData \in [recipe : Ids \cup {Nil}, whitelist : Seq(Ids)] /\ NoOpData.whitelist = <<>>
  BY DEF NoOpData
<1>3. LocalsTypeOK
  BY <1>1, <1>2, RetryAssumption DEF Init, LocalsTypeOK, Replies
<1>4. ComposeTypeOK /\ RecipeInv
  BY ExistingAssumption DEF Init, ComposeInit, ComposeTypeOK, RecipeInv, Ids, Deployment
<1>5. ArgsInv /\ LoopInv
  BY <1>1, <1>2 DEF Init, ArgsInv, LoopInv
<1> QED
  BY <1>3, <1>4, <1>5 DEF TypeInv, TypeOK

\* Every step keeps the types.
LEMMA NextTypes == TypeInv /\ [Next]_vars => TypeInv'
<1> SUFFICES ASSUME TypeInv, [Next]_vars PROVE TypeInv'
  OBVIOUS
<1>1. CASE \E r \in Requests : Receive(r) \/ Handle(r) \/ Crash(r)
  BY <1>1, ReceiveTypes, HandleTypes, CrashTypes
<1>2. CASE ComposeStep /\ UNCHANGED locals
  <2>1. ComposeTypeOK' /\ RecipeInv'
    BY <1>2, ComposeStepTypes DEF TypeInv, TypeOK
  <2>2. LocalsTypeOK' /\ ArgsInv' /\ LoopInv'
    BY <1>2 DEF locals, TypeInv, TypeOK, LocalsTypeOK, ArgsInv, LoopInv, Offered
  <2> QED
    BY <2>1, <2>2 DEF TypeInv, TypeOK
<1>3. CASE UNCHANGED vars
  BY <1>3 DEF vars, locals, composeVars, TypeInv, TypeOK, ComposeTypeOK, RecipeInv,
              LocalsTypeOK, ArgsInv, LoopInv, Offered
<1> QED
  BY <1>1, <1>2, <1>3 DEF Next, Quiet

\* Every variable keeps its type in every behaviour.  TypeOK alone is not
\* inductive: ArgsInv, LoopInv and RecipeInv say why a handler finds the plan,
\* the next address and the next recipe it goes on with.
THEOREM TypeCorrect == Spec => []TypeOK
<1>1. TypeInv => TypeOK
  BY DEF TypeInv
<1> QED
  BY <1>1, InitTypes, NextTypes, PTL DEF Spec

---------------------------------------------------------------------------
(* Whose data a deployment holds.                                          *)

\* A step of request r that leaves the deployments alone keeps DataInv, when
\* it moves to or between the restore's calls only with a checked source.
LEMMA SameDeployments ==
  ASSUME TypeInv, DataInv, NEW r \in Requests, pc[r] # "idle", NEW label \in Calls \cup {"done"},
         pc' = [pc EXCEPT ![r] = label], UNCHANGED <<deployments, arg, dep>>,
         \A q \in Requests \ {r} : found'[q] = found[q],
         label \in {"backups", "restore"} =>
           /\ found'[r] \in DOMAIN deployments
           /\ deployments[found'[r]].data = arg[r].space
           /\ deployments[found'[r]].type = WantedType(r)
  PROVE  DataInv'
<1>1. \A q \in Requests : pc'[q] = IF q = r THEN label ELSE pc[q]
  BY DEF TypeInv, TypeOK, LocalsTypeOK
<1>2. label # "idle"
  BY DEF Calls
<1>3. OwnInv'
  BY <1>1, <1>2 DEF DataInv, OwnInv, WantedType
<1>4. SourceInv'
  BY <1>1 DEF DataInv, SourceInv, WantedType
<1>5. SpaceInv' /\ TargetInv'
  BY DEF DataInv, SpaceInv, TargetInv
<1> QED
  BY <1>3, <1>4, <1>5 DEF DataInv

\* A new deployment with the data and the type request r asked for keeps
\* DataInv.
LEMMA NewDeploymentData ==
  ASSUME TypeInv, DataInv, NEW r \in Requests, pc[r] # "idle",
         NEW name, NEW space \in {Nil, arg[r].space}, NEW from,
         NewDeployment(r, name, WantedType(r), space, arg[r].space, from),
         NEW label \in Calls \cup {"done"}, pc' = [pc EXCEPT ![r] = label],
         label = "restore" => pc[r] = "restore", label # "backups",
         UNCHANGED <<arg, found>>, dep' \in {dep, [dep EXCEPT ![r] = Fresh(r)]}
  PROVE  DataInv'
<1>1. \A q \in Requests : pc'[q] = IF q = r THEN label ELSE pc[q]
  BY DEF TypeInv, TypeOK, LocalsTypeOK
<1>2. Fresh(r) \in {r} \X Nat
  BY FreshIsId DEF TypeInv, TypeOK, ComposeTypeOK
<1> DEFINE new == [name |-> name, type |-> WantedType(r), space |-> space,
                   data |-> arg[r].space, from |-> from, live |-> TRUE, admits |-> {}]
<1>3. /\ DOMAIN deployments' = DOMAIN deployments \cup {Fresh(r)}
      /\ \A d \in DOMAIN deployments' : deployments'[d] = IF d = Fresh(r) THEN new ELSE deployments[d]
  BY DEF NewDeployment, With
<1>4. /\ new.data = arg[r].space /\ new.type = WantedType(r) /\ new.space = space
  OBVIOUS
<1> HIDE DEF new
<1>5. label # "idle" /\ \A q \in Requests : WantedType(q)' = WantedType(q)
  BY DEF Calls, WantedType
<1>6. OwnInv'
  <2> SUFFICES ASSUME NEW q \in Requests, NEW d \in DOMAIN deployments', d \in {q} \X Nat
               PROVE  /\ pc'[q] # "idle"
                      /\ deployments'[d].data = arg'[q].space
                      /\ deployments'[d].type = WantedType(q)'
    BY DEF OwnInv
  <2>1. CASE d = Fresh(r)
    <3>1. q = r
      BY <1>2, <2>1
    <3> QED
      BY <1>1, <1>3, <1>4, <1>5, <2>1, <3>1
  <2>2. CASE d # Fresh(r)
    <3>1. d \in DOMAIN deployments /\ deployments'[d] = deployments[d]
      BY <1>3, <2>2
    <3> QED
      BY <1>1, <1>5, <3>1 DEF DataInv, OwnInv
  <2> QED
    BY <2>1, <2>2
<1>7. SpaceInv'
  BY <1>3, <1>4 DEF DataInv, SpaceInv
<1>8. SourceInv'
  <2> SUFFICES ASSUME NEW q \in Requests, pc'[q] \in {"backups", "restore"}
               PROVE  /\ found[q] \in DOMAIN deployments'
                      /\ deployments'[found[q]].data = arg[q].space
                      /\ deployments'[found[q]].type = WantedType(q)
    BY <1>5 DEF SourceInv
  <2>1. /\ found[q] \in DOMAIN deployments
        /\ deployments[found[q]].data = arg[q].space
        /\ deployments[found[q]].type = WantedType(q)
    BY <1>1 DEF DataInv, SourceInv
  <2>2. CASE found[q] # Fresh(r)
    BY <1>3, <2>1, <2>2
  <2>3. CASE found[q] = Fresh(r)
    <3>1. arg[q].space = arg[r].space /\ WantedType(q) = WantedType(r)
      BY <1>2, <2>1, <2>3 DEF DataInv, OwnInv
    <3> QED
      BY <1>3, <1>4, <2>1, <2>3, <3>1
  <2> QED
    BY <2>2, <2>3
<1>9. TargetInv'
  BY <1>2 DEF DataInv, TargetInv, TypeInv, TypeOK, LocalsTypeOK
<1> QED
  BY <1>6, <1>7, <1>8, <1>9 DEF DataInv

\* A step that changes neither data nor type of any deployment, and writes no
\* billing code but the right one, keeps DataInv for the requests at rest.
LEMMA OtherFields ==
  ASSUME TypeInv, DataInv, DOMAIN deployments' = DOMAIN deployments,
         \A d \in DOMAIN deployments :
           /\ deployments'[d].data = deployments[d].data
           /\ deployments'[d].type = deployments[d].type
           /\ deployments'[d].space \in {deployments[d].space, deployments[d].data},
         UNCHANGED <<arg, found>>, TargetInv',
         \A q \in Requests : /\ pc[q] # "idle" => pc'[q] # "idle"
                             /\ pc'[q] \in {"backups", "restore"} => pc[q] = pc'[q]
  PROVE  DataInv'
<1>1. OwnInv'
  BY DEF DataInv, OwnInv, WantedType
<1>2. SpaceInv'
  BY DEF DataInv, SpaceInv
<1>3. SourceInv'
  BY DEF DataInv, SourceInv, WantedType
<1> QED
  BY <1>1, <1>2, <1>3 DEF DataInv

\* Where a handler stands when it gave up.
LEMMA GiveUpLabel ==
  ASSUME LocalsTypeOK, NEW r \in Requests, NEW answer, GiveUp(r, answer)
  PROVE  \E label \in {pc[r], "done"} : pc' = [pc EXCEPT ![r] = label]
BY DEF GiveUp, Reply, Goto, LocalsTypeOK

\* The step that checks the source: space and type are compared here, and the
\* billing code compared stands for the data (SpaceInv).
LEMMA GetData ==
  ASSUME TypeInv, DataInv, NEW r \in Requests, Get(r)
  PROVE  DataInv'
<1>1. PICK answer \in AllFaults \cup {"ok", "error"} :
       /\ Reads(r, answer)
       /\ \/ Live(found[r]) /\ Got(r, found[r]) /\ UNCHANGED found
          \/ Got(r, Nil) /\ found' = [found EXCEPT ![r] = Nil]
          \/ NotFound(r) /\ UNCHANGED found
          \/ GiveUp(r, answer) /\ answer # "again" /\ UNCHANGED found
  BY DEF Get
<1>2. /\ UNCHANGED <<deployments, arg, dep>> /\ pc[r] = "get"
      /\ \A q \in Requests \ {r} : found'[q] = found[q]
  BY <1>1 DEF Get, Reads, composeVars, TypeInv, TypeOK, LocalsTypeOK
<1>3. ASSUME Live(found[r]), Got(r, found[r]), UNCHANGED found, pc' = [pc EXCEPT ![r] = "backups"]
      PROVE  DataInv'
  <2>1. pc'[r] = "backups"
    BY <1>3 DEF TypeInv, TypeOK, LocalsTypeOK
  <2>2. arg[r].op = "Provision" /\ MayRestore(r, found[r])
    BY <1>3, <2>1 DEF Got, Goto, Reply, TypeInv, TypeOK, LocalsTypeOK
  <2>3. arg[r].space \in Spaces /\ arg[r].space # Nil
    BY <2>2, NilAssumption DEF TypeInv, ArgsInv
  <2>4. /\ found[r] \in DOMAIN deployments
        /\ deployments[found[r]].space = arg[r].space
        /\ deployments[found[r]].type = WantedType(r)
    BY <1>3, <2>2 DEF MayRestore, SameSpace, SameType, Live
  <2>5. deployments[found[r]].data = arg[r].space
    BY <2>3, <2>4 DEF DataInv, SpaceInv
  <2> QED
    BY <1>2, <1>3, <2>4, <2>5, SameDeployments DEF Calls
<1>4. ASSUME NEW label \in {"deprovision", "scale", "done"}, pc' = [pc EXCEPT ![r] = label]
      PROVE  DataInv'
  BY <1>2, <1>4, SameDeployments DEF Calls
<1>5. CASE Live(found[r]) /\ Got(r, found[r]) /\ UNCHANGED found
  BY <1>3, <1>4, <1>5 DEF Got, Goto, Reply
<1>6. CASE Got(r, Nil)
  BY <1>4, <1>6 DEF Got, Goto, Reply, MayRestore, SameSpace
<1>7. CASE NotFound(r)
  BY <1>4, <1>7 DEF NotFound, Goto, Reply
<1>8. CASE GiveUp(r, answer) /\ answer # "again"
  BY <1>4, <1>8 DEF GiveUp, Goto, Reply
<1> QED
  BY <1>1, <1>5, <1>6, <1>7, <1>8

\* Choosing a backup keeps the checked source.
LEMMA GetBackupsData ==
  ASSUME TypeInv, DataInv, NEW r \in Requests, GetBackups(r)
  PROVE  DataInv'
<1>1. /\ UNCHANGED <<deployments, arg, dep, found>> /\ pc[r] = "backups"
      /\ \E label \in {"restore", "done"} : pc' = [pc EXCEPT ![r] = label]
  BY DEF GetBackups, Reads, composeVars, GiveUp, Reply, Goto
<1>2. /\ found[r] \in DOMAIN deployments
      /\ deployments[found[r]].data = arg[r].space
      /\ deployments[found[r]].type = WantedType(r)
  BY <1>1 DEF DataInv, SourceInv
<1> QED
  BY <1>1, <1>2, SameDeployments DEF Calls

\* A blank deployment holds the data of the space that asks for it.
LEMMA CreateData ==
  ASSUME TypeInv, DataInv, NEW r \in Requests, Create(r)
  PROVE  DataInv'
<1>1. PICK answer \in AllFaults \cup {"ok", "error"}, done \in BOOLEAN :
       /\ IF done THEN NewDeployment(r, arg[r].instance, WantedType(r), arg[r].space, arg[r].space, 0)
                  ELSE UNCHANGED composeVars
       /\ answer = "ok" => done
       /\ \/ answer = "ok" /\ dep' = [dep EXCEPT ![r] = Fresh(r)] /\ Whitelist(r, <<>>)
          \/ Whitelist(r, <<>>) /\ UNCHANGED dep
          \/ GiveUp(r, answer) /\ UNCHANGED dep
  BY DEF Create, Exchange
<1>2. pc[r] = "create" /\ UNCHANGED <<arg, found>>
  BY DEF Create
<1>3. PICK label \in {"create", "whitelist", "done"} : pc' = [pc EXCEPT ![r] = label]
  BY <1>1, <1>2, GiveUpLabel DEF Whitelist, Reply, Goto, TypeInv, TypeOK
<1>4. dep' \in {dep, [dep EXCEPT ![r] = Fresh(r)]}
  BY <1>1
<1>5. CASE done
  BY <1>1, <1>2, <1>3, <1>4, <1>5, NewDeploymentData DEF Calls
<1>6. CASE ~done
  BY <1>1, <1>2, <1>3, <1>6, SameDeployments DEF composeVars, Calls
<1> QED
  BY <1>5, <1>6

\* A restored deployment gets data and type of the source, which SourceInv
\* ties to the request: the step the whole invariant is for.
LEMMA RestoreData ==
  ASSUME TypeInv, DataInv, NEW r \in Requests, Restore(r)
  PROVE  DataInv'
<1>1. PICK answer \in AllFaults \cup {"ok", "error"}, done \in BOOLEAN :
       /\ IF done THEN NewDeployment(r, arg[r].instance, deployments[found[r]].type, Nil,
                                     deployments[found[r]].data, snap[r])
                  ELSE UNCHANGED composeVars
       /\ answer = "ok" => done
       /\ \/ answer = "ok" /\ dep' = [dep EXCEPT ![r] = Fresh(r)] /\ Goto(r, "patch")
          \/ Goto(r, "patch") /\ UNCHANGED dep
          \/ GiveUp(r, answer) /\ UNCHANGED dep
  BY DEF Restore, Exchange
<1>2. pc[r] = "restore" /\ UNCHANGED <<arg, found>>
  BY DEF Restore
<1>3. PICK label \in {"restore", "patch", "done"} : pc' = [pc EXCEPT ![r] = label]
  BY <1>1, <1>2, GiveUpLabel DEF Goto, TypeInv, TypeOK
<1>4. dep' \in {dep, [dep EXCEPT ![r] = Fresh(r)]}
  BY <1>1
<1>5. /\ found[r] \in DOMAIN deployments
      /\ deployments[found[r]].data = arg[r].space
      /\ deployments[found[r]].type = WantedType(r)
  BY <1>2 DEF DataInv, SourceInv
<1>6. CASE done
  <2>1. NewDeployment(r, arg[r].instance, WantedType(r), Nil, arg[r].space, snap[r])
    BY <1>1, <1>5, <1>6
  <2> QED
    BY <1>2, <1>3, <1>4, <2>1, NewDeploymentData DEF Calls
<1>7. CASE ~done
  BY <1>1, <1>2, <1>3, <1>5, <1>7, SameDeployments DEF composeVars, Calls
<1> QED
  BY <1>6, <1>7

\* The billing code is written to a deployment of the request's own, so it is
\* the one of the data it holds (TargetInv and OwnInv).
LEMMA PatchData ==
  ASSUME TypeInv, DataInv, NEW r \in Requests, Patch(r)
  PROVE  DataInv'
<1>1. PICK answer \in AllFaults \cup {"ok", "error"}, done \in BOOLEAN :
       /\ done => Live(dep[r])
       /\ IF done THEN SetSpace(dep[r], arg[r].space) ELSE UNCHANGED composeVars
       /\ dep' \in {dep, [dep EXCEPT ![r] = Nil]}
       /\ Whitelist(r, <<>>) \/ GiveUp(r, answer)
  BY DEF Patch, Exchange
<1>2. pc[r] = "patch" /\ UNCHANGED <<arg, found>>
  BY DEF Patch
<1>3. PICK label \in {"patch", "whitelist", "done"} : pc' = [pc EXCEPT ![r] = label]
  BY <1>1, <1>2, GiveUpLabel DEF Whitelist, Reply, Goto, TypeInv, TypeOK
<1>4. TargetInv'
  BY <1>1 DEF DataInv, TargetInv, TypeInv, TypeOK, LocalsTypeOK
<1>5. \A q \in Requests : /\ pc[q] # "idle" => pc'[q] # "idle"
                          /\ pc'[q] \in {"backups", "restore"} => pc[q] = pc'[q]
  BY <1>3 DEF TypeInv, TypeOK, LocalsTypeOK
<1>6. /\ DOMAIN deployments' = DOMAIN deployments
      /\ \A d \in DOMAIN deployments :
           /\ deployments'[d].data = deployments[d].data
           /\ deployments'[d].type = deployments[d].type
           /\ deployments'[d].space \in {deployments[d].space, deployments[d].data}
  <2>1. CASE done
    <3>1. dep[r] \in DOMAIN deployments /\ dep[r] # Nil
      BY <1>1, <2>1, NilAssumption DEF Live, TypeInv, TypeOK, ComposeTypeOK
    <3>2. deployments[dep[r]].data = arg[r].space
      BY <3>1 DEF DataInv, TargetInv, OwnInv
    <3>3. deployments' = [deployments EXCEPT ![dep[r]] = [deployments[dep[r]] EXCEPT !.space = arg[r].space]]
      BY <1>1, <2>1 DEF SetSpace
    <3>4. deployments[dep[r]] \in Deployment
      BY <3>1 DEF TypeInv, TypeOK, ComposeTypeOK
    <3>5. /\ [deployments[dep[r]] EXCEPT !.space = arg[r].space].space = arg[r].space
          /\ [deployments[dep[r]] EXCEPT !.space = arg[r].space].data = deployments[dep[r]].data
          /\ [deployments[dep[r]] EXCEPT !.space = arg[r].space].type = deployments[dep[r]].type
      BY <3>4 DEF Deployment
    <3> QED
      BY <3>1, <3>2, <3>3, <3>5
  <2>2. CASE ~done
    BY <1>1, <2>2 DEF composeVars
  <2> QED
    BY <2>1, <2>2
<1> QED
  BY <1>2, <1>4, <1>5, <1>6, OtherFields

\* The other handler steps change no deployment.
LEMMA OtherHandlersData ==
  ASSUME TypeInv, DataInv, NEW r \in Requests,
         \/ List(r) \/ AddWhitelist(r) \/ Cleanup(r) \/ Deprovision(r) \/ Update(r) \/ Poll(r)
         \/ Crash(r)
  PROVE  DataInv'
<1> DEFINE Still == /\ UNCHANGED <<deployments, arg, dep>>
                    /\ \A q \in Requests \ {r} : found'[q] = found[q]
                    /\ pc[r] \in Calls \ {"backups", "restore"}
                    /\ \E label \in {pc[r], "get", "whitelist", "cleanup", "done"} :
                         pc' = [pc EXCEPT ![r] = label]
<1>1. ASSUME List(r) PROVE Still
  <2>1. /\ UNCHANGED <<deployments, arg, dep>> /\ pc[r] = "list"
        /\ \A q \in Requests \ {r} : found'[q] = found[q]
    BY <1>1 DEF List, Reads, composeVars, TypeInv, TypeOK, LocalsTypeOK
  <2>2. \E label \in {"get", "done"} : pc' = [pc EXCEPT ![r] = label]
    BY <1>1 DEF List, NotFound, Reads, GiveUp, Reply, Goto
  <2> QED
    BY <2>1, <2>2 DEF Calls
<1>2. ASSUME AddWhitelist(r) PROVE Still
  <2>1. UNCHANGED <<deployments, arg, dep, found>> /\ pc[r] = "whitelist"
    BY <1>2 DEF AddWhitelist, NewRecipe, composeVars
  <2>2. \E label \in {pc[r], "whitelist", "cleanup", "done"} : pc' = [pc EXCEPT ![r] = label]
    <3>1. \E ids, answer : Whitelist(r, ids) \/ GiveUp(r, answer) \/ RunDeferred(r, answer)
      BY <1>2 DEF AddWhitelist
    <3> QED
      BY <3>1, GiveUpLabel DEF Whitelist, RunDeferred, Reply, Goto, TypeInv, TypeOK
  <2> QED
    BY <2>1, <2>2 DEF Calls
<1>3. ASSUME Cleanup(r) PROVE Still
  <2>1. UNCHANGED <<deployments, arg, dep, found>> /\ pc[r] = "cleanup"
    BY <1>3 DEF Cleanup, NewRecipe, composeVars
  <2>2. \E label \in {pc[r], "done"} : pc' = [pc EXCEPT ![r] = label]
    <3>1. \E answer : Goto(r, "done") \/ GiveUp(r, answer)
      BY <1>3 DEF Cleanup
    <3> QED
      BY <3>1, GiveUpLabel DEF Goto, TypeInv, TypeOK
  <2> QED
    BY <2>1, <2>2 DEF Calls
<1>4. ASSUME Deprovision(r) \/ Update(r) PROVE Still
  <2>1. UNCHANGED <<deployments, arg, dep, found>> /\ pc[r] \in {"deprovision", "scale"}
    BY <1>4 DEF Deprovision, Update, LastCall, NewRecipe, composeVars
  <2>2. \E label \in {pc[r], "done"} : pc' = [pc EXCEPT ![r] = label]
    <3>1. \E answer : Reply(r, answer) \/ GiveUp(r, answer)
      BY <1>4 DEF Deprovision, Update, LastCall
    <3> QED
      BY <3>1, GiveUpLabel DEF Reply, Goto, TypeInv, TypeOK
  <2> QED
    BY <2>1, <2>2 DEF Calls
<1>5. ASSUME Poll(r) PROVE Still
  <2>1. UNCHANGED <<deployments, arg, dep, found>> /\ pc[r] = "poll"
    BY <1>5 DEF Poll, Reads, composeVars
  <2>2. \E label \in {pc[r], "done"} : pc' = [pc EXCEPT ![r] = label]
    <3>1. \E answer : UNCHANGED pc \/ Reply(r, answer) \/ GiveUp(r, answer)
      BY <1>5 DEF Poll
    <3> QED
      BY <3>1, GiveUpLabel DEF Reply, Goto, TypeInv, TypeOK, LocalsTypeOK
  <2> QED
    BY <2>1, <2>2 DEF Calls
<1>6. CASE Crash(r)
  <2>1. /\ UNCHANGED <<deployments, arg, dep, found>> /\ pc[r] # "idle"
        /\ pc' = [pc EXCEPT ![r] = "done"]
    BY <1>6 DEF Crash, composeVars, Reply, Goto, Calls
  <2> QED
    BY <2>1, SameDeployments
<1>7. ASSUME Still PROVE DataInv'
  <2>1. pc[r] \in Calls /\ pc[r] # "idle" /\ pc[r] \notin {"backups", "restore"}
    BY <1>7 DEF Calls
  <2> QED
    BY <1>7, <2>1, SameDeployments DEF Calls
<1> QED
  BY <1>1, <1>2, <1>3, <1>4, <1>5, <1>6, <1>7

\* A request that comes in owns nothing yet.
LEMMA ReceiveData ==
  ASSUME TypeInv, DataInv, NEW r \in Requests, Receive(r)
  PROVE  DataInv'
<1>1. pc[r] = "idle" /\ UNCHANGED <<deployments, found, dep>>
  BY DEF Receive, composeVars
<1>2. Refuse(r) \/ \E a, label : label \in {"create", "list", "poll"} /\ Begin(r, a, label)
  <2>1. CASE ReceiveProvision(r)
    <3>1. Refuse(r) \/ \E a, source : Begin(r, a, IF source = Nil THEN "create" ELSE "list")
      BY <2>1 DEF ReceiveProvision
    <3> QED
      BY <3>1
  <2>2. CASE ReceiveDeprovision(r)
    BY <2>2 DEF ReceiveDeprovision
  <2>3. CASE ReceiveUpdate(r)
    BY <2>3 DEF ReceiveUpdate
  <2>4. CASE ReceiveLastOperation(r)
    BY <2>4 DEF ReceiveLastOperation
  <2> QED
    BY <2>1, <2>2, <2>3, <2>4 DEF Receive
<1>3. PICK label \in {"create", "list", "poll", "done"} : pc' = [pc EXCEPT ![r] = label]
  BY <1>2 DEF Refuse, Reply, Begin, Goto
<1>4. \A q \in Requests \ {r} : pc'[q] = pc[q] /\ arg'[q] = arg[q]
  BY <1>2, <1>3 DEF Refuse, Begin, TypeInv, TypeOK, LocalsTypeOK
<1>5. pc'[r] = label
  BY <1>3 DEF TypeInv, TypeOK, LocalsTypeOK
<1>6. \A d \in DOMAIN deployments : d \notin {r} \X Nat
  BY <1>1 DEF DataInv, OwnInv
<1>7. OwnInv'
  BY <1>1, <1>4, <1>6 DEF DataInv, OwnInv, WantedType
<1>8. SourceInv'
  BY <1>1, <1>4, <1>5 DEF DataInv, SourceInv, WantedType
<1>9. SpaceInv' /\ TargetInv'
  BY <1>1 DEF DataInv, SpaceInv, TargetInv
<1> QED
  BY <1>7, <1>8, <1>9 DEF DataInv

\* Recipes and backups change neither whose data a deployment holds nor its
\* type.
LEMMA ComposeStepData ==
  ASSUME TypeInv, DataInv, ComposeStep, UNCHANGED locals
  PROVE  DataInv'
<1>1. /\ DOMAIN deployments' = DOMAIN deployments
      /\ \A d \in DOMAIN deployments :
           /\ deployments'[d].data = deployments[d].data
           /\ deployments'[d].type = deployments[d].type
           /\ deployments'[d].space = deployments[d].space
  <2>1. CASE \E x \in DOMAIN recipes : Progress(x)
    <3>1. PICK x \in DOMAIN recipes :
            \/ /\ Live(recipes[x].on)
               /\ deployments' = [deployments EXCEPT ![recipes[x].on] = Effect(recipes[x], @)]
            \/ UNCHANGED deployments
      BY <2>1 DEF Progress
    <3>2. ASSUME NEW e \in Deployment
          PROVE  /\ Effect(recipes[x], e).data = e.data
                 /\ Effect(recipes[x], e).type = e.type
                 /\ Effect(recipes[x], e).space = e.space
      <4>1. CASE recipes[x].kind = "whitelist"
        BY <4>1 DEF Effect, Deployment
      <4>2. CASE recipes[x].kind = "deprovision"
        BY <4>2 DEF Effect, Deployment
      <4>3. CASE recipes[x].kind \notin {"whitelist", "deprovision"}
        BY <4>3 DEF Effect
      <4> QED
        BY <4>1, <4>2, <4>3
    <3> QED
      BY <3>1, <3>2 DEF Live, TypeInv, TypeOK, ComposeTypeOK
  <2>2. CASE \E d \in DOMAIN deployments : TakeBackup(d)
    BY <2>2 DEF TakeBackup
  <2> QED
    BY <2>1, <2>2 DEF ComposeStep
<1>2. UNCHANGED <<arg, found, dep, pc>>
  BY DEF locals
<1>3. TargetInv'
  BY <1>2 DEF DataInv, TargetInv
<1> QED
  BY <1>1, <1>2, <1>3, OtherFields

\* Initially nothing has been made for any request, and the billing codes of
\* the existing deployments are right.
LEMMA InitData == Init => DataInv
<1> SUFFICES ASSUME Init PROVE DataInv
  OBVIOUS
<1>1. \A r \in Requests : \A d \in DOMAIN deployments : d \notin {r} \X Nat
  BY ExistingAssumption DEF Init, ComposeInit
<1>2. OwnInv
  BY <1>1 DEF OwnInv
<1>3. SpaceInv
  BY DEF Init, ComposeInit, SpaceInv
<1>4. SourceInv /\ TargetInv
  BY DEF Init, SourceInv, TargetInv
<1> QED
  BY <1>2, <1>3, <1>4 DEF DataInv

\* Every step keeps DataInv.
LEMMA NextData == TypeInv /\ DataInv /\ [Next]_vars => DataInv'
<1> SUFFICES ASSUME TypeInv, DataInv, [Next]_vars PROVE DataInv'
  OBVIOUS
<1>1. ASSUME NEW r \in Requests, Receive(r) \/ Handle(r) \/ Crash(r)
      PROVE  DataInv'
  BY <1>1, ReceiveData, GetData, CreateData, GetBackupsData, RestoreData, PatchData,
     OtherHandlersData DEF Handle
<1>2. CASE ComposeStep /\ UNCHANGED locals
  BY <1>2, ComposeStepData
<1>3. CASE UNCHANGED vars
  BY <1>3 DEF vars, locals, composeVars, DataInv, OwnInv, SpaceInv, SourceInv, TargetInv, WantedType
<1> QED
  BY <1>1, <1>2, <1>3 DEF Next, Quiet

\* The types and DataInv together are an inductive invariant.
LEMMA BrokerInvariant == Spec => []BrokerInv
<1>1. Init => BrokerInv
  BY InitTypes, InitData DEF BrokerInv
<1>2. BrokerInv /\ [Next]_vars => BrokerInv'
  BY NextTypes, NextData DEF BrokerInv
<1> QED
  BY <1>1, <1>2, PTL DEF Spec

\* A deployment holds only the data of the space it was made for, along all
\* chains of restores.  The check compares billing codes, so the invariant
\* ties the billing code to the data, and carries the checked source from the
\* check to the restore.
THEOREM DataStaysInSpace == Spec => []OnlyOwnData
<1>1. BrokerInv => OnlyOwnData
  BY DEF BrokerInv, DataInv, OwnInv, OnlyOwnData
<1> QED
  BY <1>1, BrokerInvariant, PTL

\* A deployment has the type of the plan that was asked for.
THEOREM TypeIsWanted == Spec => []OnlyWantedType
<1>1. BrokerInv => OnlyWantedType
  BY DEF BrokerInv, DataInv, OwnInv, OnlyWantedType
<1> QED
  BY <1>1, BrokerInvariant, PTL
=============================================================================
