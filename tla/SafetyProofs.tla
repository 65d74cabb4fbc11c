---------------------------- MODULE SafetyProofs ----------------------------
(***************************************************************************)
(* What requests leave at Compose: nothing but on the instance they name,  *)
(* all addresses whitelisted, the newest backup restored, no deployment    *)
(* lost without a word.  For every value of the constants and all faults.  *)
(***************************************************************************)
EXTENDS BrokerProofs, FiniteSetTheorems

---------------------------------------------------------------------------
(* What Compose has once made stays, and its names and sources with it.    *)

Grows ==
  /\ DOMAIN deployments \subseteq DOMAIN deployments'
  /\ \A d \in DOMAIN deployments : /\ deployments'[d].name = deployments[d].name
                                   /\ deployments'[d].from = deployments[d].from
  /\ DOMAIN recipes \subseteq DOMAIN recipes'
  /\ \A x \in DOMAIN recipes : /\ recipes'[x].kind = recipes[x].kind
                               /\ recipes'[x].on = recipes[x].on
                               /\ recipes'[x].ip = recipes[x].ip
  /\ Len(backups) <= Len(backups')
  /\ \A b \in DOMAIN backups : b \in DOMAIN backups' /\ backups'[b] = backups[b]

\* All that is new is the next thing made for r.
OnlyFor(r) ==
  /\ DOMAIN deployments' \subseteq DOMAIN deployments \cup {Fresh(r)}
  /\ DOMAIN recipes' \subseteq DOMAIN recipes \cup {Fresh(r)}

\* A call of r that Compose performs, or not.
Orderly(r) == Grows /\ OnlyFor(r) /\ ReferInv' /\ UNCHANGED backups

\* The next identifier for r is one Compose has not given out.
LEMMA FreshIsNew ==
  ASSUME TypeInv, ReferInv, NEW r \in Requests
  PROVE  /\ Fresh(r) \notin DOMAIN deployments \cup DOMAIN recipes
         /\ Fresh(r) \in {r} \X Nat
         /\ Fresh(r)[2] = made[r] + 1
<1>1. made[r] \in Nat /\ Fresh(r) \in {r} \X Nat /\ Fresh(r)[2] = made[r] + 1
  BY FreshIsId DEF Fresh, TypeInv, TypeOK, ComposeTypeOK
<1>2. ~(Fresh(r)[2] <= made[r])
  BY <1>1
<1> QED
  BY <1>1, <1>2 DEF ReferInv, OwnDeployments, OwnRecipes

\* When r's counter goes up, what was made so far stays within the counters.
LEMMA CountersStay ==
  ASSUME TypeInv, ReferInv, NEW r \in Requests, made' = [made EXCEPT ![r] = @ + 1],
         OnlyFor(r)
  PROVE  \A q \in Requests : \A e \in OwnDeployments(q)' \cup OwnRecipes(q)' : e[2] <= made'[q]
<1> SUFFICES ASSUME NEW q \in Requests, NEW e \in {q} \X Nat,
                    e \in DOMAIN deployments' \cup DOMAIN recipes'
             PROVE  e[2] <= made'[q]
  BY DEF OwnDeployments, OwnRecipes
<1>1. made \in [Requests -> Nat] /\ e[2] \in Nat
  BY DEF TypeInv, TypeOK, ComposeTypeOK
<1>2. made[q] <= made'[q] /\ made[q] \in Nat /\ made'[q] \in Nat
  BY <1>1
<1>3. CASE e = Fresh(r)
  <2>1. q = r /\ e[2] = made[r] + 1
    BY <1>3, FreshIsNew
  <2> QED
    BY <1>1, <2>1
<1>4. CASE e # Fresh(r)
  <2>1. e[2] <= made[q]
    BY <1>4 DEF OnlyFor, ReferInv, OwnDeployments, OwnRecipes
  <2> QED
    BY <1>1, <1>2, <2>1
<1> QED
  BY <1>3, <1>4

\* A new deployment for r.
LEMMA NewDeploymentOrderly ==
  ASSUME TypeInv, ReferInv, NEW r \in Requests, NEW name, NEW type, NEW space, NEW data, NEW from,
         NewDeployment(r, name, type, space, data, from)
  PROVE  /\ Orderly(r)
         /\ Fresh(r) \in DOMAIN deployments'
         /\ deployments'[Fresh(r)].name = name /\ deployments'[Fresh(r)].from = from
         /\ Fresh(r) \in DOMAIN recipes'
         /\ recipes'[Fresh(r)].kind = "provision" /\ recipes'[Fresh(r)].on = Fresh(r)
<1>1. Fresh(r) \notin DOMAIN deployments \cup DOMAIN recipes
  BY FreshIsNew
<1>2. /\ DOMAIN deployments' = DOMAIN deployments \cup {Fresh(r)}
      /\ \A d \in DOMAIN deployments : deployments'[d] = deployments[d]
      /\ deployments'[Fresh(r)].name = name /\ deployments'[Fresh(r)].from = from
  BY <1>1 DEF NewDeployment, With
<1>3. /\ DOMAIN recipes' = DOMAIN recipes \cup {Fresh(r)}
      /\ \A x \in DOMAIN recipes : recipes'[x] = recipes[x]
      /\ recipes'[Fresh(r)].kind = "provision" /\ recipes'[Fresh(r)].on = Fresh(r)
  BY <1>1 DEF NewDeployment, With, RecipeFor
<1>4. UNCHANGED backups /\ Len(backups) \in Nat
  BY DEF NewDeployment, TypeInv, TypeOK, ComposeTypeOK
<1>5. Grows /\ OnlyFor(r)
  BY <1>2, <1>3, <1>4 DEF Grows, OnlyFor
<1>6. ReferInv'
  <2>1. \A q \in Requests : \A e \in OwnDeployments(q)' \cup OwnRecipes(q)' : e[2] <= made'[q]
    BY <1>5, CountersStay DEF NewDeployment
  <2> QED
    BY <1>2, <1>3, <1>4, <2>1 DEF ReferInv
<1> QED
  BY <1>2, <1>3, <1>4, <1>5, <1>6 DEF Orderly

\* A new recipe for r on a deployment there is.
LEMMA NewRecipeOrderly ==
  ASSUME TypeInv, ReferInv, NEW r \in Requests, NEW kind, NEW d \in DOMAIN deployments, NEW ip,
         NewRecipe(r, kind, d, ip)
  PROVE  /\ Orderly(r)
         /\ UNCHANGED deployments
         /\ Fresh(r) \in DOMAIN recipes'
         /\ recipes'[Fresh(r)].kind = kind /\ recipes'[Fresh(r)].on = d
         /\ recipes'[Fresh(r)].ip = ip
<1>1. Fresh(r) \notin DOMAIN deployments \cup DOMAIN recipes
  BY FreshIsNew
<1>2. /\ DOMAIN recipes' = DOMAIN recipes \cup {Fresh(r)}
      /\ \A x \in DOMAIN recipes : recipes'[x] = recipes[x]
      /\ recipes'[Fresh(r)].kind = kind /\ recipes'[Fresh(r)].on = d
      /\ recipes'[Fresh(r)].ip = ip
  BY <1>1 DEF NewRecipe, With, RecipeFor
<1>3. UNCHANGED <<deployments, backups>> /\ Len(backups) \in Nat
  BY DEF NewRecipe, TypeInv, TypeOK, ComposeTypeOK
<1>4. Grows /\ OnlyFor(r)
  BY <1>2, <1>3 DEF Grows, OnlyFor
<1>5. ReferInv'
  <2>1. \A q \in Requests : \A e \in OwnDeployments(q)' \cup OwnRecipes(q)' : e[2] <= made'[q]
    BY <1>4, CountersStay DEF NewRecipe
  <2> QED
    BY <1>2, <1>3, <2>1 DEF ReferInv
<1> QED
  BY <1>2, <1>3, <1>4, <1>5 DEF Orderly

\* Writing a billing code, or nothing at all.
LEMMA SetSpaceOrderly ==
  ASSUME TypeInv, ReferInv, NEW r \in Requests, NEW d \in DOMAIN deployments, NEW space,
         SetSpace(d, space)
  PROVE  Orderly(r) /\ DOMAIN deployments' = DOMAIN deployments /\ UNCHANGED recipes
<1>1. deployments' = [deployments EXCEPT ![d] = [deployments[d] EXCEPT !.space = space]]
  BY DEF SetSpace
<1>2. deployments[d] \in Deployment /\ Len(backups) \in Nat
  BY DEF TypeInv, TypeOK, ComposeTypeOK
<1>3. /\ [deployments[d] EXCEPT !.space = space].name = deployments[d].name
      /\ [deployments[d] EXCEPT !.space = space].from = deployments[d].from
  BY <1>2 DEF Deployment
<1>4. UNCHANGED <<recipes, backups, made>> /\ DOMAIN deployments' = DOMAIN deployments
  BY <1>1 DEF SetSpace
<1>5. Grows /\ OnlyFor(r)
  BY <1>1, <1>2, <1>3, <1>4 DEF Grows, OnlyFor
<1>6. ReferInv'
  BY <1>4 DEF ReferInv, OwnDeployments, OwnRecipes
<1> QED
  BY <1>4, <1>5, <1>6 DEF Orderly

LEMMA NothingOrderly ==
  ASSUME TypeInv, ReferInv, NEW r \in Requests, UNCHANGED composeVars
  PROVE  Orderly(r)
<1>1. Len(backups) \in Nat
  BY DEF TypeInv, TypeOK, ComposeTypeOK
<1> QED
  BY <1>1 DEF Orderly, Grows, OnlyFor, ReferInv, OwnDeployments, OwnRecipes, composeVars

\* What Compose does in its own time.
LEMMA ComposeStepGrows ==
  ASSUME TypeInv, ReferInv, ComposeStep
  PROVE  /\ Grows /\ ReferInv'
         /\ DOMAIN deployments' = DOMAIN deployments /\ DOMAIN recipes' = DOMAIN recipes
<1>1. backups \in Seq(Backup) /\ Len(backups) \in Nat
  BY DEF TypeInv, TypeOK, ComposeTypeOK
<1>2. CASE \E x \in DOMAIN recipes : Progress(x)
  <2>1. PICK x \in DOMAIN recipes, status \in Statuses :
          /\ recipes' = [recipes EXCEPT ![x].status = status]
          /\ \/ /\ Live(recipes[x].on)
                /\ deployments' = [deployments EXCEPT ![recipes[x].on] = Effect(recipes[x], @)]
             \/ UNCHANGED deployments
          /\ UNCHANGED <<backups, made>>
    BY <1>2 DEF Progress
  <2>2. recipes[x] \in Recipe
    BY DEF TypeInv, TypeOK, ComposeTypeOK
  <2>3. /\ [recipes[x] EXCEPT !.status = status].kind = recipes[x].kind
        /\ [recipes[x] EXCEPT !.status = status].on = recipes[x].on
        /\ [recipes[x] EXCEPT !.status = status].ip = recipes[x].ip
    BY <2>2 DEF Recipe
  <2>4. recipes' = [recipes EXCEPT ![x] = [recipes[x] EXCEPT !.status = status]]
    BY <2>1
  <2>5. /\ DOMAIN recipes' = DOMAIN recipes
        /\ \A y \in DOMAIN recipes : /\ recipes'[y].kind = recipes[y].kind
                                     /\ recipes'[y].on = recipes[y].on
                                     /\ recipes'[y].ip = recipes[y].ip
    BY <2>3, <2>4
  <2>6. ASSUME NEW e \in Deployment
        PROVE  Effect(recipes[x], e).name = e.name /\ Effect(recipes[x], e).from = e.from
    <3>1. CASE recipes[x].kind = "whitelist"
      BY <3>1 DEF Effect, Deployment
    <3>2. CASE recipes[x].kind = "deprovision"
      BY <3>2 DEF Effect, Deployment
    <3>3. CASE recipes[x].kind \notin {"whitelist", "deprovision"}
      BY <3>3 DEF Effect
    <3> QED
      BY <3>1, <3>2, <3>3
  <2>7. /\ DOMAIN deployments' = DOMAIN deployments
        /\ \A d \in DOMAIN deployments : /\ deployments'[d].name = deployments[d].name
                                         /\ deployments'[d].from = deployments[d].from
    BY <2>1, <2>6 DEF Live, TypeInv, TypeOK, ComposeTypeOK
  <2>8. Grows
    BY <1>1, <2>1, <2>5, <2>7 DEF Grows
  <2>9. ReferInv'
    BY <2>1, <2>5, <2>7 DEF ReferInv, OwnDeployments, OwnRecipes
  <2> QED
    BY <2>5, <2>7, <2>8, <2>9
<1>3. CASE \E d \in DOMAIN deployments : TakeBackup(d)
  <2>1. PICK d \in DOMAIN deployments, restorable \in BOOLEAN :
          backups' = Append(backups, [of |-> d, restorable |-> restorable])
    BY <1>3 DEF TakeBackup
  <2>2. UNCHANGED <<deployments, recipes, made>>
    BY <1>3 DEF TakeBackup
  <2> DEFINE new == [of |-> d, restorable |-> restorable]
  <2>3. new.of = d
    OBVIOUS
  <2>4. new \in Backup
    BY DEF Backup, TypeInv, TypeOK, ComposeTypeOK
  <2> HIDE DEF new
  <2>5. /\ Len(backups') = Len(backups) + 1
        /\ DOMAIN backups' = DOMAIN backups \cup {Len(backups) + 1}
        /\ \A b \in DOMAIN backups : backups'[b] = backups[b]
        /\ backups'[Len(backups) + 1] = new
    BY <1>1, <2>1, <2>4 DEF new
  <2>6. Grows
    BY <1>1, <2>2, <2>5 DEF Grows
  <2>7. ReferInv'
    BY <2>2, <2>3, <2>5 DEF ReferInv, OwnDeployments, OwnRecipes
  <2> QED
    BY <2>2, <2>6, <2>7
<1> QED
  BY <1>2, <1>3 DEF ComposeStep

---------------------------------------------------------------------------
(* What is so of a request stays so while Compose's data grows.            *)

\* A backup stays as fresh: those taken meanwhile are younger than r.
LEMMA FreshStays ==
  ASSUME TypeInv, TypeInv', Grows, NEW r \in Requests,
         began'[r] = began[r], began[r] <= Len(backups), NEW b, NEW d, IsFresh(r, b, d)
  PROVE  IsFresh(r, b, d)'
<1>1. /\ began[r] \in Nat /\ Len(backups) \in Nat
      /\ DOMAIN backups = 1 .. Len(backups) /\ DOMAIN backups' = 1 .. Len(backups')
      /\ Len(backups') \in Nat
  BY DEF TypeInv, TypeOK, LocalsTypeOK, ComposeTypeOK
<1>2. Restorable(d) \subseteq Restorable(d)'
  BY DEF Grows, Restorable
<1>3. ASSUME NEW c \in Restorable(d)', c <= began[r] PROVE c \in Restorable(d)
  <2>1. c \in DOMAIN backups
    BY <1>1, <1>3 DEF Restorable
  <2> QED
    BY <2>1 DEF Grows, Restorable
<1> QED
  BY <1>2, <1>3 DEF IsFresh

\* So does a backup that was well chosen, with its deployment's name.
LEMMA WellChosenStays ==
  ASSUME TypeInv, TypeInv', ReferInv, Grows, NEW r \in Requests,
         began'[r] = began[r], arg'[r] = arg[r], began[r] <= Len(backups),
         NEW b, WellChosen(r, b)
  PROVE  WellChosen(r, b)'
<1>1. b \in DOMAIN backups' /\ backups'[b] = backups[b]
  BY DEF WellChosen, Grows
<1>2. IsFresh(r, b, backups[b].of)'
  <2>1. PICK d : d = backups[b].of
    OBVIOUS
  <2>2. IsFresh(r, b, d)'
    BY <2>1, FreshStays DEF WellChosen
  <2> QED
    BY <1>1, <2>1, <2>2
<1>3. deployments'[backups[b].of].name = arg[r].source
  BY DEF WellChosen, ReferInv, Grows
<1> QED
  BY <1>1, <1>2, <1>3 DEF WellChosen

\* Nothing new is q's.
Rests(q) == OwnDeployments(q)' \subseteq OwnDeployments(q) /\ OwnRecipes(q)' \subseteq OwnRecipes(q)

\* What q made stays as it was, and what is new may be no worse.
LEMMA MadeStays ==
  ASSUME TypeInv, TypeInv', ReferInv, Grows, NEW q \in Requests, MadeInv(q),
         began'[q] = began[q], arg'[q] = arg[q],
         \A d \in OwnDeployments(q)' \ OwnDeployments(q) :
           /\ deployments'[d].name = arg[q].instance
           /\ deployments'[d].from # 0 => WellChosen(q, deployments'[d].from),
         \A x \in OwnRecipes(q)' \ OwnRecipes(q) :
           deployments'[recipes'[x].on].name = arg[q].instance
  PROVE  MadeInv(q)'
<1>1. began[q] <= Len(backups)
  BY DEF MadeInv
<1>2. began'[q] <= Len(backups')
  <2>1. began[q] \in Nat /\ Len(backups) \in Nat /\ Len(backups') \in Nat
    BY DEF TypeInv, TypeOK, LocalsTypeOK, ComposeTypeOK
  <2> QED
    BY <1>1, <2>1 DEF Grows
<1>3. ASSUME NEW d \in OwnDeployments(q)'
      PROVE  /\ deployments'[d].name = arg'[q].instance
             /\ deployments'[d].from # 0 => WellChosen(q, deployments[d].from)'
  <2>1. PICK b : b = deployments'[d].from
    OBVIOUS
  <2>2. deployments'[d].name = arg[q].instance /\ (b # 0 => WellChosen(q, b))
    BY <2>1 DEF MadeInv, OwnDeployments, Grows
  <2>3. b # 0 => WellChosen(q, b)'
    BY <1>1, <2>2, WellChosenStays
  <2> QED
    BY <2>1, <2>2, <2>3
<1>4. ASSUME NEW x \in OwnRecipes(q)'
      PROVE  deployments'[recipes'[x].on].name = arg'[q].instance
  BY DEF MadeInv, OwnRecipes, Grows, ReferInv
<1> QED
  BY <1>2, <1>3, <1>4 DEF MadeInv

\* What q found keeps its name, as long as q does not look again.
LEMMA FoundStays ==
  ASSUME TypeInv, TypeInv', ReferInv, Grows, NEW q \in Requests, FoundInv(q), MadeInv(q),
         began'[q] = began[q], arg'[q] = arg[q], found'[q] = found[q],
         \/ pc'[q] \notin {"get", "backups", "restore", "deprovision", "scale"}
         \/ /\ pc[q] \in {"get", "backups", "restore", "deprovision", "scale"}
            /\ pc'[q] = "restore" => IsFresh(q, snap'[q], found[q])
  PROVE  FoundInv(q)'
<1>1. pc'[q] = "restore" => IsFresh(q, snap[q], found[q])'
  <2>1. PICK b, d : b = snap'[q] /\ d = found[q]
    OBVIOUS
  <2>2. pc'[q] = "restore" => IsFresh(q, b, d)'
    BY <2>1, FreshStays DEF MadeInv
  <2> QED
    BY <2>1, <2>2
<1> QED
  BY <1>1 DEF FoundInv, Grows, Sought

\* What q had deprovisioned it may have had deprovisioned, also when it gets
\* its answer: it had none, or a bad one.
LEMMA TouchStays ==
  ASSUME TypeInv, Grows, NEW q \in Requests, TouchInv(q), arg'[q] = arg[q],
         reply[q] = "none" \/ reply'[q] = reply[q] \/ reply'[q] \notin {"none", "accepted"},
         \A x \in OwnRecipes(q)' \ OwnRecipes(q) : recipes'[x].kind = "deprovision" =>
           \/ arg[q].op = "Deprovision"
           \/ /\ arg[q].op = "Provision"
              /\ recipes'[x].on \in {q} \X Nat
              /\ reply'[q] \notin {"none", "accepted"}
  PROVE  TouchInv(q)'
BY DEF TouchInv, OwnRecipes, Grows

\* The whitelist recipes q has stay what they are.
LEMMA CoverStays ==
  ASSUME TypeInv, Grows, NEW q \in Requests, CoverInv(q), arg'[q].op = arg[q].op,
         opdata'[q].whitelist = opdata[q].whitelist,
         \/ opdata'[q].recipe = opdata[q].recipe /\ dep'[q] \in {dep[q], Nil}
         \/ opdata'[q].whitelist = <<>> /\ dep'[q] = opdata'[q].recipe,
         reply'[q] = "accepted" =>
           reply[q] = "accepted" \/ Len(opdata'[q].whitelist) = Len(IPWhitelist)
  PROVE  CoverInv(q)'
<1>1. CASE opdata'[q].recipe = opdata[q].recipe /\ dep'[q] \in {dep[q], Nil}
  BY <1>1 DEF CoverInv, Grows, Whitelists
<1>2. CASE opdata'[q].whitelist = <<>> /\ dep'[q] = opdata'[q].recipe
  BY <1>2 DEF CoverInv
<1> QED
  BY <1>1, <1>2

\* A request that stands aside while another moves, or while Compose does.
LEMMA Bystander ==
  ASSUME TypeInv, TypeInv', SafeInv, Grows, NEW q \in Requests, Rests(q),
         pc'[q] = pc[q], arg'[q] = arg[q], found'[q] = found[q], dep'[q] = dep[q],
         snap'[q] = snap[q], opdata'[q] = opdata[q], logged'[q] = logged[q],
         reply'[q] = reply[q], began'[q] = began[q]
  PROVE  /\ CourseInv(q)' /\ MadeInv(q)' /\ FoundInv(q)'
         /\ TouchInv(q)' /\ CoverInv(q)' /\ LeakInv(q)'
<1>1. /\ ReferInv /\ CourseInv(q) /\ MadeInv(q) /\ FoundInv(q)
      /\ TouchInv(q) /\ CoverInv(q) /\ LeakInv(q)
  BY DEF SafeInv
<1>2. OwnDeployments(q)' \ OwnDeployments(q) = {} /\ OwnRecipes(q)' \ OwnRecipes(q) = {}
  BY DEF Rests
<1>3. CourseInv(q)'
  BY <1>1, <1>2 DEF CourseInv, Grows
<1>4. MadeInv(q)'
  BY <1>1, <1>2, MadeStays
<1>5. FoundInv(q)'
  <2>1. pc[q] = "restore" => IsFresh(q, snap'[q], found[q])
    BY <1>1 DEF FoundInv
  <2> QED
    BY <1>1, <2>1, FoundStays
<1>6. TouchInv(q)'
  BY <1>1, <1>2, TouchStays
<1>7. CoverInv(q)'
  BY <1>1, CoverStays
<1>8. LeakInv(q)'
  BY <1>1 DEF LeakInv, Deprovisioned, Grows
<1> QED
  BY <1>3, <1>4, <1>5, <1>6, <1>7, <1>8

---------------------------------------------------------------------------
(* The request that acts.                                                  *)

\* The local variables of the others stay as they are.
Aside(r) ==
  \A q \in Requests \ {r} :
    /\ pc'[q] = pc[q] /\ arg'[q] = arg[q] /\ found'[q] = found[q] /\ dep'[q] = dep[q]
    /\ snap'[q] = snap[q] /\ opdata'[q] = opdata[q] /\ logged'[q] = logged[q]
    /\ reply'[q] = reply[q] /\ began'[q] = began[q]

\* All that SafeInv says of r.
Own(r) ==
  CourseInv(r) /\ MadeInv(r) /\ FoundInv(r) /\ TouchInv(r) /\ CoverInv(r) /\ LeakInv(r)

\* A step of r that is right for r is right for all.
LEMMA OneActs ==
  ASSUME TypeInv, TypeInv', SafeInv, NEW r \in Requests, Orderly(r), Aside(r), Own(r)'
  PROVE  SafeInv'
<1>1. ASSUME NEW q \in Requests, q # r PROVE Own(q)'
  <2>1. Fresh(r) \notin {q} \X Nat
    BY <1>1, FreshIsNew DEF SafeInv
  <2>2. Rests(q)
    BY <2>1 DEF Rests, Orderly, OnlyFor, OwnDeployments, OwnRecipes
  <2> QED
    BY <1>1, <2>2, Bystander DEF Orderly, Aside, Own
<1>2. \A q \in Requests : Own(q)'
  BY <1>1
<1> QED
  BY <1>2 DEF SafeInv, Own, Orderly

\* A step of r between two calls, or to its end: it goes where CourseInv lets
\* it, and what it makes is on its instance.
LEMMA Acting ==
  ASSUME TypeInv, TypeInv', SafeInv, NEW r \in Requests, Orderly(r), pc[r] \in Calls,
         arg'[r] = arg[r], began'[r] = began[r],
         pc'[r] \in Calls \cup {"done"},
         pc'[r] = "deprovision" => arg[r].op = "Deprovision",
         pc'[r] = "scale" => arg[r].op = "Update",
         pc'[r] \notin {"cleanup", "done"} => reply'[r] = reply[r] /\ pc[r] # "cleanup",
         pc'[r] = "cleanup" => reply'[r] \in {reply[r], "failed", "dropped"},
         pc'[r] = "cleanup" /\ reply'[r] = reply[r] => pc[r] = "cleanup",
         pc[r] = "cleanup" => reply'[r] \in {reply[r], "failed", "dropped"},
         dep'[r] # Nil => dep'[r] \in DOMAIN deployments',
         pc'[r] \notin {"patch", "whitelist", "cleanup", "done"} => dep'[r] = Nil,
         Fresh(r) \in DOMAIN deployments' =>
           /\ deployments'[Fresh(r)].name = arg[r].instance
           /\ deployments'[Fresh(r)].from # 0 => WellChosen(r, deployments'[Fresh(r)].from),
         Fresh(r) \in DOMAIN recipes' =>
           /\ deployments'[recipes'[Fresh(r)].on].name = arg[r].instance
           /\ recipes'[Fresh(r)].kind = "deprovision" =>
                \/ arg[r].op = "Deprovision"
                \/ /\ arg[r].op = "Provision"
                   /\ recipes'[Fresh(r)].on \in {r} \X Nat
                   /\ reply'[r] \notin {"none", "accepted"}
  PROVE  CourseInv(r)' /\ MadeInv(r)' /\ TouchInv(r)'
<1>1. ReferInv /\ CourseInv(r) /\ MadeInv(r) /\ TouchInv(r) /\ Grows
  BY DEF SafeInv, Orderly
<1>2. /\ OwnDeployments(r)' \ OwnDeployments(r) \subseteq {Fresh(r)} \cap DOMAIN deployments'
      /\ OwnRecipes(r)' \ OwnRecipes(r) \subseteq {Fresh(r)} \cap DOMAIN recipes'
  BY DEF Orderly, OnlyFor, OwnDeployments, OwnRecipes
<1>3. "idle" \notin Calls \cup {"done"} /\ "done" \notin Calls
  BY DEF Calls
<1>4. CourseInv(r)'
  BY <1>1, <1>3 DEF CourseInv
<1>5. MadeInv(r)'
  BY <1>1, <1>2, MadeStays
<1>6. reply[r] = "none" \/ reply'[r] = reply[r] \/ reply'[r] \notin {"none", "accepted"}
  BY <1>1, <1>3 DEF CourseInv
<1>7. TouchInv(r)'
  BY <1>1, <1>2, <1>6, TouchStays
<1> QED
  BY <1>4, <1>5, <1>7

\* A step of r that only reads, or ends it: it holds no deployment, so it
\* leaves none behind.
LEMMA Reading ==
  ASSUME TypeInv, TypeInv', SafeInv, NEW r \in Requests, Orderly(r), Aside(r),
         pc[r] \in Calls \ {"patch", "whitelist", "cleanup"}, UNCHANGED composeVars,
         UNCHANGED <<arg, dep, opdata, began>>, FoundInv(r)',
         \/ /\ pc'[r] \in Calls \ {"patch", "whitelist", "cleanup"}
            /\ reply'[r] = reply[r]
            /\ pc'[r] = "deprovision" => arg[r].op = "Deprovision"
            /\ pc'[r] = "scale" => arg[r].op = "Update"
         \/ pc'[r] = "done" /\ reply'[r] # "accepted"
  PROVE  SafeInv'
<1>1. ReferInv /\ CourseInv(r) /\ CoverInv(r)
  BY DEF SafeInv
<1>2. dep[r] = Nil /\ dep'[r] = Nil
  BY <1>1 DEF CourseInv, Calls
<1>3. UNCHANGED <<deployments, recipes>> /\ Fresh(r) \notin DOMAIN deployments \cup DOMAIN recipes
  BY <1>1, FreshIsNew DEF composeVars
<1>4. CourseInv(r)' /\ MadeInv(r)' /\ TouchInv(r)'
  BY <1>2, <1>3, Acting
<1>5. CoverInv(r)'
  <2>1. reply[r] = "none"
    BY <1>1 DEF CourseInv, Calls
  <2> QED
    BY <1>1, <2>1, CoverStays DEF Orderly
<1>6. LeakInv(r)'
  BY <1>2 DEF LeakInv
<1> QED
  BY <1>4, <1>5, <1>6, OneActs DEF Own

\* How a call that ends badly leaves r.
LEMMA GivenUp ==
  ASSUME TypeInv, NEW r \in Requests, NEW answer, GiveUp(r, answer)
  PROVE  /\ \A q \in Requests \ {r} : pc'[q] = pc[q] /\ reply'[q] = reply[q]
         /\ \/ answer = "again" /\ pc'[r] = pc[r] /\ reply'[r] = reply[r]
            \/ answer # "again" /\ pc'[r] = "done" /\ reply'[r] = Failure(answer)
         /\ Failure(answer) \in {"failed", "dropped"}
BY DEF GiveUp, Reply, Goto, Failure, TypeInv, TypeOK, LocalsTypeOK

\* findDeployment's list takes a deployment of the name it looks for.
LEMMA ListSafe ==
  ASSUME TypeInv, TypeInv', SafeInv, NEW r \in Requests, List(r)
  PROVE  SafeInv'
<1>1. /\ UNCHANGED composeVars /\ pc[r] = "list"
      /\ UNCHANGED <<arg, dep, snap, opdata, todo, logged, began>>
  BY DEF List, Reads
<1>2. Orderly(r)
  BY <1>1, NothingOrderly DEF SafeInv
<1>3. /\ \A q \in Requests \ {r} : pc'[q] = pc[q] /\ reply'[q] = reply[q] /\ found'[q] = found[q]
      /\ \/ /\ pc'[r] = "get" /\ reply'[r] = reply[r]
            /\ \E d \in Named(Sought(r)) : found'[r] = d
         \/ pc'[r] = "done" /\ reply'[r] # "accepted"
  <2>1. PICK answer \in AllFaults \cup {"ok", "error"} :
          \/ /\ \E d \in Named(Sought(r)) : found' = [found EXCEPT ![r] = d]
             /\ Goto(r, "get") /\ UNCHANGED reply
          \/ NotFound(r) /\ UNCHANGED found
          \/ answer \in {"error", "panic"} /\ GiveUp(r, answer) /\ UNCHANGED found
    BY DEF List
  <2>2. CASE /\ \E d \in Named(Sought(r)) : found' = [found EXCEPT ![r] = d]
             /\ Goto(r, "get") /\ UNCHANGED reply
    BY <2>2 DEF Goto, TypeInv, TypeOK, LocalsTypeOK
  <2>3. CASE NotFound(r) /\ UNCHANGED found
    BY <2>3 DEF NotFound, Reply, Goto, TypeInv, TypeOK, LocalsTypeOK
  <2>4. CASE answer \in {"error", "panic"} /\ GiveUp(r, answer) /\ UNCHANGED found
    BY <2>4, GivenUp
  <2> QED
    BY <2>1, <2>2, <2>3, <2>4
<1>4. FoundInv(r)'
  <2>1. CASE pc'[r] = "get"
    <3>1. found'[r] \in Named(Sought(r))
      BY <1>3, <2>1
    <3> QED
      BY <1>1, <2>1, <3>1 DEF FoundInv, Named, Sought, composeVars
  <2>2. CASE pc'[r] = "done"
    BY <2>2 DEF FoundInv
  <2> QED
    BY <1>3, <2>1, <2>2
<1> QED
  BY <1>1, <1>2, <1>3, <1>4, Reading DEF Aside, Calls

\* The GET that follows may lose what was found, but finds nothing else.
LEMMA GetSafe ==
  ASSUME TypeInv, TypeInv', SafeInv, NEW r \in Requests, Get(r)
  PROVE  SafeInv'
<1>1. /\ UNCHANGED composeVars /\ pc[r] = "get"
      /\ UNCHANGED <<arg, dep, snap, opdata, todo, logged, began>>
  BY DEF Get, Reads
<1>2. Orderly(r)
  BY <1>1, NothingOrderly DEF SafeInv
<1>3. /\ \A q \in Requests \ {r} : pc'[q] = pc[q] /\ reply'[q] = reply[q] /\ found'[q] = found[q]
      /\ found'[r] \in {found[r], Nil}
      /\ \/ /\ pc'[r] \in {"deprovision", "backups", "scale"} /\ reply'[r] = reply[r]
            /\ pc'[r] = "deprovision" => arg[r].op = "Deprovision"
            /\ pc'[r] = "scale" => arg[r].op = "Update"
         \/ pc'[r] = "done" /\ reply'[r] # "accepted"
  <2>1. PICK answer \in AllFaults \cup {"ok", "error"} :
          \/ Got(r, found[r]) /\ UNCHANGED found
          \/ Got(r, Nil) /\ found' = [found EXCEPT ![r] = Nil]
          \/ NotFound(r) /\ UNCHANGED found
          \/ answer \in {"error", "panic"} /\ GiveUp(r, answer) /\ UNCHANGED found
    BY DEF Get
  <2>2. CASE /\ Got(r, found[r]) \/ Got(r, Nil)
             /\ UNCHANGED found \/ found' = [found EXCEPT ![r] = Nil]
    <3>1. /\ \A q \in Requests \ {r} : found'[q] = found[q]
          /\ found'[r] \in {found[r], Nil}
      BY <2>2 DEF TypeInv, TypeOK, LocalsTypeOK
    <3>2. \/ arg[r].op = "Deprovision" /\ Goto(r, "deprovision") /\ UNCHANGED reply
          \/ Goto(r, "backups") /\ UNCHANGED reply
          \/ arg[r].op = "Update" /\ Goto(r, "scale") /\ UNCHANGED reply
          \/ Reply(r, "failed")
      BY <2>2 DEF Got
    <3> QED
      BY <3>1, <3>2 DEF Reply, Goto, TypeInv, TypeOK, LocalsTypeOK
  <2>3. CASE NotFound(r) /\ UNCHANGED found
    BY <2>3 DEF NotFound, Reply, Goto, TypeInv, TypeOK, LocalsTypeOK
  <2>4. CASE answer \in {"error", "panic"} /\ GiveUp(r, answer) /\ UNCHANGED found
    BY <2>4, GivenUp
  <2> QED
    BY <2>1, <2>2, <2>3, <2>4
<1>4. FoundInv(r)'
  <2>1. FoundInv(r)
    BY DEF SafeInv
  <2> QED
    BY <1>1, <1>3, <2>1 DEF FoundInv, Sought, composeVars
<1> QED
  BY <1>1, <1>2, <1>3, <1>4, Reading DEF Aside, Calls

\* The newest backup there is now is no older than those there were before.
LEMMA GetBackupsSafe ==
  ASSUME TypeInv, TypeInv', SafeInv, NEW r \in Requests, GetBackups(r)
  PROVE  SafeInv'
<1>1. /\ UNCHANGED composeVars /\ pc[r] = "backups"
      /\ UNCHANGED <<arg, found, dep, opdata, todo, logged, began>>
  BY DEF GetBackups, Reads
<1>2. Orderly(r)
  BY <1>1, NothingOrderly DEF SafeInv
<1>3. /\ \A q \in Requests \ {r} : pc'[q] = pc[q] /\ reply'[q] = reply[q] /\ snap'[q] = snap[q]
      /\ \/ /\ pc'[r] = "restore" /\ reply'[r] = reply[r]
            /\ \E b \in DOMAIN backups : IsNewestRestorable(b, found[r]) /\ snap'[r] = b
         \/ pc'[r] = "done" /\ reply'[r] # "accepted"
  <2>1. PICK answer \in AllFaults \cup {"ok", "error"} :
          \/ /\ \E b \in DOMAIN backups :
                  IsNewestRestorable(b, found[r]) /\ snap' = [snap EXCEPT ![r] = b]
             /\ Goto(r, "restore") /\ UNCHANGED reply
          \/ Reply(r, "failed") /\ UNCHANGED snap
          \/ answer \in {"error", "panic"} /\ GiveUp(r, answer) /\ UNCHANGED snap
    BY DEF GetBackups
  <2>2. CASE /\ \E b \in DOMAIN backups :
                  IsNewestRestorable(b, found[r]) /\ snap' = [snap EXCEPT ![r] = b]
             /\ Goto(r, "restore") /\ UNCHANGED reply
    BY <2>2 DEF Goto, TypeInv, TypeOK, LocalsTypeOK
  <2>3. CASE Reply(r, "failed") /\ UNCHANGED snap
    BY <2>3 DEF Reply, Goto, TypeInv, TypeOK, LocalsTypeOK
  <2>4. CASE answer \in {"error", "panic"} /\ GiveUp(r, answer) /\ UNCHANGED snap
    BY <2>4, GivenUp
  <2> QED
    BY <2>1, <2>2, <2>3, <2>4
<1>4. FoundInv(r)'
  <2>1. /\ ReferInv /\ FoundInv(r) /\ MadeInv(r) /\ Grows
    BY <1>2 DEF SafeInv, Orderly
  <2>2. pc'[r] = "restore" => IsFresh(r, snap'[r], found[r])
    BY <1>3 DEF IsNewestRestorable, IsFresh
  <2> QED
    BY <1>1, <2>1, <2>2, FoundStays
<1> QED
  BY <1>1, <1>2, <1>3, <1>4, Reading DEF Aside, Calls

\* A poll changes nothing but its own answer.
LEMMA PollSafe ==
  ASSUME TypeInv, TypeInv', SafeInv, NEW r \in Requests, Poll(r)
  PROVE  SafeInv'
<1>1. /\ UNCHANGED composeVars /\ pc[r] = "poll"
      /\ UNCHANGED <<arg, found, dep, snap, opdata, logged, began>>
  BY DEF Poll, Reads
<1>2. Orderly(r)
  BY <1>1, NothingOrderly DEF SafeInv
<1>3. /\ \A q \in Requests \ {r} : pc'[q] = pc[q] /\ reply'[q] = reply[q]
      /\ \/ pc'[r] = "poll" /\ reply'[r] = reply[r]
         \/ pc'[r] = "done" /\ reply'[r] # "accepted"
  <2>1. PICK answer, status :
          \/ UNCHANGED <<pc, reply>>
          \/ Reply(r, State(status))
          \/ answer \in {"error", "panic"} /\ GiveUp(r, answer)
    BY DEF Poll
  <2>2. State(status) # "accepted"
    <3>1. DOMAIN BrokerState = {"complete", "running", "waiting", "failed"}
      BY DEF BrokerState
    <3>2. /\ BrokerState["complete"] # "accepted" /\ BrokerState["running"] # "accepted"
          /\ BrokerState["waiting"] # "accepted" /\ BrokerState["failed"] # "accepted"
      BY DEF BrokerState
    <3> QED
      BY <3>1, <3>2 DEF State
  <2>3. CASE UNCHANGED <<pc, reply>>
    BY <1>1, <2>3
  <2>4. CASE Reply(r, State(status))
    BY <2>2, <2>4 DEF Reply, Goto, TypeInv, TypeOK, LocalsTypeOK
  <2>5. CASE answer \in {"error", "panic"} /\ GiveUp(r, answer)
    BY <2>5, GivenUp
  <2> QED
    BY <2>1, <2>3, <2>4, <2>5
<1>4. FoundInv(r)'
  BY <1>3 DEF FoundInv
<1> QED
  BY <1>1, <1>2, <1>3, <1>4, Reading DEF Aside, Calls

\* Where the whitelist loop leaves r.
LEMMA Looped ==
  ASSUME TypeInv, NEW r \in Requests, NEW ids, Whitelist(r, ids)
  PROVE  /\ \A q \in Requests \ {r} : pc'[q] = pc[q] /\ reply'[q] = reply[q]
         /\ \/ pc'[r] = "whitelist" /\ reply'[r] = reply[r]
            \/ pc'[r] = "done" /\ reply'[r] = "accepted" /\ Len(ids) = Len(IPWhitelist)
BY DEF Whitelist, AllWhitelisted, Reply, Goto, TypeInv, TypeOK, LocalsTypeOK

\* The operation data and the deployment in hand once they are noted.
LEMMA Noted ==
  ASSUME TypeInv, NEW r \in Requests, NEW x,
         dep' = [dep EXCEPT ![r] = x], opdata' = [opdata EXCEPT ![r].recipe = x]
  PROVE  /\ \A q \in Requests \ {r} : dep'[q] = dep[q] /\ opdata'[q] = opdata[q]
         /\ dep'[r] = x /\ opdata'[r].recipe = x
         /\ opdata'[r].whitelist = opdata[r].whitelist
<1>1. /\ opdata[r] \in [recipe : Ids \cup {Nil}, whitelist : Seq(Ids)]
      /\ DOMAIN opdata = Requests /\ DOMAIN dep = Requests
  BY DEF TypeInv, TypeOK, LocalsTypeOK
<1>2. /\ [opdata[r] EXCEPT !.recipe = x].recipe = x
      /\ [opdata[r] EXCEPT !.recipe = x].whitelist = opdata[r].whitelist
  BY <1>1
<1>3. opdata' = [opdata EXCEPT ![r] = [opdata[r] EXCEPT !.recipe = x]]
  OBVIOUS
<1> QED
  BY <1>1, <1>2, <1>3

\* Provision makes its first deployment under the name of the instance, blank
\* or from the backup chosen.  Create and Restore share the argument.
LEMMA MakingSafe ==
  ASSUME TypeInv, TypeInv', SafeInv, NEW r \in Requests, pc[r] \in {"create", "restore"},
         Orderly(r), UNCHANGED <<arg, found, snap, logged, began>>,
         \A q \in Requests \ {r} : pc'[q] = pc[q] /\ reply'[q] = reply[q],
         Fresh(r) \in DOMAIN deployments' =>
           /\ deployments'[Fresh(r)].name = arg[r].instance
           /\ deployments'[Fresh(r)].from # 0 => WellChosen(r, deployments'[Fresh(r)].from),
         Fresh(r) \in DOMAIN recipes' =>
           /\ Fresh(r) \in DOMAIN deployments'
           /\ recipes'[Fresh(r)].kind = "provision" /\ recipes'[Fresh(r)].on = Fresh(r),
         \/ UNCHANGED <<dep, opdata>>
         \/ /\ Fresh(r) \in DOMAIN deployments'
            /\ pc'[r] \in {"patch", "whitelist", "done"}
            /\ dep' = [dep EXCEPT ![r] = Fresh(r)]
            /\ opdata' = [opdata EXCEPT ![r].recipe = Fresh(r)],
         \/ pc'[r] \in {pc[r], "patch", "whitelist"} /\ reply'[r] = reply[r]
         \/ pc'[r] = "done" /\ reply'[r] = "accepted" /\ Len(IPWhitelist) = 0
         \/ pc'[r] = "done" /\ reply'[r] \in {"failed", "dropped"} /\ UNCHANGED dep
  PROVE  SafeInv'
<1>1. ReferInv /\ CourseInv(r) /\ MadeInv(r) /\ FoundInv(r) /\ CoverInv(r)
  BY DEF SafeInv
<1>2. dep[r] = Nil /\ reply[r] = "none" /\ opdata[r].whitelist = <<>> /\ pc[r] \in Calls
  BY <1>1 DEF CourseInv, TypeInv, LoopInv, Calls
<1>3. /\ Aside(r)
      /\ opdata'[r].whitelist = <<>>
      /\ \/ dep'[r] = Nil /\ opdata'[r].recipe = opdata[r].recipe
         \/ /\ dep'[r] = Fresh(r) /\ opdata'[r].recipe = Fresh(r)
            /\ Fresh(r) \in DOMAIN deployments' /\ pc'[r] \in {"patch", "whitelist", "done"}
  <2>1. CASE UNCHANGED <<dep, opdata>>
    BY <1>2, <2>1 DEF Aside
  <2>2. CASE ~UNCHANGED <<dep, opdata>>
    BY <1>2, <2>2, Noted DEF Aside
  <2> QED
    BY <2>1, <2>2
<1>4. Fresh(r) \in DOMAIN recipes' =>
        /\ deployments'[recipes'[Fresh(r)].on].name = arg[r].instance
        /\ recipes'[Fresh(r)].kind # "deprovision"
  OBVIOUS
<1>5. CourseInv(r)' /\ MadeInv(r)' /\ TouchInv(r)'
  BY <1>2, <1>3, <1>4, Acting DEF Calls
<1>6. FoundInv(r)'
  <2>1. pc'[r] = "restore" => IsFresh(r, snap'[r], found[r])
    BY <1>1 DEF FoundInv
  <2> QED
    BY <1>1, <2>1, FoundStays DEF Orderly
<1>7. CoverInv(r)'
  BY <1>1, <1>2, <1>3, CoverStays DEF Orderly
<1>8. LeakInv(r)'
  BY <1>2 DEF LeakInv
<1> QED
  BY <1>3, <1>5, <1>6, <1>7, <1>8, OneActs DEF Own

LEMMA CreateSafe ==
  ASSUME TypeInv, TypeInv', SafeInv, NEW r \in Requests, Create(r)
  PROVE  SafeInv'
<1>1. PICK answer \in AllFaults \cup {"ok", "error"}, done \in BOOLEAN :
       /\ answer = "ok" => done
       /\ IF done THEN NewDeployment(r, arg[r].instance, WantedType(r), arg[r].space, arg[r].space, 0)
                  ELSE UNCHANGED composeVars
       /\ \/ /\ answer = "ok"
             /\ dep' = [dep EXCEPT ![r] = Fresh(r)]
             /\ opdata' = [opdata EXCEPT ![r].recipe = Fresh(r)]
             /\ Whitelist(r, <<>>)
          \/ Whitelist(r, <<>>) /\ UNCHANGED <<dep, opdata>>
          \/ GiveUp(r, answer) /\ UNCHANGED <<dep, opdata>>
  BY DEF Create, Exchange
<1>2. UNCHANGED <<arg, found, snap, logged, began>> /\ pc[r] = "create" /\ ReferInv
  BY DEF Create, SafeInv
<1>3. /\ Orderly(r)
      /\ done => Fresh(r) \in DOMAIN deployments'
      /\ Fresh(r) \in DOMAIN deployments' =>
           deployments'[Fresh(r)].name = arg[r].instance /\ deployments'[Fresh(r)].from = 0
      /\ Fresh(r) \in DOMAIN recipes' =>
           /\ Fresh(r) \in DOMAIN deployments'
           /\ recipes'[Fresh(r)].kind = "provision" /\ recipes'[Fresh(r)].on = Fresh(r)
  <2>1. CASE done
    BY <1>1, <1>2, <2>1, NewDeploymentOrderly
  <2>2. CASE ~done
    <3>1. UNCHANGED composeVars
      BY <1>1, <2>2
    <3> QED
      BY <1>2, <2>2, <3>1, NothingOrderly, FreshIsNew DEF composeVars
  <2> QED
    BY <2>1, <2>2
<1>4. CASE Whitelist(r, <<>>)
  <2>1. Len(<<>>) = 0 /\ (UNCHANGED <<dep, opdata>> \/
          /\ Fresh(r) \in DOMAIN deployments'
          /\ dep' = [dep EXCEPT ![r] = Fresh(r)]
          /\ opdata' = [opdata EXCEPT ![r].recipe = Fresh(r)])
    BY <1>1, <1>3
  <2>2. /\ \A q \in Requests \ {r} : pc'[q] = pc[q] /\ reply'[q] = reply[q]
        /\ \/ pc'[r] = "whitelist" /\ reply'[r] = reply[r]
           \/ pc'[r] = "done" /\ reply'[r] = "accepted" /\ Len(IPWhitelist) = 0
    BY <1>4, <2>1, Looped
  <2> QED
    BY <1>2, <1>3, <2>1, <2>2, MakingSafe
<1>5. CASE GiveUp(r, answer) /\ UNCHANGED <<dep, opdata>>
  BY <1>2, <1>3, <1>5, GivenUp, MakingSafe
<1> QED
  BY <1>1, <1>4, <1>5

\* The backup restored is the one that was found fresh, of a deployment called
\* as the source r names.
LEMMA RestoreSafe ==
  ASSUME TypeInv, TypeInv', SafeInv, NEW r \in Requests, Restore(r)
  PROVE  SafeInv'
<1>1. PICK answer \in AllFaults \cup {"ok", "error"}, done \in BOOLEAN :
       /\ answer = "ok" => done
       /\ done => Live(found[r])
       /\ IF done THEN NewDeployment(r, arg[r].instance, deployments[found[r]].type, Nil,
                                     deployments[found[r]].data, snap[r])
                  ELSE UNCHANGED composeVars
       /\ \/ /\ answer = "ok"
             /\ dep' = [dep EXCEPT ![r] = Fresh(r)]
             /\ opdata' = [opdata EXCEPT ![r].recipe = Fresh(r)]
             /\ Goto(r, "patch") /\ UNCHANGED reply
          \/ Goto(r, "patch") /\ UNCHANGED <<dep, opdata, reply>>
          \/ GiveUp(r, answer) /\ UNCHANGED <<dep, opdata>>
  BY DEF Restore, Exchange
<1>2. UNCHANGED <<arg, found, snap, logged, began>> /\ pc[r] = "restore" /\ ReferInv
  BY DEF Restore, SafeInv
<1>3. done => WellChosen(r, snap[r])
  <2>1. ASSUME Live(found[r])
        PROVE  /\ found[r] \in DOMAIN deployments /\ found[r] # Nil
               /\ deployments[found[r]].name = arg[r].source
    <3>1. found[r] \in DOMAIN deployments /\ found[r] # Nil
      BY <2>1, NilAssumption DEF Live, TypeInv, TypeOK, ComposeTypeOK
    <3>2. deployments[found[r]].name = Sought(r) /\ arg[r].op = "Provision"
      BY <1>2, <3>1 DEF SafeInv, FoundInv, TypeInv, ArgsInv
    <3> QED
      BY <3>1, <3>2 DEF Sought
  <2>2. IsFresh(r, snap[r], found[r])
    BY <1>2 DEF SafeInv, FoundInv
  <2> QED
    BY <1>1, <2>1, <2>2 DEF WellChosen, IsFresh, Restorable
<1>4. /\ Orderly(r)
      /\ done => Fresh(r) \in DOMAIN deployments'
      /\ Fresh(r) \in DOMAIN deployments' =>
           deployments'[Fresh(r)].name = arg[r].instance /\ WellChosen(r, deployments'[Fresh(r)].from)
      /\ Fresh(r) \in DOMAIN recipes' =>
           /\ Fresh(r) \in DOMAIN deployments'
           /\ recipes'[Fresh(r)].kind = "provision" /\ recipes'[Fresh(r)].on = Fresh(r)
  <2>1. CASE done
    BY <1>1, <1>2, <1>3, <2>1, NewDeploymentOrderly
  <2>2. CASE ~done
    <3>1. UNCHANGED composeVars
      BY <1>1, <2>2
    <3> QED
      BY <1>2, <2>2, <3>1, NothingOrderly, FreshIsNew DEF composeVars
  <2> QED
    BY <2>1, <2>2
<1>5. CASE Goto(r, "patch") /\ UNCHANGED reply
  <2>1. UNCHANGED <<dep, opdata>> \/
          /\ Fresh(r) \in DOMAIN deployments'
          /\ dep' = [dep EXCEPT ![r] = Fresh(r)]
          /\ opdata' = [opdata EXCEPT ![r].recipe = Fresh(r)]
    BY <1>1, <1>4
  <2>2. /\ \A q \in Requests \ {r} : pc'[q] = pc[q] /\ reply'[q] = reply[q]
        /\ pc'[r] = "patch" /\ reply'[r] = reply[r]
    BY <1>5 DEF Goto, TypeInv, TypeOK, LocalsTypeOK
  <2> QED
    BY <1>2, <1>4, <2>1, <2>2, MakingSafe
<1>6. CASE GiveUp(r, answer) /\ UNCHANGED <<dep, opdata>>
  BY <1>2, <1>4, <1>6, GivenUp, MakingSafe
<1> QED
  BY <1>1, <1>5, <1>6

\* A failed patch loses the deployment in hand, so that there is none to
\* deprovision.
LEMMA PatchSafe ==
  ASSUME TypeInv, TypeInv', SafeInv, NEW r \in Requests, Patch(r)
  PROVE  SafeInv'
<1>1. PICK answer \in AllFaults \cup {"ok", "error"}, done \in BOOLEAN :
       /\ done => Live(dep[r])
       /\ IF done THEN SetSpace(dep[r], arg[r].space) ELSE UNCHANGED composeVars
       /\ \/ Whitelist(r, <<>>) /\ dep' \in {dep, [dep EXCEPT ![r] = Nil]}
          \/ answer = "again" /\ GiveUp(r, answer) /\ UNCHANGED dep
          \/ answer # "again" /\ GiveUp(r, answer) /\ dep' = [dep EXCEPT ![r] = Nil]
  BY DEF Patch, Exchange
<1>2. UNCHANGED <<arg, found, snap, opdata, logged, began>> /\ pc[r] = "patch" /\ pc[r] \in Calls
  BY DEF Patch, Calls
<1>3. ReferInv /\ CourseInv(r) /\ CoverInv(r)
  BY DEF SafeInv
<1>4. reply[r] = "none" /\ opdata[r].whitelist = <<>>
  BY <1>2, <1>3 DEF CourseInv, TypeInv, LoopInv
<1>5. Orderly(r) /\ DOMAIN deployments' = DOMAIN deployments /\ DOMAIN recipes' = DOMAIN recipes
  <2>1. CASE done
    BY <1>1, <1>3, <2>1, SetSpaceOrderly DEF Live
  <2>2. CASE ~done
    BY <1>1, <1>3, <2>2, NothingOrderly DEF composeVars
  <2> QED
    BY <2>1, <2>2
<1>6. Fresh(r) \notin DOMAIN deployments' \cup DOMAIN recipes'
  BY <1>3, <1>5, FreshIsNew
<1>7. /\ \A q \in Requests \ {r} : pc'[q] = pc[q] /\ reply'[q] = reply[q] /\ dep'[q] = dep[q]
      /\ dep'[r] \in {dep[r], Nil}
      /\ \/ pc'[r] \in {"patch", "whitelist"} /\ reply'[r] = reply[r]
         \/ pc'[r] = "done" /\ reply'[r] = "accepted" /\ Len(IPWhitelist) = 0
         \/ pc'[r] = "done" /\ reply'[r] \in {"failed", "dropped"} /\ dep'[r] = Nil
  <2>1. /\ \A q \in Requests \ {r} : dep'[q] = dep[q]
        /\ dep'[r] \in {dep[r], Nil}
        /\ dep' = [dep EXCEPT ![r] = Nil] => dep'[r] = Nil
    BY <1>1 DEF TypeInv, TypeOK, LocalsTypeOK
  <2>2. Len(<<>>) = 0
    OBVIOUS
  <2>3. CASE Whitelist(r, <<>>)
    BY <2>1, <2>2, <2>3, Looped
  <2>4. CASE answer = "again" /\ GiveUp(r, answer)
    BY <1>2, <2>1, <2>4, GivenUp
  <2>5. CASE answer # "again" /\ GiveUp(r, answer) /\ dep' = [dep EXCEPT ![r] = Nil]
    BY <2>1, <2>5, GivenUp
  <2> QED
    BY <1>1, <2>3, <2>4, <2>5
<1>8. CourseInv(r)' /\ MadeInv(r)' /\ TouchInv(r)'
  <2>1. dep'[r] # Nil => dep'[r] \in DOMAIN deployments'
    BY <1>3, <1>5, <1>7 DEF CourseInv
  <2> QED
    BY <1>2, <1>5, <1>6, <1>7, <2>1, Acting DEF Calls
<1>9. FoundInv(r)'
  BY <1>7 DEF FoundInv
<1>10. CoverInv(r)'
  BY <1>2, <1>3, <1>4, <1>5, <1>7, CoverStays DEF Orderly
<1>11. LeakInv(r)'
  BY <1>7 DEF LeakInv
<1> QED
  BY <1>2, <1>5, <1>7, <1>8, <1>9, <1>10, <1>11, OneActs DEF Own, Aside

\* What Provision holds is its own, and so on the instance it names.
LEMMA HeldIsOwn ==
  ASSUME TypeInv, TargetInv, SafeInv, NEW r \in Requests, Live(dep[r])
  PROVE  /\ dep[r] # Nil /\ dep[r] \in DOMAIN deployments /\ dep[r] \in {r} \X Nat
         /\ deployments[dep[r]].name = arg[r].instance
<1>1. dep[r] \in DOMAIN deployments /\ dep[r] # Nil
  BY NilAssumption DEF Live, TypeInv, TypeOK, ComposeTypeOK
<1>2. dep[r] \in {r} \X Nat
  BY <1>1 DEF TargetInv
<1> QED
  BY <1>1, <1>2 DEF SafeInv, MadeInv, OwnDeployments

\* A call of r for a recipe on a deployment of the name r is about.
LEMMA CallingSafe ==
  ASSUME TypeInv, SafeInv, NEW r \in Requests, NEW done \in BOOLEAN, NEW kind, NEW d, NEW ip,
         done => d \in DOMAIN deployments /\ deployments[d].name = arg[r].instance,
         IF done THEN NewRecipe(r, kind, d, ip) ELSE UNCHANGED composeVars
  PROVE  /\ Orderly(r) /\ UNCHANGED deployments
         /\ Fresh(r) \notin DOMAIN deployments'
         /\ done <=> Fresh(r) \in DOMAIN recipes'
         /\ done => /\ recipes'[Fresh(r)].kind = kind /\ recipes'[Fresh(r)].on = d
                    /\ recipes'[Fresh(r)].ip = ip
                    /\ deployments'[recipes'[Fresh(r)].on].name = arg[r].instance
<1>1. ReferInv /\ Fresh(r) \notin DOMAIN deployments \cup DOMAIN recipes
  BY FreshIsNew DEF SafeInv
<1>2. CASE done
  BY <1>1, <1>2, NewRecipeOrderly
<1>3. CASE ~done
  BY <1>1, <1>3, NothingOrderly DEF composeVars
<1> QED
  BY <1>2, <1>3

\* The whitelist recipe of the next address joins those there are.
LEMMA CoverGrows ==
  ASSUME TypeInv, Grows, NEW r \in Requests, CoverInv(r), arg[r].op = "Provision",
         NEW x \in Ids, x \in DOMAIN recipes', recipes'[x].kind = "whitelist",
         recipes'[x].ip = IPWhitelist[Len(opdata[r].whitelist) + 1],
         recipes'[x].on = opdata[r].recipe,
         opdata'[r].whitelist = Append(opdata[r].whitelist, x),
         opdata'[r].recipe = opdata[r].recipe, dep'[r] = dep[r], arg'[r] = arg[r],
         reply'[r] = "accepted" => Len(opdata'[r].whitelist) = Len(IPWhitelist)
  PROVE  CoverInv(r)'
<1>1. PICK ids, d : ids = opdata[r].whitelist /\ d = opdata[r].recipe
  OBVIOUS
<1>2. ids \in Seq(Ids)
  BY <1>1 DEF TypeInv, TypeOK, LocalsTypeOK
<1>3. \A i \in DOMAIN Append(ids, x) :
        \/ i = Len(ids) + 1 /\ Append(ids, x)[i] = x
        \/ i \in DOMAIN ids /\ Append(ids, x)[i] = ids[i]
  BY <1>2
<1>4. ASSUME NEW i \in DOMAIN ids PROVE Whitelists(ids[i], i, d)'
  BY <1>1 DEF CoverInv, Whitelists, Grows
<1>5. Whitelists(x, Len(ids) + 1, d)'
  BY <1>1 DEF Whitelists
<1>6. \A i \in DOMAIN Append(ids, x) : Whitelists(Append(ids, x)[i], i, d)'
  BY <1>3, <1>4, <1>5
<1>7. \A i \in DOMAIN opdata'[r].whitelist :
        Whitelists(opdata[r].whitelist[i], i, opdata[r].recipe)'
  BY <1>1, <1>6
<1> QED
  BY <1>7 DEF CoverInv

\* One more address is whitelisted on the deployment in hand, or the handler
\* turns to cleaning up.
LEMMA AddWhitelistSafe ==
  ASSUME TypeInv, TypeInv', TargetInv, SafeInv, NEW r \in Requests, AddWhitelist(r)
  PROVE  SafeInv'
<1> DEFINE ids == opdata[r].whitelist
<1> DEFINE ip == IPWhitelist[Len(ids) + 1]
<1>1. PICK answer \in AllFaults \cup {"ok", "error"}, done \in BOOLEAN :
       /\ answer = "ok" => done
       /\ done => Live(dep[r])
       /\ IF done THEN NewRecipe(r, "whitelist", dep[r], ip) ELSE UNCHANGED composeVars
       /\ \/ /\ answer = "ok"
             /\ opdata' = [opdata EXCEPT ![r].whitelist = Append(ids, Fresh(r))]
             /\ Whitelist(r, Append(ids, Fresh(r)))
          \/ answer = "again" /\ GiveUp(r, answer) /\ UNCHANGED opdata
          \/ RunDeferred(r, answer) /\ UNCHANGED opdata
  BY DEF AddWhitelist, Exchange
<1>2. /\ UNCHANGED <<arg, found, dep, snap, logged, began>>
      /\ pc[r] = "whitelist" /\ pc[r] \in Calls
  BY DEF AddWhitelist, Calls
<1>3. ReferInv /\ CourseInv(r) /\ CoverInv(r)
  BY DEF SafeInv
<1>4. /\ reply[r] = "none" /\ arg[r].op = "Provision"
      /\ opdata[r] \in [recipe : Ids \cup {Nil}, whitelist : Seq(Ids)]
      /\ ids \in Seq(Ids) /\ Len(ids) \in Nat
      /\ Fresh(r) \in Ids
  BY <1>2, <1>3, FreshIsId DEF CourseInv, TypeInv, ArgsInv, TypeOK, LocalsTypeOK, ComposeTypeOK
<1>5. /\ Orderly(r) /\ UNCHANGED deployments
      /\ Fresh(r) \notin DOMAIN deployments'
      /\ done <=> Fresh(r) \in DOMAIN recipes'
      /\ done => /\ recipes'[Fresh(r)].kind = "whitelist" /\ recipes'[Fresh(r)].on = dep[r]
                 /\ recipes'[Fresh(r)].ip = ip
                 /\ deployments'[recipes'[Fresh(r)].on].name = arg[r].instance
  <2> HIDE DEF ip
  <2>1. /\ done => dep[r] \in DOMAIN deployments /\ deployments[dep[r]].name = arg[r].instance
        /\ IF done THEN NewRecipe(r, "whitelist", dep[r], ip) ELSE UNCHANGED composeVars
    BY <1>1, HeldIsOwn
  <2> QED
    BY <2>1, CallingSafe
<1> HIDE DEF ip
<1>6. CASE /\ answer = "ok"
           /\ opdata' = [opdata EXCEPT ![r].whitelist = Append(ids, Fresh(r))]
           /\ Whitelist(r, Append(ids, Fresh(r)))
  <2>1. PICK x, more : x = Fresh(r) /\ more = Append(ids, x)
    OBVIOUS
  <2>2. /\ opdata'[r].whitelist = more /\ opdata'[r].recipe = opdata[r].recipe
        /\ \A q \in Requests \ {r} : opdata'[q] = opdata[q]
    <3>1. /\ [opdata[r] EXCEPT !.whitelist = more].whitelist = more
          /\ [opdata[r] EXCEPT !.whitelist = more].recipe = opdata[r].recipe
      BY <1>4
    <3>2. opdata' = [opdata EXCEPT ![r] = [opdata[r] EXCEPT !.whitelist = more]]
      BY <1>6, <2>1
    <3> QED
      BY <3>1, <3>2 DEF TypeInv, TypeOK, LocalsTypeOK
  <2>3. /\ \A q \in Requests \ {r} : pc'[q] = pc[q] /\ reply'[q] = reply[q]
        /\ \/ pc'[r] = "whitelist" /\ reply'[r] = reply[r]
           \/ pc'[r] = "done" /\ reply'[r] = "accepted" /\ Len(more) = Len(IPWhitelist)
    <3>1. Whitelist(r, more)
      BY <1>6, <2>1
    <3> QED
      BY <3>1, Looped
  <2>4. CourseInv(r)' /\ MadeInv(r)' /\ TouchInv(r)'
    <3>1. dep'[r] # Nil => dep'[r] \in DOMAIN deployments'
      BY <1>2, <1>3, <1>5 DEF CourseInv
    <3> QED
      BY <1>2, <1>5, <2>3, <3>1, Acting DEF Calls
  <2>5. FoundInv(r)'
    BY <2>3 DEF FoundInv
  <2>6. CoverInv(r)'
    <3>1. dep[r] # Nil /\ dep[r] = opdata[r].recipe
      BY <1>1, <1>3, <1>4, <1>6, HeldIsOwn DEF CoverInv
    <3>2. /\ x \in DOMAIN recipes' /\ recipes'[x].kind = "whitelist"
          /\ recipes'[x].ip = IPWhitelist[Len(opdata[r].whitelist) + 1]
          /\ recipes'[x].on = opdata[r].recipe
      BY <1>1, <1>5, <1>6, <2>1, <3>1 DEF ip
    <3>3. /\ arg'[r] = arg[r] /\ dep'[r] = dep[r]
          /\ opdata'[r].whitelist = Append(opdata[r].whitelist, x)
      BY <1>2, <2>1, <2>2
    <3>4. reply'[r] = "accepted" => Len(opdata'[r].whitelist) = Len(IPWhitelist)
      BY <1>4, <2>2, <2>3
    <3>5. x \in Ids
      BY <1>4, <2>1
    <3> QED
      BY <1>3, <1>4, <1>5, <2>2, <3>2, <3>3, <3>4, <3>5, CoverGrows DEF Orderly
  <2>7. LeakInv(r)'
    BY <1>4, <2>3 DEF LeakInv
  <2> QED
    BY <1>2, <1>5, <2>2, <2>3, <2>4, <2>5, <2>6, <2>7, OneActs DEF Own, Aside
<1>7. CASE /\ \/ answer = "again" /\ GiveUp(r, answer)
              \/ RunDeferred(r, answer)
           /\ UNCHANGED opdata
  <2>1. /\ \A q \in Requests \ {r} : pc'[q] = pc[q] /\ reply'[q] = reply[q]
        /\ \/ pc'[r] = "whitelist" /\ reply'[r] = reply[r]
           \/ pc'[r] = "cleanup" /\ reply'[r] \in {"failed", "dropped"}
    <3>1. CASE RunDeferred(r, answer)
      BY <3>1 DEF RunDeferred, Failure, Goto, TypeInv, TypeOK, LocalsTypeOK
    <3>2. CASE answer = "again" /\ GiveUp(r, answer)
      BY <1>2, <3>2, GivenUp
    <3> QED
      BY <1>7, <3>1, <3>2
  <2>2. CourseInv(r)' /\ MadeInv(r)' /\ TouchInv(r)'
    <3>1. dep'[r] # Nil => dep'[r] \in DOMAIN deployments'
      BY <1>2, <1>3, <1>5 DEF CourseInv
    <3> QED
      BY <1>2, <1>4, <1>5, <2>1, <3>1, Acting DEF Calls
  <2>3. FoundInv(r)'
    BY <2>1 DEF FoundInv
  <2>4. CoverInv(r)'
    BY <1>2, <1>3, <1>4, <1>5, <1>7, <2>1, CoverStays DEF Orderly
  <2>5. LeakInv(r)'
    BY <2>1 DEF LeakInv
  <2> QED
    BY <1>2, <1>5, <1>7, <2>1, <2>2, <2>3, <2>4, <2>5, OneActs DEF Own, Aside
<1> QED
  BY <1>1, <1>6, <1>7

\* The deferred function deprovisions the deployment in hand, or logs that it
\* could not: the only way for a handler to end with a deployment in hand.
LEMMA CleanupSafe ==
  ASSUME TypeInv, TypeInv', TargetInv, SafeInv, NEW r \in Requests, Cleanup(r)
  PROVE  SafeInv'
<1>1. PICK answer \in AllFaults \cup {"ok", "error"}, done \in BOOLEAN :
       /\ answer \in {"ok", "blank"} => done
       /\ done => Live(dep[r])
       /\ IF done THEN NewRecipe(r, "deprovision", dep[r], Nil) ELSE UNCHANGED composeVars
       /\ \/ answer \in {"ok", "blank"} /\ Goto(r, "done") /\ UNCHANGED <<reply, logged>>
          \/ answer = "error" /\ Goto(r, "done") /\ logged' = [logged EXCEPT ![r] = TRUE] /\ UNCHANGED reply
          \/ answer \in {"again", "panic"} /\ GiveUp(r, answer) /\ UNCHANGED logged
  BY DEF Cleanup, Exchange
<1>2. /\ UNCHANGED <<arg, found, dep, snap, opdata, began>>
      /\ pc[r] = "cleanup" /\ pc[r] \in Calls
  BY DEF Cleanup, Calls
<1>3. ReferInv /\ CourseInv(r) /\ CoverInv(r)
  BY DEF SafeInv
<1>4. /\ reply[r] \in {"failed", "dropped"} /\ arg[r].op = "Provision"
      /\ dep[r] # Nil => dep[r] \in DOMAIN deployments
  BY <1>2, <1>3 DEF CourseInv, TypeInv, ArgsInv
<1>5. /\ Orderly(r) /\ UNCHANGED deployments
      /\ Fresh(r) \notin DOMAIN deployments'
      /\ done <=> Fresh(r) \in DOMAIN recipes'
      /\ done => /\ recipes'[Fresh(r)].kind = "deprovision" /\ recipes'[Fresh(r)].on = dep[r]
                 /\ deployments'[recipes'[Fresh(r)].on].name = arg[r].instance
  BY <1>1, HeldIsOwn, CallingSafe
<1>6. done => dep[r] \in {r} \X Nat
  BY <1>1, HeldIsOwn
<1>7. /\ \A q \in Requests \ {r} : pc'[q] = pc[q] /\ reply'[q] = reply[q] /\ logged'[q] = logged[q]
      /\ \/ pc'[r] = "cleanup" /\ reply'[r] = reply[r]
         \/ pc'[r] = "done" /\ reply'[r] = reply[r] /\ (done \/ logged'[r])
         \/ pc'[r] = "done" /\ reply'[r] = "dropped"
  <2>1. CASE answer \in {"ok", "blank"} /\ Goto(r, "done") /\ UNCHANGED <<reply, logged>>
    BY <1>1, <2>1 DEF Goto, TypeInv, TypeOK, LocalsTypeOK
  <2>2. CASE /\ Goto(r, "done") /\ logged' = [logged EXCEPT ![r] = TRUE]
             /\ UNCHANGED reply
    BY <2>2 DEF Goto, TypeInv, TypeOK, LocalsTypeOK
  <2>3. CASE answer \in {"again", "panic"} /\ GiveUp(r, answer) /\ UNCHANGED logged
    BY <1>2, <2>3, GivenUp DEF Failure
  <2> QED
    BY <1>1, <2>1, <2>2, <2>3
<1>8. CourseInv(r)' /\ MadeInv(r)' /\ TouchInv(r)'
  BY <1>2, <1>4, <1>5, <1>6, <1>7, Acting DEF Calls
<1>9. FoundInv(r)'
  BY <1>7 DEF FoundInv
<1>10. CoverInv(r)'
  BY <1>2, <1>3, <1>4, <1>5, <1>7, CoverStays DEF Orderly
<1>11. LeakInv(r)'
  <2>1. done => Deprovisioned(dep[r])'
    BY <1>2, <1>5 DEF Deprovisioned
  <2> QED
    BY <1>2, <1>7, <2>1 DEF LeakInv
<1> QED
  BY <1>2, <1>5, <1>7, <1>8, <1>9, <1>10, <1>11, OneActs DEF Own, Aside

\* Deprovision and Update order their recipe on what they found.
LEMMA LastCallSafe ==
  ASSUME TypeInv, TypeInv', SafeInv, NEW r \in Requests, Deprovision(r) \/ Update(r)
  PROVE  SafeInv'
<1>1. PICK kind :
        /\ LastCall(r, kind)
        /\ \/ pc[r] = "deprovision" /\ kind = "deprovision"
           \/ pc[r] = "scale" /\ kind = "scale"
  BY DEF Deprovision, Update
<1>2. PICK answer \in AllFaults \cup {"ok", "error"}, done \in BOOLEAN :
       /\ done => Live(found[r])
       /\ IF done THEN NewRecipe(r, kind, found[r], Nil) ELSE UNCHANGED composeVars
       /\ \/ Reply(r, "accepted") /\ opdata' = [opdata EXCEPT ![r].recipe = Fresh(r)]
          \/ Reply(r, "accepted") /\ UNCHANGED opdata
          \/ GiveUp(r, answer) /\ UNCHANGED opdata
  BY <1>1 DEF LastCall, Exchange
<1>3. UNCHANGED <<arg, found, dep, snap, logged, began>> /\ pc[r] \in Calls
  BY <1>1 DEF LastCall, Calls
<1>4. ReferInv /\ CourseInv(r) /\ FoundInv(r) /\ MadeInv(r)
  BY DEF SafeInv
<1>5. /\ arg[r].op \in {"Deprovision", "Update"}
      /\ kind = "deprovision" => arg[r].op = "Deprovision"
      /\ dep[r] = Nil /\ reply[r] = "none"
  BY <1>1, <1>4 DEF CourseInv
<1>6. done => found[r] \in DOMAIN deployments /\ deployments[found[r]].name = arg[r].instance
  <2>1. Live(found[r]) => found[r] # Nil
    BY NilAssumption DEF Live, TypeInv, TypeOK, ComposeTypeOK
  <2> QED
    BY <1>1, <1>2, <1>4, <1>5, <2>1 DEF FoundInv, Sought
<1>7. /\ Orderly(r) /\ UNCHANGED deployments
      /\ Fresh(r) \notin DOMAIN deployments'
      /\ done <=> Fresh(r) \in DOMAIN recipes'
      /\ done => /\ recipes'[Fresh(r)].kind = kind
                 /\ deployments'[recipes'[Fresh(r)].on].name = arg[r].instance
  BY <1>2, <1>6, CallingSafe
<1>8. /\ \A q \in Requests \ {r} : pc'[q] = pc[q] /\ reply'[q] = reply[q] /\ opdata'[q] = opdata[q]
      /\ \/ pc'[r] = pc[r] /\ reply'[r] = reply[r]
         \/ pc'[r] = "done"
  <2>1. \A q \in Requests \ {r} : opdata'[q] = opdata[q]
    BY <1>2 DEF TypeInv, TypeOK, LocalsTypeOK
  <2>2. CASE Reply(r, "accepted")
    BY <2>1, <2>2 DEF Reply, Goto, TypeInv, TypeOK, LocalsTypeOK
  <2>3. CASE GiveUp(r, answer)
    BY <2>1, <2>3, GivenUp
  <2> QED
    BY <1>2, <2>2, <2>3
<1>9. CourseInv(r)' /\ MadeInv(r)' /\ TouchInv(r)'
  BY <1>1, <1>3, <1>4, <1>5, <1>7, <1>8, Acting DEF Calls, CourseInv
<1>10. FoundInv(r)'
  BY <1>1, <1>3, <1>4, <1>7, <1>8, FoundStays DEF Orderly
<1>11. CoverInv(r)' /\ LeakInv(r)'
  BY <1>3, <1>5 DEF CoverInv, LeakInv
<1> QED
  BY <1>3, <1>7, <1>8, <1>9, <1>10, <1>11, OneActs DEF Own, Aside

\* A killed request holds its tongue.
LEMMA CrashSafe ==
  ASSUME TypeInv, TypeInv', SafeInv, NEW r \in Requests, Crash(r)
  PROVE  SafeInv'
<1>1. /\ UNCHANGED <<composeVars, arg, found, dep, snap, opdata, logged, began>>
      /\ pc[r] \in Calls
  BY DEF Crash
<1>2. /\ \A q \in Requests \ {r} : pc'[q] = pc[q] /\ reply'[q] = reply[q]
      /\ pc'[r] = "done" /\ reply'[r] = "dropped"
  BY DEF Crash, Reply, Goto, TypeInv, TypeOK, LocalsTypeOK
<1>3. ReferInv /\ CourseInv(r) /\ CoverInv(r)
  BY DEF SafeInv
<1>4. /\ Orderly(r) /\ UNCHANGED <<deployments, recipes>>
      /\ Fresh(r) \notin DOMAIN deployments \cup DOMAIN recipes
  BY <1>1, <1>3, NothingOrderly, FreshIsNew DEF composeVars
<1>5. CourseInv(r)' /\ MadeInv(r)' /\ TouchInv(r)'
  BY <1>1, <1>2, <1>3, <1>4, Acting DEF CourseInv
<1>6. FoundInv(r)' /\ LeakInv(r)'
  BY <1>2 DEF FoundInv, LeakInv
<1>7. CoverInv(r)'
  BY <1>1, <1>2, <1>3, <1>4, CoverStays DEF Orderly
<1> QED
  BY <1>1, <1>2, <1>4, <1>5, <1>6, <1>7, OneActs DEF Own, Aside

\* A request that comes in has made and found nothing, and no backup is
\* younger than it.
LEMMA ReceiveSafe ==
  ASSUME TypeInv, TypeInv', SafeInv, NEW r \in Requests, Receive(r)
  PROVE  SafeInv'
<1>1. /\ pc[r] = "idle"
      /\ UNCHANGED <<composeVars, found, dep, snap, opdata, tries, logged>>
  BY DEF Receive
<1>2. ReferInv /\ CourseInv(r) /\ MadeInv(r)
  BY DEF SafeInv
<1>3. Refuse(r) \/ \E a, label : label \in {"create", "list", "poll"} /\ Begin(r, a, label)
  <2>1. CASE ReceiveProvision(r)
    <3>1. Refuse(r) \/ \E a, source : Begin(r, a, IF source = Nil THEN "create" ELSE "list")
      BY <2>1 DEF ReceiveProvision
    <3> QED
      BY <3>1
  <2>2. CASE ReceiveDeprovision(r)
    BY <2>2 DEF ReceiveDeprovision
  <2>3. CASE ReceiveUpdate(r)
    BY <2>3 DEF ReceiveUpdate
  <2>4. CASE ReceiveLastOperation(r)
    BY <2>4 DEF ReceiveLastOperation
  <2> QED
    BY <2>1, <2>2, <2>3, <2>4 DEF Receive
<1>4. /\ \A q \in Requests \ {r} : /\ pc'[q] = pc[q] /\ reply'[q] = reply[q]
                                   /\ arg'[q] = arg[q] /\ began'[q] = began[q]
      /\ \/ pc'[r] \in {"create", "list", "poll"} /\ reply'[r] = reply[r]
         \/ pc'[r] = "done" /\ reply'[r] = "refused"
      /\ began'[r] \in {began[r], Len(backups)}
  <2>1. CASE Refuse(r)
    BY <2>1 DEF Refuse, Reply, Goto, TypeInv, TypeOK, LocalsTypeOK
  <2>2. CASE \E a, label : label \in {"create", "list", "poll"} /\ Begin(r, a, label)
    BY <2>2 DEF Begin, Goto, TypeInv, TypeOK, LocalsTypeOK
  <2> QED
    BY <1>3, <2>1, <2>2
<1>5. /\ Orderly(r) /\ UNCHANGED <<deployments, recipes, backups>>
      /\ OwnDeployments(r)' = {} /\ OwnRecipes(r)' = {}
  BY <1>1, <1>2, NothingOrderly DEF composeVars, CourseInv, OwnDeployments, OwnRecipes
<1>6. dep'[r] = Nil /\ reply[r] = "none" /\ opdata'[r].whitelist = <<>>
  BY <1>1, <1>2 DEF CourseInv, TypeInv, LoopInv
<1>7. CourseInv(r)'
  BY <1>4, <1>5, <1>6 DEF CourseInv
<1>8. MadeInv(r)'
  <2>1. began[r] <= Len(backups) /\ Len(backups) \in Nat
    BY <1>2 DEF MadeInv, TypeInv, TypeOK, ComposeTypeOK
  <2> QED
    BY <1>4, <1>5, <2>1 DEF MadeInv
<1>9. FoundInv(r)' /\ TouchInv(r)' /\ LeakInv(r)'
  BY <1>4, <1>5, <1>6 DEF FoundInv, TouchInv, LeakInv
<1>10. CoverInv(r)'
  BY <1>4, <1>6 DEF CoverInv
<1> QED
  BY <1>1, <1>4, <1>5, <1>7, <1>8, <1>9, <1>10, OneActs DEF Own, Aside

---------------------------------------------------------------------------
(* The invariant, and what it is for.                                      *)

\* Nothing has been made for anybody yet.
LEMMA InitSafe == Init => SafeInv
<1> SUFFICES ASSUME Init PROVE SafeInv
  OBVIOUS
<1>1. \A r \in Requests : OwnDeployments(r) = {} /\ OwnRecipes(r) = {}
  BY ExistingAssumption DEF Init, ComposeInit, OwnDeployments, OwnRecipes
<1>2. DOMAIN recipes = {} /\ DOMAIN backups = {} /\ Len(backups) = 0
  BY DEF Init, ComposeInit
<1>3. ReferInv
  BY <1>1, <1>2 DEF ReferInv
<1>4. ASSUME NEW r \in Requests PROVE Own(r)
  <2>1. /\ pc[r] = "idle" /\ arg[r].op = "none" /\ found[r] = Nil /\ dep[r] = Nil
        /\ opdata[r].whitelist = <<>> /\ reply[r] = "none" /\ began[r] = 0
    BY DEF Init, NoArg, NoOpData
  <2>2. CourseInv(r) /\ MadeInv(r) /\ TouchInv(r)
    BY <1>1, <1>2, <2>1 DEF CourseInv, MadeInv, TouchInv
  <2>3. FoundInv(r) /\ CoverInv(r) /\ LeakInv(r)
    BY <2>1 DEF FoundInv, CoverInv, LeakInv
  <2> QED
    BY <2>2, <2>3 DEF Own
<1> QED
  BY <1>3, <1>4 DEF SafeInv, Own

\* Every step keeps it.
LEMMA NextSafe == BrokerInv /\ SafeInv /\ [Next]_vars => SafeInv'
<1> SUFFICES ASSUME BrokerInv, SafeInv, [Next]_vars PROVE SafeInv'
  OBVIOUS
<1>1. TypeInv /\ TypeInv' /\ TargetInv
  BY NextTypes DEF BrokerInv, DataInv
<1>2. ASSUME NEW r \in Requests, Receive(r) \/ Handle(r) \/ Crash(r)
      PROVE  SafeInv'
  BY <1>1, <1>2, ListSafe, GetSafe, CreateSafe, GetBackupsSafe, RestoreSafe, PatchSafe,
     AddWhitelistSafe, CleanupSafe, LastCallSafe, PollSafe, CrashSafe, ReceiveSafe DEF Handle
<1>3. CASE ComposeStep /\ UNCHANGED locals
  <2>1. /\ Grows /\ ReferInv'
        /\ DOMAIN deployments' = DOMAIN deployments /\ DOMAIN recipes' = DOMAIN recipes
    BY <1>1, <1>3, ComposeStepGrows DEF SafeInv
  <2>2. \A q \in Requests : Rests(q)
    BY <2>1 DEF Rests, OwnDeployments, OwnRecipes
  <2>3. \A q \in Requests : Own(q)'
    BY <1>1, <1>3, <2>1, <2>2, Bystander DEF locals, Own
  <2> QED
    BY <2>1, <2>3 DEF SafeInv, Own
<1>4. CASE UNCHANGED vars
  <2>1. Grows /\ ReferInv' /\ \A q \in Requests : Rests(q)
    <3>1. ReferInv /\ UNCHANGED <<composeVars>> /\ Len(backups) \in Nat
      BY <1>1, <1>4 DEF SafeInv, vars, TypeInv, TypeOK, ComposeTypeOK
    <3> QED
      BY <3>1 DEF Grows, ReferInv, Rests, OwnDeployments, OwnRecipes, composeVars
  <2>2. \A q \in Requests : Own(q)'
    BY <1>1, <1>4, <2>1, Bystander DEF vars, locals, Own
  <2> QED
    BY <2>1, <2>2 DEF SafeInv, Own
<1> QED
  BY <1>2, <1>3, <1>4 DEF Next, Quiet

LEMMA SafeInvariant == Spec => [](BrokerInv /\ SafeInv)
<1>1. Init => BrokerInv /\ SafeInv
  BY InitTypes, InitData, InitSafe DEF BrokerInv
<1>2. (BrokerInv /\ SafeInv) /\ [Next]_vars => (BrokerInv /\ SafeInv)'
  BY NextTypes, NextData, NextSafe DEF BrokerInv
<1> QED
  BY <1>1, <1>2, PTL DEF Spec

\* The operation data of an accepted Provision lists one whitelist recipe for
\* every configured address, all on the deployment it made, whatever calls
\* were repeated and whatever other requests did.
THEOREM WhitelistCovered == Spec => []AcceptedCoversWhitelist
<1>1. BrokerInv /\ SafeInv => AcceptedCoversWhitelist
  <2> SUFFICES ASSUME BrokerInv, SafeInv, NEW r \in Provisions, reply[r] = "accepted"
               PROVE  /\ Len(opdata[r].whitelist) = Len(IPWhitelist)
                      /\ \A i \in DOMAIN IPWhitelist :
                           LET x == opdata[r].whitelist[i]
                           IN  /\ recipes[x].kind = "whitelist"
                               /\ recipes[x].ip = IPWhitelist[i]
                               /\ recipes[x].on = opdata[r].recipe
    BY DEF AcceptedCoversWhitelist
  <2>1. r \in Requests /\ arg[r].op = "Provision" /\ CoverInv(r)
    BY DEF Provisions, SafeInv
  <2>2. Len(opdata[r].whitelist) = Len(IPWhitelist)
    BY <2>1 DEF CoverInv
  <2>3. opdata[r].whitelist \in Seq(Ids) /\ IPWhitelist \in Seq(IPs)
    BY <2>1, WhitelistAssumption DEF BrokerInv, TypeInv, TypeOK, LocalsTypeOK
  <2>4. DOMAIN opdata[r].whitelist = DOMAIN IPWhitelist
    BY <2>2, <2>3
  <2> QED
    BY <2>1, <2>2, <2>4 DEF CoverInv, Whitelists
<1> QED
  BY <1>1, SafeInvariant, PTL

\* No Provision ends in an error with a deployment in hand that neither the
\* log nor Compose knows is to go.
THEOREM NothingLeaksSilently == Spec => []NoSilentLeak
<1>1. SafeInv => NoSilentLeak
  BY DEF SafeInv, LeakInv, NoSilentLeak, Provisions
<1> QED
  BY <1>1, SafeInvariant, PTL

\* Requests change nothing at Compose but the instance they name, and clean
\* up nothing but what they made.
THEOREM OnlyNamedTouched == Spec => []TouchesOnlyNamed
<1>1. SafeInv => TouchesOnlyNamed
  BY DEF SafeInv, MadeInv, TouchInv, TouchesOnlyNamed, OwnRecipes
<1> QED
  BY <1>1, SafeInvariant, PTL

\* What is restored is a restorable backup of the instance that was named, no
\* older than any there was when the request came in.
THEOREM SnapshotIsFresh == Spec => []FreshSnapshot
<1>1. SafeInv => FreshSnapshot
  BY DEF SafeInv, MadeInv, WellChosen, IsFresh, FreshSnapshot, OwnDeployments
<1> QED
  BY <1>1, SafeInvariant, PTL

---------------------------------------------------------------------------
(* The loop that chooses a backup.                                         *)

\* A set of finite sets of numbers has a smallest one.
LEMMA SmallestOf ==
  ASSUME NEW C, C # {}, C \subseteq FiniteSubsetsOf(Nat)
  PROVE  \E x \in C : \A y \in C : y \subseteq x => y = x
<1>1. IsWellFoundedOn(StrictSubsetOrdering(Nat), FiniteSubsetsOf(Nat))
  BY FS_StrictSubsetOrderingWellFounded
<1>2. \E x \in C : \A y \in C : ~(<<y, x>> \in StrictSubsetOrdering(Nat))
  BY <1>1, WFMin
<1>3. ASSUME NEW x \in C, NEW y \in C, y \subseteq x, y # x
      PROVE  <<y, x>> \in StrictSubsetOrdering(Nat)
  BY <1>3 DEF StrictSubsetOrdering, FiniteSubsetsOf
<1> QED
  BY <1>2, <1>3

\* The least counterexample of a proof by induction.
LEMMA LeastNat ==
  ASSUME NEW T \in SUBSET Nat, T # {}
  PROVE  \E n \in T : \A m \in T : n <= m
<1> DEFINE C == {1 .. n : n \in T}
<1>1. \A n \in Nat : 1 .. n \in FiniteSubsetsOf(Nat)
  <2> TAKE n \in Nat
  <2>1. IsFiniteSet(1 .. n)
    BY FS_Interval
  <2>2. 1 .. n \in SUBSET Nat
    OBVIOUS
  <2> QED
    BY <2>1, <2>2 DEF FiniteSubsetsOf
<1>2. C # {} /\ C \subseteq FiniteSubsetsOf(Nat)
  BY <1>1
<1>3. PICK x \in C : \A y \in C : y \subseteq x => y = x
  <2> HIDE DEF C
  <2> QED BY <1>2, SmallestOf
<1>4. PICK n \in T : x = 1 .. n
  OBVIOUS
<1>5. ASSUME NEW m \in T, ~(n <= m) PROVE FALSE
  <2>1. 1 .. m \in C /\ 1 .. m \subseteq 1 .. n /\ n \in 1 .. n /\ n \notin 1 .. m
    BY <1>5
  <2> QED
    BY <2>1, <1>3, <1>4
<1> QED
  BY <1>5

\* Round by round, what newest holds after the first i backups of the list.
Rounds(bs, n, newest) ==
  newest = [i \in 0 .. n |-> IF i = 0 THEN 0
                             ELSE IF Loop!Better(bs, newest[i - 1], i) THEN i ELSE newest[i - 1]]

LEMMA OneMoreRound ==
  ASSUME NEW bs, NEW n \in Nat, NEW newest, Rounds(bs, n, newest)
  PROVE  \E longer : Rounds(bs, n + 1, longer)
<1> DEFINE longer == [i \in 0 .. n + 1 |->
                        IF i <= n THEN newest[i]
                        ELSE IF Loop!Better(bs, newest[n], i) THEN i ELSE newest[n]]
<1>1. ASSUME NEW i \in 0 .. n + 1
      PROVE  longer[i] = IF i = 0 THEN 0
                         ELSE IF Loop!Better(bs, longer[i - 1], i) THEN i ELSE longer[i - 1]
  <2>1. CASE i = 0
    BY <2>1 DEF Rounds
  <2>2. CASE i # 0
    <3>1. longer[i - 1] = newest[i - 1]
      BY <2>2
    <3>2. CASE i <= n
      <4>1. longer[i] = newest[i]
        BY <3>2
      <4>2. newest[i] = IF Loop!Better(bs, newest[i - 1], i) THEN i ELSE newest[i - 1]
        BY <2>2, <3>2 DEF Rounds
      <4> QED
        BY <2>2, <3>1, <4>1, <4>2
    <3>3. CASE i = n + 1
      BY <2>2, <3>1, <3>3
    <3> QED
      BY <3>2, <3>3
  <2> QED
    BY <2>1, <2>2
<1>2. Rounds(bs, n + 1, longer)
  BY <1>1 DEF Rounds
<1> QED
  BY <1>2

LEMMA AllRounds ==
  ASSUME NEW bs, NEW n \in Nat
  PROVE  \E newest : Rounds(bs, n, newest)
<1> DEFINE T == {m \in Nat : ~ \E newest : Rounds(bs, m, newest)}
<1> SUFFICES ASSUME T # {} PROVE FALSE
  OBVIOUS
<1>1. PICK m \in T : \A k \in T : m <= k
  <2>1. T \in SUBSET Nat
    OBVIOUS
  <2> HIDE DEF T
  <2> QED
    BY <2>1, LeastNat
<1>2. CASE m = 0
  <2>1. Rounds(bs, 0, [i \in 0 .. 0 |-> 0])
    BY DEF Rounds
  <2> QED
    BY <1>2, <2>1
<1>3. CASE m # 0
  <2>1. m - 1 \in Nat /\ m - 1 \notin T
    BY <1>1, <1>3
  <2>2. PICK newest : Rounds(bs, m - 1, newest)
    BY <2>1
  <2>3. \E longer : Rounds(bs, (m - 1) + 1, longer)
    BY <2>1, <2>2, OneMoreRound
  <2>4. (m - 1) + 1 = m
    OBVIOUS
  <2> QED
    BY <2>3, <2>4
<1> QED
  BY <1>2, <1>3

LEMMA LoopRounds ==
  ASSUME NEW bs, Len(bs) \in Nat
  PROVE  \E newest : /\ Rounds(bs, Len(bs), newest)
                     /\ Loop!newestRestorableBackup(bs) = newest[Len(bs)]
<1> DEFINE f[i \in 0 .. Len(bs)] ==
             IF i = 0 THEN 0 ELSE IF Loop!Better(bs, f[i - 1], i) THEN i ELSE f[i - 1]
<1>1. Loop!newestRestorableBackup(bs) = f[Len(bs)]
  BY DEF Loop!newestRestorableBackup
<1>2. Rounds(bs, Len(bs), f)
  BY AllRounds DEF Rounds
<1> QED
  BY <1>1, <1>2

\* newest is right for the first n backups of the list.
RightUpto(bs, n, newest) ==
  \/ newest = 0 /\ \A i \in 1 .. n : ~bs[i].restorable
  \/ /\ newest \in 1 .. n /\ bs[newest].restorable
     /\ \A i \in 1 .. n : bs[i].restorable =>
          /\ bs[i].createdAt <= bs[newest].createdAt
          /\ i < newest => bs[i].createdAt < bs[newest].createdAt

LEMMA OneRoundRight ==
  ASSUME NEW bs, NEW n \in Nat, n # 0, NEW newest, RightUpto(bs, n - 1, newest),
         \A i \in 1 .. n : bs[i].createdAt \in Nat /\ bs[i].restorable \in BOOLEAN
  PROVE  RightUpto(bs, n, IF Loop!Better(bs, newest, n) THEN n ELSE newest)
<1>1. \A i \in 1 .. n : i = n \/ i \in 1 .. n - 1
  OBVIOUS
<1>2. n \in 1 .. n /\ \A i \in 1 .. n - 1 : i \in 1 .. n /\ i < n
  OBVIOUS
<1>3. CASE Loop!Better(bs, newest, n)
  <2>1. \A i \in 1 .. n - 1 : bs[i].restorable => bs[i].createdAt < bs[n].createdAt
    BY <1>2, <1>3 DEF RightUpto, Loop!Better
  <2>2. bs[n].restorable
    BY <1>3 DEF Loop!Better
  <2> QED
    BY <1>1, <1>2, <1>3, <2>1, <2>2 DEF RightUpto
<1>4. CASE ~Loop!Better(bs, newest, n)
  <2>1. CASE ~bs[n].restorable
    BY <1>1, <1>2, <1>4, <2>1 DEF RightUpto
  <2>2. CASE bs[n].restorable
    <3>1. newest # 0 /\ ~(bs[n].createdAt > bs[newest].createdAt)
      BY <1>4, <2>2 DEF Loop!Better
    <3>2. newest \in 1 .. n - 1
      BY <3>1 DEF RightUpto
    <3> QED
      BY <1>1, <1>2, <1>4, <3>1, <3>2 DEF RightUpto
  <2> QED
    BY <1>2, <2>1, <2>2
<1> QED
  BY <1>3, <1>4

\* The loop of newestRestorableBackup returns the first of the newest restorable
\* backups, and nil just if there is none, for every list of every length.
THEOREM LoopIsRight ==
  ASSUME NEW bs \in Seq(Loop!Listing)
  PROVE  Loop!IsFirstNewest(bs, Loop!newestRestorableBackup(bs))
<1>1. /\ Len(bs) \in Nat /\ DOMAIN bs = 1 .. Len(bs)
      /\ \A i \in 1 .. Len(bs) : bs[i] \in Loop!Listing
  OBVIOUS
<1>2. \A i \in 1 .. Len(bs) : bs[i].createdAt \in Nat /\ bs[i].restorable \in BOOLEAN
  BY <1>1 DEF Loop!Listing
<1>3. PICK newest : /\ Rounds(bs, Len(bs), newest)
                    /\ Loop!newestRestorableBackup(bs) = newest[Len(bs)]
  BY <1>1, LoopRounds
<1> DEFINE T == {n \in 0 .. Len(bs) : ~RightUpto(bs, n, newest[n])}
<1>4. ASSUME T # {} PROVE FALSE
  <2>1. PICK n \in T : \A k \in T : n <= k
    <3>1. T \in SUBSET Nat
      BY <1>1
    <3> HIDE DEF T
    <3> QED
      BY <1>4, <3>1, LeastNat
  <2>2. newest[n] = IF n = 0 THEN 0
                    ELSE IF Loop!Better(bs, newest[n - 1], n) THEN n ELSE newest[n - 1]
    BY <1>1, <1>3, <2>1 DEF Rounds
  <2>3. n # 0
    BY <2>1, <2>2 DEF RightUpto
  <2>4. n \in Nat /\ n - 1 \in 0 .. Len(bs) /\ RightUpto(bs, n - 1, newest[n - 1])
    BY <1>1, <2>1, <2>3
  <2>5. \A i \in 1 .. n : bs[i].createdAt \in Nat /\ bs[i].restorable \in BOOLEAN
    BY <1>1, <1>2, <2>1
  <2>6. RightUpto(bs, n, newest[n])
    BY <2>2, <2>3, <2>4, <2>5, OneRoundRight
  <2> QED
    BY <2>1, <2>6
<1>5. RightUpto(bs, Len(bs), newest[Len(bs)])
  BY <1>1, <1>4
<1> QED
  BY <1>1, <1>3, <1>5 DEF Loop!IsFirstNewest, RightUpto

LEMMA FunctionIsSeq ==
  ASSUME NEW S, NEW n \in Nat, NEW f \in [1 .. n -> S]
  PROVE  f \in Seq(S)
BY SeqDef

LEMMA NowChoosesNewest ==
  ASSUME TypeOK
  PROVE  ChoosesNewest
<1> SUFFICES ASSUME NEW r \in Requests, NEW order \in ListOrders(found[r])
             PROVE  LET n == Loop!newestRestorableBackup(Listed(order))
                    IN  IF Restorable(found[r]) = {} THEN n = 0
                        ELSE n \in DOMAIN order /\ IsNewestRestorable(order[n], found[r])
  BY DEF ChoosesNewest
<1> DEFINE mine == {b \in DOMAIN backups : backups[b].of = found[r]}
           n == Loop!newestRestorableBackup(Listed(order))
<1>1. /\ backups \in Seq(Backup) /\ Len(backups) \in Nat /\ DOMAIN backups = 1 .. Len(backups)
      /\ \A b \in DOMAIN backups : b \in Nat /\ backups[b].restorable \in BOOLEAN
  <2>1. backups \in Seq(Backup)
    BY DEF TypeOK, ComposeTypeOK
  <2>2. /\ Len(backups) \in Nat /\ DOMAIN backups = 1 .. Len(backups)
        /\ \A b \in DOMAIN backups : backups[b] \in Backup
    BY <2>1
  <2> QED
    BY <2>1, <2>2 DEF Backup
<1>2. Cardinality(mine) \in Nat
  <2>1. IsFiniteSet(1 .. Len(backups)) /\ mine \in SUBSET (1 .. Len(backups))
    BY <1>1, FS_Interval
  <2>2. IsFiniteSet(mine)
    BY <2>1, FS_Subset
  <2> QED
    BY <2>2, FS_CardinalityType
<1>3. /\ order \in [1 .. Cardinality(mine) -> mine]
      /\ \A b \in mine : \E k \in DOMAIN order : order[k] = b
  BY DEF ListOrders
<1> HIDE DEF n
<1>4. /\ DOMAIN Listed(order) = DOMAIN order
      /\ \A k \in DOMAIN order : /\ order[k] \in mine /\ order[k] \in Nat
                                 /\ Listed(order)[k].createdAt = order[k]
                                 /\ Listed(order)[k].restorable = backups[order[k]].restorable
                                 /\ Listed(order)[k] \in Loop!Listing
  BY <1>1, <1>3 DEF Listed, Loop!Listing
<1>5. Listed(order) \in Seq(Loop!Listing)
  <2>1. Listed(order) \in [1 .. Cardinality(mine) -> Loop!Listing]
    BY <1>3, <1>4 DEF Listed
  <2> QED
    BY <1>2, <2>1, FunctionIsSeq
<1>6. Loop!IsFirstNewest(Listed(order), n)
  BY <1>5, LoopIsRight DEF n
<1>7. \A b : b \in Restorable(found[r]) <=> \E k \in DOMAIN order : order[k] = b /\ Listed(order)[k].restorable
  BY <1>3, <1>4 DEF Restorable
<1>8. CASE Restorable(found[r]) = {}
  BY <1>4, <1>6, <1>7, <1>8 DEF n, Loop!IsFirstNewest
<1>9. CASE Restorable(found[r]) # {}
  <2>1. /\ n \in DOMAIN order /\ Listed(order)[n].restorable
        /\ \A k \in DOMAIN order : Listed(order)[k].restorable =>
             Listed(order)[k].createdAt <= Listed(order)[n].createdAt
    BY <1>4, <1>6, <1>7, <1>9 DEF Loop!IsFirstNewest
  <2> QED
    BY <1>4, <1>7, <1>9, <2>1 DEF n, IsNewestRestorable
<1> QED
  BY <1>8, <1>9 DEF n

\* In whatever order Compose lists the backups of a deployment, the loop chooses
\* the newest that can be restored.
THEOREM NewestIsChosen == Spec => []ChoosesNewest
<1>1. TypeOK => ChoosesNewest
  BY NowChoosesNewest
<1> QED
  BY <1>1, TypeCorrect, PTL
=============================================================================
