-------------------------- MODULE RefinementProofs --------------------------
(***************************************************************************)
(* The broker's operations implement module Operation, for every set of    *)
(* requests, whitelist and number of repetitions, as long as bodies decode *)
(* and Compose's statuses are known.                                       *)
(***************************************************************************)
EXTENDS BrokerRefinement, BrokerProofs

---------------------------------------------------------------------------
(* Recipes and operation data.                                             *)

\* Compose makes at most one recipe, for r.
Orders(r) ==
  \/ UNCHANGED <<recipes, made>>
  \/ /\ \E recipe : recipes' = With(recipes, Fresh(r), recipe)
     /\ made' = [made EXCEPT ![r] = @ + 1]

\* A fresh identifier is not one of an older recipe, so older recipes stay.
LEMMA OlderRecipesStay ==
  ASSUME TypeInv, CountInv, NEW r \in Requests, Orders(r)
  PROVE  /\ CountInv'
         /\ \A x \in DOMAIN recipes : x \in DOMAIN recipes' /\ recipes'[x] = recipes[x]
<1>1. made \in [Requests -> Nat]
  BY DEF TypeInv, TypeOK, ComposeTypeOK
<1>2. CASE UNCHANGED <<recipes, made>>
  BY <1>2 DEF CountInv
<1>3. CASE /\ \E recipe : recipes' = With(recipes, Fresh(r), recipe)
           /\ made' = [made EXCEPT ![r] = @ + 1]
  <2>1. Fresh(r) \in {r} \X Nat /\ Fresh(r)[2] = made[r] + 1
    BY <1>1, FreshIsId DEF Fresh
  <2>2. Fresh(r) \notin DOMAIN recipes
    BY <1>1, <2>1 DEF CountInv
  <2>3. /\ DOMAIN recipes' = DOMAIN recipes \cup {Fresh(r)}
        /\ \A x \in DOMAIN recipes : recipes'[x] = recipes[x]
    BY <1>3, <2>2 DEF With
  <2>4. \A q \in Requests : made[q] <= made'[q]
    BY <1>1, <1>3
  <2>5. ASSUME NEW q \in Requests, NEW x \in DOMAIN recipes', x \in {q} \X Nat
        PROVE  x[2] <= made'[q]
    <3>1. CASE x = Fresh(r)
      BY <1>1, <1>3, <2>1, <2>5, <3>1
    <3>2. CASE x \in DOMAIN recipes
      <4>1. x[2] <= made[q] /\ x[2] \in Nat /\ made[q] \in Nat /\ made'[q] \in Nat
        BY <1>1, <1>3, <2>5, <3>2 DEF CountInv
      <4> QED
        BY <2>4, <4>1
    <3> QED
      BY <2>3, <3>1, <3>2
  <2> QED
    BY <2>3, <2>5 DEF CountInv
<1> QED
  BY <1>2, <1>3 DEF Orders

\* What a handler other than LastOperation does to what a poll looks at.
Shape(r, label, answer) ==
  /\ Orders(r)
  /\ pc' = [pc EXCEPT ![r] = label]
  /\ reply' = [reply EXCEPT ![r] = answer]
  /\ \A q \in Requests \ {r} : opdata'[q] = opdata[q]
  /\ opdata'[r].recipe \in DOMAIN recipes' \cup {Nil}
  /\ \A i \in DOMAIN opdata'[r].whitelist : opdata'[r].whitelist[i] \in DOMAIN recipes'
  /\ label \in {"patch", "whitelist"} => opdata'[r].recipe \in DOMAIN recipes'
  /\ answer = "accepted" => label = "done" /\ opdata'[r].recipe \in DOMAIN recipes'
  /\ answer # "none" => label \in {"done", "cleanup"}
  /\ answer \in Verdicts => label = "done"

\* A step of that shape keeps operation data naming recipes.
LEMMA ShapeKnown ==
  ASSUME TypeInv, KnownInv, NEW r \in Requests, pc[r] # "done",
         NEW label, NEW answer, Shape(r, label, answer)
  PROVE  KnownInv'
<1>1. /\ CountInv'
      /\ \A x \in DOMAIN recipes : x \in DOMAIN recipes' /\ recipes'[x] = recipes[x]
  BY OlderRecipesStay DEF Shape, KnownInv
<1>2. /\ \A q \in Requests \ {r} : pc'[q] = pc[q] /\ reply'[q] = reply[q] /\ opdata'[q] = opdata[q]
      /\ pc'[r] = label /\ reply'[r] = answer
  BY DEF Shape, TypeInv, TypeOK, LocalsTypeOK
<1>3. ASSUME NEW q \in Requests
      PROVE  /\ opdata'[q].recipe \in DOMAIN recipes' \cup {Nil}
             /\ \A i \in DOMAIN opdata'[q].whitelist : opdata'[q].whitelist[i] \in DOMAIN recipes'
             /\ pc'[q] \in {"patch", "whitelist"} => opdata'[q].recipe \in DOMAIN recipes'
             /\ reply'[q] = "accepted" => pc'[q] = "done" /\ opdata'[q].recipe \in DOMAIN recipes'
             /\ reply'[q] # "none" => pc'[q] \in {"done", "cleanup"}
             /\ reply'[q] \in Verdicts => pc'[q] = "done"
  <2>1. CASE q = r
    BY <1>2, <2>1 DEF Shape
  <2>2. CASE q # r
    BY <1>1, <1>2, <2>2 DEF KnownInv, OpDataInv
  <2> QED
    BY <2>1, <2>2
<1> QED
  BY <1>1, <1>3 DEF KnownInv, OpDataInv

\* The shape of a step that leaves the operation data alone.
LEMMA SameOpData ==
  ASSUME TypeInv, KnownInv, NEW r \in Requests, Orders(r), UNCHANGED opdata,
         NEW label, pc' = [pc EXCEPT ![r] = label],
         NEW answer, reply' = [reply EXCEPT ![r] = answer],
         label \in {"patch", "whitelist"} => opdata[r].recipe \in DOMAIN recipes,
         answer = "accepted" => label = "done" /\ opdata[r].recipe \in DOMAIN recipes,
         answer # "none" => label \in {"done", "cleanup"},
         answer \in Verdicts => label = "done"
  PROVE  Shape(r, label, answer)
<1>1. \A x \in DOMAIN recipes : x \in DOMAIN recipes'
  BY OlderRecipesStay DEF KnownInv
<1> QED
  BY <1>1 DEF Shape, KnownInv, OpDataInv

\* A request that makes its call again or gives up.
LEMMA GiveUpShape ==
  ASSUME TypeInv, KnownInv, NEW r \in Requests, pc[r] \in Calls, reply[r] = "none",
         NEW answer, GiveUp(r, answer), Orders(r), UNCHANGED opdata
  PROVE  \E label, last : /\ Shape(r, label, last) /\ label \in {pc[r], "done"}
                          /\ last \in {reply[r], "failed", "dropped"}
<1>1. CASE answer = "again"
  <2>1. pc' = [pc EXCEPT ![r] = pc[r]] /\ reply' = [reply EXCEPT ![r] = reply[r]]
    BY <1>1 DEF GiveUp, TypeInv, TypeOK, LocalsTypeOK
  <2>2. pc[r] \in {"patch", "whitelist"} => opdata[r].recipe \in DOMAIN recipes
    BY DEF KnownInv, OpDataInv
  <2>3. "none" \notin Verdicts
    BY DEF Verdicts
  <2>4. Shape(r, pc[r], reply[r])
    BY <2>1, <2>2, <2>3, SameOpData
  <2> QED
    BY <2>4
<1>2. CASE answer # "again"
  <2>1. PICK last \in {"failed", "dropped"} :
          pc' = [pc EXCEPT ![r] = "done"] /\ reply' = [reply EXCEPT ![r] = last]
    BY <1>2 DEF GiveUp, Reply, Goto, Failure
  <2>2. Shape(r, "done", last)
    BY <2>1, SameOpData
  <2> QED
    BY <2>2
<1> QED
  BY <1>1, <1>2

\* The end of the whitelist loop and every round of it.
LEMMA WhitelistShape ==
  ASSUME TypeInv, KnownInv, NEW r \in Requests, reply[r] = "none", NEW ids, Whitelist(r, ids), Orders(r),
         \A q \in Requests \ {r} : opdata'[q] = opdata[q],
         opdata'[r].recipe \in DOMAIN recipes',
         \A i \in DOMAIN opdata'[r].whitelist : opdata'[r].whitelist[i] \in DOMAIN recipes'
  PROVE  \E label \in {"whitelist", "done"}, last \in {reply[r], "accepted"} : Shape(r, label, last)
<1>1. "none" \notin Verdicts /\ "accepted" \notin Verdicts
  BY DEF Verdicts
<1>2. CASE Reply(r, "accepted")
  <2>1. Shape(r, "done", "accepted")
    BY <1>1, <1>2 DEF Reply, Goto, Shape
  <2> QED
    BY <2>1
<1>3. CASE Goto(r, "whitelist") /\ UNCHANGED reply
  <2>1. reply' = [reply EXCEPT ![r] = reply[r]]
    BY <1>3 DEF TypeInv, TypeOK, LocalsTypeOK
  <2>2. Shape(r, "whitelist", reply[r])
    BY <1>1, <1>3, <2>1 DEF Goto, Shape
  <2> QED
    BY <2>2
<1> QED
  BY <1>2, <1>3 DEF Whitelist

\* The answers a handler other than LastOperation ends with.
Ends == {"accepted", "gone", "failed", "dropped"}

Handled(r) ==
  \E label \in Calls \cup {"done"}, last \in {reply[r]} \cup Ends :
    Shape(r, label, last) /\ label # "poll"

\* A handler that only reads and goes on, or ends.
LEMMA ReadHandled ==
  ASSUME TypeInv, KnownInv, NEW r \in Requests, pc[r] \in {"list", "get", "backups"},
         UNCHANGED <<composeVars, opdata>>,
         \/ /\ \E label \in {"get", "backups", "restore", "deprovision", "scale"} : Goto(r, label)
            /\ UNCHANGED reply
         \/ \E last \in {"gone", "failed"} : Reply(r, last)
         \/ \E answer : GiveUp(r, answer)
  PROVE  Handled(r)
<1>1. Orders(r) /\ reply[r] = "none" /\ pc[r] \in Calls
  BY DEF Orders, composeVars, KnownInv, OpDataInv, Calls
<1>2. {"get", "backups", "restore", "deprovision", "scale"} \subseteq Calls
  BY DEF Calls
<1>3. \A last \in {"none", "gone", "failed"} : last \notin Verdicts
  BY DEF Verdicts
<1>4. ASSUME NEW label \in {"get", "backups", "restore", "deprovision", "scale"}, Goto(r, label), UNCHANGED reply
      PROVE  Handled(r)
  <2>1. reply' = [reply EXCEPT ![r] = reply[r]]
    BY <1>4 DEF TypeInv, TypeOK, LocalsTypeOK
  <2>2. Shape(r, label, reply[r])
    BY <1>1, <1>3, <1>4, <2>1, SameOpData DEF Goto
  <2> QED
    BY <1>2, <1>4, <2>2 DEF Handled
<1>5. ASSUME NEW last \in {"gone", "failed"}, Reply(r, last)
      PROVE  Handled(r)
  <2>1. Shape(r, "done", last)
    BY <1>1, <1>3, <1>5, SameOpData DEF Reply, Goto
  <2> QED
    BY <2>1 DEF Handled, Ends
<1>6. ASSUME NEW answer, GiveUp(r, answer)
      PROVE  Handled(r)
  BY <1>1, <1>6, GiveUpShape DEF Handled, Ends
<1> QED
  BY <1>4, <1>5, <1>6

\* What a changing call does to Compose's recipes.
LEMMA CallOrders ==
  ASSUME NEW r \in Requests,
         \/ UNCHANGED composeVars
         \/ \E name, type, space, data, from : NewDeployment(r, name, type, space, data, from)
         \/ \E kind, d, ip : NewRecipe(r, kind, d, ip)
         \/ \E d, space : SetSpace(d, space)
  PROVE  Orders(r)
BY DEF Orders, composeVars, NewDeployment, NewRecipe, SetSpace

\* The call that makes the deployment: its recipe is noted in the operation
\* data, and Provision goes on.
LEMMA MadeHandled ==
  ASSUME TypeInv, KnownInv, NEW r \in Requests, pc[r] \in {"create", "restore", "deprovision", "scale"},
         \/ \E name, type, space, data, from : NewDeployment(r, name, type, space, data, from)
         \/ \E kind, d, ip : NewRecipe(r, kind, d, ip),
         opdata' = [opdata EXCEPT ![r].recipe = Fresh(r)],
         \/ Whitelist(r, <<>>)
         \/ Goto(r, "patch") /\ UNCHANGED reply
         \/ Reply(r, "accepted")
  PROVE  Handled(r)
<1>1. Orders(r) /\ reply[r] = "none"
  BY CallOrders DEF KnownInv, OpDataInv
<1>2. /\ Fresh(r) \in DOMAIN recipes'
      /\ \A x \in DOMAIN recipes : x \in DOMAIN recipes'
  BY DEF NewDeployment, NewRecipe, With
<1>3. /\ opdata'[r].recipe = Fresh(r)
      /\ opdata'[r].whitelist = opdata[r].whitelist
      /\ \A q \in Requests \ {r} : opdata'[q] = opdata[q]
  <2>1. Fresh(r) \in Ids /\ LocalsTypeOK
    BY FreshIsId DEF TypeInv, TypeOK, ComposeTypeOK
  <2>2. opdata[r] \in [recipe : Ids \cup {Nil}, whitelist : Seq(Ids)]
    BY <2>1 DEF LocalsTypeOK
  <2>3. opdata' = [opdata EXCEPT ![r] = [opdata[r] EXCEPT !.recipe = Fresh(r)]]
    OBVIOUS
  <2> QED
    BY <2>1, <2>2, <2>3 DEF LocalsTypeOK
<1>4. \A i \in DOMAIN opdata'[r].whitelist : opdata'[r].whitelist[i] \in DOMAIN recipes'
  BY <1>2, <1>3 DEF KnownInv, OpDataInv
<1>5. "none" \notin Verdicts /\ "accepted" \notin Verdicts
  BY DEF Verdicts
<1>6. CASE Whitelist(r, <<>>)
  BY <1>1, <1>2, <1>3, <1>4, <1>6, WhitelistShape DEF Handled, Ends, Calls
<1>7. CASE Goto(r, "patch") /\ UNCHANGED reply
  <2>1. reply' = [reply EXCEPT ![r] = reply[r]]
    BY <1>7 DEF TypeInv, TypeOK, LocalsTypeOK
  <2>2. Shape(r, "patch", reply[r])
    BY <1>1, <1>2, <1>3, <1>4, <1>5, <1>7, <2>1 DEF Shape, Goto
  <2> QED
    BY <2>2 DEF Handled, Calls
<1>8. CASE Reply(r, "accepted")
  <2>1. Shape(r, "done", "accepted")
    BY <1>1, <1>2, <1>3, <1>4, <1>5, <1>8 DEF Shape, Reply, Goto
  <2> QED
    BY <2>1 DEF Handled, Ends
<1> QED
  BY <1>6, <1>7, <1>8

\* No handler takes an undecodable body for an answer, when there is none.
LEMMA NotBlank ==
  ASSUME Decodes, NEW r \in Requests
  PROVE  "blank" \notin Answers(r)
BY DEF Decodes, Answers

LEMMA MakersHandled ==
  ASSUME TypeInv, KnownInv, Decodes, NEW r \in Requests,
         Create(r) \/ Restore(r) \/ Deprovision(r) \/ Update(r)
  PROVE  Handled(r)
<1>1. /\ pc[r] \in {"create", "restore", "deprovision", "scale"}
      /\ pc[r] \in Calls /\ reply[r] = "none"
  BY DEF Create, Restore, Deprovision, Update, KnownInv, OpDataInv, Calls
<1>2. ASSUME NEW answer, GiveUp(r, answer), Orders(r), UNCHANGED opdata
      PROVE  Handled(r)
  BY <1>1, <1>2, GiveUpShape DEF Handled, Ends
<1>3. CASE Create(r)
  <2>1. PICK answer \in AllFaults \cup {"ok", "error"}, done \in BOOLEAN :
          /\ Exchange(r, answer, done, TRUE)
          /\ IF done THEN NewDeployment(r, arg[r].instance, WantedType(r), arg[r].space, arg[r].space, 0)
                     ELSE UNCHANGED composeVars
          /\ \/ /\ answer = "ok"
                /\ opdata' = [opdata EXCEPT ![r].recipe = Fresh(r)]
                /\ Whitelist(r, <<>>)
             \/ answer = "blank"
             \/ GiveUp(r, answer) /\ UNCHANGED opdata
    BY <1>3 DEF Create
  <2>2. answer # "blank" /\ (answer = "ok" => done)
    BY <2>1, NotBlank DEF Exchange
  <2>3. CASE answer = "ok" /\ Whitelist(r, <<>>) /\ opdata' = [opdata EXCEPT ![r].recipe = Fresh(r)]
    BY <1>1, <2>1, <2>2, <2>3, MadeHandled
  <2>4. Orders(r)
    BY <2>1, CallOrders
  <2> QED
    BY <1>2, <2>1, <2>2, <2>3, <2>4
<1>4. CASE Restore(r)
  <2>1. PICK answer \in AllFaults \cup {"ok", "error"}, done \in BOOLEAN :
          /\ Exchange(r, answer, done, Live(found[r]))
          /\ IF done THEN NewDeployment(r, arg[r].instance, deployments[found[r]].type, Nil,
                                        deployments[found[r]].data, snap[r])
                     ELSE UNCHANGED composeVars
          /\ \/ /\ answer = "ok"
                /\ opdata' = [opdata EXCEPT ![r].recipe = Fresh(r)]
                /\ Goto(r, "patch") /\ UNCHANGED reply
             \/ answer = "blank"
             \/ GiveUp(r, answer) /\ UNCHANGED opdata
    BY <1>4 DEF Restore
  <2>2. answer # "blank" /\ (answer = "ok" => done)
    BY <2>1, NotBlank DEF Exchange
  <2>3. CASE /\ answer = "ok" /\ Goto(r, "patch") /\ UNCHANGED reply
             /\ opdata' = [opdata EXCEPT ![r].recipe = Fresh(r)]
    BY <1>1, <2>1, <2>2, <2>3, MadeHandled
  <2>4. Orders(r)
    BY <2>1, CallOrders
  <2> QED
    BY <1>2, <2>1, <2>2, <2>3, <2>4
<1>5. CASE Deprovision(r) \/ Update(r)
  <2>1. PICK kind \in {"deprovision", "scale"} : LastCall(r, kind)
    BY <1>5 DEF Deprovision, Update
  <2>2. PICK answer \in AllFaults \cup {"ok", "error"}, done \in BOOLEAN :
          /\ Exchange(r, answer, done, Live(found[r]))
          /\ IF done THEN NewRecipe(r, kind, found[r], Nil) ELSE UNCHANGED composeVars
          /\ \/ /\ answer = "ok"
                /\ opdata' = [opdata EXCEPT ![r].recipe = Fresh(r)]
                /\ Reply(r, "accepted")
             \/ answer = "blank"
             \/ GiveUp(r, answer) /\ UNCHANGED opdata
    BY <2>1 DEF LastCall
  <2>3. answer # "blank" /\ (answer = "ok" => done)
    BY <2>2, NotBlank DEF Exchange
  <2>4. CASE answer = "ok" /\ Reply(r, "accepted") /\ opdata' = [opdata EXCEPT ![r].recipe = Fresh(r)]
    BY <1>1, <2>2, <2>3, <2>4, MadeHandled
  <2>5. Orders(r)
    BY <2>2, CallOrders
  <2> QED
    BY <1>2, <2>2, <2>3, <2>4, <2>5
<1> QED
  BY <1>3, <1>4, <1>5

LEMMA PatchHandled ==
  ASSUME TypeInv, KnownInv, Decodes, NEW r \in Requests, Patch(r)
  PROVE  Handled(r)
<1>1. PICK answer \in AllFaults \cup {"ok", "error"}, done \in BOOLEAN :
        /\ Exchange(r, answer, done, Live(dep[r]))
        /\ IF done THEN SetSpace(dep[r], arg[r].space) ELSE UNCHANGED composeVars
        /\ (answer = "ok" /\ Whitelist(r, <<>>)) \/ answer = "blank" \/ GiveUp(r, answer)
  BY DEF Patch
<1>2. answer # "blank" /\ Orders(r) /\ UNCHANGED <<recipes, opdata>>
  BY <1>1, NotBlank, CallOrders DEF Exchange, Patch, SetSpace, composeVars
<1>3. /\ reply[r] = "none" /\ pc[r] = "patch" /\ pc[r] \in Calls
      /\ opdata[r].recipe \in DOMAIN recipes
      /\ \A i \in DOMAIN opdata[r].whitelist : opdata[r].whitelist[i] \in DOMAIN recipes
  BY DEF Patch, KnownInv, OpDataInv, Calls
<1>4. CASE Whitelist(r, <<>>)
  BY <1>2, <1>3, <1>4, WhitelistShape DEF Handled, Ends, Calls
<1>5. CASE GiveUp(r, answer)
  BY <1>2, <1>3, <1>5, GiveUpShape DEF Handled, Ends
<1> QED
  BY <1>1, <1>2, <1>4, <1>5

LEMMA AddWhitelistHandled ==
  ASSUME TypeInv, KnownInv, Decodes, NEW r \in Requests, AddWhitelist(r)
  PROVE  Handled(r)
<1> DEFINE ids == opdata[r].whitelist
<1>1. PICK answer \in AllFaults \cup {"ok", "error"}, done \in BOOLEAN :
        /\ Exchange(r, answer, done, Live(dep[r]))
        /\ IF done THEN NewRecipe(r, "whitelist", dep[r], IPWhitelist[Len(ids) + 1])
                   ELSE UNCHANGED composeVars
        /\ \/ /\ answer = "ok"
              /\ opdata' = [opdata EXCEPT ![r].whitelist = Append(ids, Fresh(r))]
              /\ Whitelist(r, Append(ids, Fresh(r)))
           \/ answer = "again" /\ GiveUp(r, answer) /\ UNCHANGED opdata
           \/ answer \in {"error", "blank", "panic"} /\ RunDeferred(r, answer) /\ UNCHANGED opdata
  BY DEF AddWhitelist
<1>2. answer # "blank" /\ (answer = "ok" => done) /\ Orders(r)
  BY <1>1, NotBlank, CallOrders DEF Exchange
<1>3. /\ reply[r] = "none" /\ pc[r] = "whitelist" /\ pc[r] \in Calls
      /\ opdata[r].recipe \in DOMAIN recipes
      /\ \A i \in DOMAIN ids : ids[i] \in DOMAIN recipes
  BY DEF AddWhitelist, KnownInv, OpDataInv, Calls
<1>4. CASE /\ answer = "ok" /\ Whitelist(r, Append(ids, Fresh(r)))
           /\ opdata' = [opdata EXCEPT ![r].whitelist = Append(ids, Fresh(r))]
  <2>1. Fresh(r) \in DOMAIN recipes' /\ \A x \in DOMAIN recipes : x \in DOMAIN recipes'
    BY <1>1, <1>2, <1>4 DEF NewRecipe, With
  <2>2. opdata[r] \in [recipe : Ids \cup {Nil}, whitelist : Seq(Ids)] /\ r \in DOMAIN opdata
    BY DEF TypeInv, TypeOK, LocalsTypeOK
  <2>3. /\ opdata'[r].recipe = opdata[r].recipe
        /\ opdata'[r].whitelist = Append(ids, Fresh(r))
        /\ \A q \in Requests \ {r} : opdata'[q] = opdata[q]
    BY <1>4, <2>2 DEF TypeInv, TypeOK, LocalsTypeOK
  <2>4. ids \in Seq(Ids) /\ Fresh(r) \in Ids
    BY <2>2, FreshIsId DEF TypeInv, TypeOK, ComposeTypeOK
  <2>5. \A i \in DOMAIN Append(ids, Fresh(r)) : Append(ids, Fresh(r))[i] \in DOMAIN recipes'
    BY <1>3, <2>1, <2>4
  <2> QED
    BY <1>2, <1>3, <1>4, <2>1, <2>3, <2>5, WhitelistShape DEF Handled, Ends, Calls
<1>5. CASE answer = "again" /\ GiveUp(r, answer) /\ UNCHANGED opdata
  BY <1>2, <1>3, <1>5, GiveUpShape DEF Handled, Ends
<1>6. CASE RunDeferred(r, answer) /\ UNCHANGED opdata
  <2>1. PICK last \in {"failed", "dropped"} :
          pc' = [pc EXCEPT ![r] = "cleanup"] /\ reply' = [reply EXCEPT ![r] = last]
    BY <1>6 DEF RunDeferred, Goto, Failure
  <2>2. last \notin Verdicts
    BY DEF Verdicts
  <2>3. Shape(r, "cleanup", last)
    BY <1>2, <1>6, <2>1, <2>2, SameOpData
  <2> QED
    BY <2>3 DEF Handled, Ends, Calls
<1> QED
  BY <1>1, <1>2, <1>4, <1>5, <1>6

\* The deferred function leaves the answer alone, or loses it in a panic.
LEMMA CleanupHandled ==
  ASSUME TypeInv, KnownInv, NEW r \in Requests, Cleanup(r)
  PROVE  Handled(r)
<1>1. pc[r] = "cleanup" /\ Orders(r) /\ UNCHANGED opdata
  BY CallOrders DEF Cleanup
<1>2. reply[r] # "accepted" /\ reply[r] \notin Verdicts /\ {"failed", "dropped"} \cap Verdicts = {}
  BY <1>1 DEF KnownInv, OpDataInv, Verdicts
<1>3. \/ /\ \E label \in {"cleanup", "done"} : pc' = [pc EXCEPT ![r] = label]
         /\ reply' = [reply EXCEPT ![r] = reply[r]]
      \/ \E last \in {"failed", "dropped"} : Reply(r, last)
  BY <1>1 DEF Cleanup, GiveUp, Goto, Failure, TypeInv, TypeOK, LocalsTypeOK
<1>4. ASSUME NEW label \in {"cleanup", "done"}, pc' = [pc EXCEPT ![r] = label],
             reply' = [reply EXCEPT ![r] = reply[r]]
      PROVE  Handled(r)
  <2>1. Shape(r, label, reply[r])
    BY <1>1, <1>2, <1>4, SameOpData
  <2> QED
    BY <2>1 DEF Handled, Calls
<1>5. ASSUME NEW last \in {"failed", "dropped"}, Reply(r, last)
      PROVE  Handled(r)
  <2>1. Shape(r, "done", last)
    BY <1>1, <1>2, <1>5, SameOpData DEF Reply, Goto
  <2> QED
    BY <2>1 DEF Handled, Ends
<1> QED
  BY <1>3, <1>4, <1>5

\* Every handler but LastOperation.
LEMMA HandleHandled ==
  ASSUME TypeInv, KnownInv, Decodes, NEW r \in Requests, Handle(r), ~Poll(r)
  PROVE  Handled(r) /\ UNCHANGED <<arg, todo>>
<1>1. CASE List(r)
  BY <1>1, ReadHandled DEF List, Reads, NotFound
<1>2. CASE Get(r)
  BY <1>2, ReadHandled DEF Get, Reads, NotFound, Got
<1>3. CASE GetBackups(r)
  BY <1>3, ReadHandled DEF GetBackups, Reads
<1>4. UNCHANGED <<arg, todo>>
  BY DEF Handle, List, Get, Create, GetBackups, Restore, Patch, AddWhitelist, Cleanup,
         Deprovision, Update, LastCall
<1> QED
  BY <1>1, <1>2, <1>3, <1>4, MakersHandled, PatchHandled, AddWhitelistHandled, CleanupHandled
     DEF Handle

---------------------------------------------------------------------------
(* States and outcomes.                                                    *)

\* Only "complete" is a success and, of the known statuses, only "failed" a
\* failure.
LEMMA StateFacts ==
  ASSUME NEW status
  PROVE  /\ State(status) \in Verdicts
         /\ State(status) = "op succeeded" <=> status = "complete"
         /\ KnownStatuses /\ status \in Statuses => (State(status) = "op failed" <=> status = "failed")
<1>1. DOMAIN BrokerState = {"complete", "running", "waiting", "failed"}
  BY DEF BrokerState
<1>2. /\ BrokerState["complete"] = "op succeeded"
      /\ BrokerState["running"] = "op in progress"
      /\ BrokerState["waiting"] = "op in progress"
      /\ BrokerState["failed"] = "op failed"
  BY DEF BrokerState
<1> QED
  BY <1>1, <1>2 DEF State, Verdicts, KnownStatuses

\* The recipes of an accepted operation are there.
LEMMA ListKnown ==
  ASSUME TypeInv, KnownInv, NEW q \in Requests, reply[q] = "accepted"
  PROVE  /\ RecipesOf(opdata[q]) \in Seq(Ids)
         /\ Len(RecipesOf(opdata[q])) >= 1
         /\ \A i \in DOMAIN RecipesOf(opdata[q]) : RecipesOf(opdata[q])[i] \in DOMAIN recipes
<1> DEFINE x == opdata[q].recipe
           rest == opdata[q].whitelist
<1>1. x \in Ids /\ rest \in Seq(Ids) /\ x \in DOMAIN recipes
  BY DEF KnownInv, OpDataInv, TypeInv, TypeOK, LocalsTypeOK, ComposeTypeOK
<1>2. \A i \in DOMAIN rest : rest[i] \in DOMAIN recipes
  BY DEF KnownInv, OpDataInv
<1> HIDE DEF x, rest
<1>3. <<x>> \o rest \in Seq(Ids) /\ Len(<<x>> \o rest) = 1 + Len(rest)
  BY <1>1
<1>4. \A i \in 1 .. 1 + Len(rest) : (<<x>> \o rest)[i] = IF i = 1 THEN x ELSE rest[i - 1]
  BY <1>1
<1>5. \A i \in DOMAIN (<<x>> \o rest) : (<<x>> \o rest)[i] \in DOMAIN recipes
  <2> SUFFICES ASSUME NEW i \in 1 .. 1 + Len(rest)
               PROVE  (<<x>> \o rest)[i] \in DOMAIN recipes
    BY <1>3
  <2>1. Len(rest) \in Nat
    BY <1>1
  <2>2. CASE i = 1
    BY <1>1, <1>4, <2>2
  <2>3. CASE i # 1
    <3>1. i - 1 \in DOMAIN rest
      BY <1>1, <2>1, <2>3
    <3> QED
      BY <1>2, <1>4, <2>3, <3>1
  <2> QED
    BY <2>2, <2>3
<1>6. Len(rest) \in Nat
  BY <1>1
<1> QED
  BY <1>3, <1>5, <1>6 DEF RecipesOf, x, rest

\* An outcome is a state, and it depends on the statuses alone.
LEMMA OutcomeIsState == \A data : OutcomeOf(data) \in Verdicts
BY DEF OutcomeOf, Verdicts

LEMMA OutcomeSame ==
  ASSUME NEW q \in Requests, opdata'[q] = opdata[q],
         \A i \in DOMAIN RecipesOf(opdata[q]) :
           recipes'[RecipesOf(opdata[q])[i]].status = recipes[RecipesOf(opdata[q])[i]].status,
         RecipesOf(opdata[q]) \in Seq(Ids)
  PROVE  OutcomeOf(opdata[q])' = OutcomeOf(opdata[q])
<1> DEFINE list == RecipesOf(opdata[q])
<1>1. list' = list
  BY DEF RecipesOf
<1>2. \A i \in DOMAIN list : Done(list[i])' <=> Done(list[i])
  BY <1>1 DEF Done
<1>3. \A i : Decides(opdata[q], i)' <=> Decides(opdata[q], i)
  <2> SUFFICES ASSUME NEW i \in DOMAIN list
               PROVE  Decides(opdata[q], i)' <=> Decides(opdata[q], i)
    BY <1>1 DEF Decides
  <2>1. Len(list) \in Nat /\ DOMAIN list = 1 .. Len(list)
    OBVIOUS
  <2>2. \A j \in 1 .. i - 1 : j \in DOMAIN list
    BY <2>1
  <2> HIDE DEF list
  <2>3. \A j \in 1 .. i - 1 : Done(list[j])' <=> Done(list[j])
    BY <1>2, <2>2
  <2> QED
    BY <1>1, <1>2, <2>3 DEF Decides, list
<1> QED
  BY <1>1, <1>2, <1>3 DEF OutcomeOf

\* Where a poll is in the list.
LEMMA PlaceInList ==
  ASSUME NEW list \in Seq(Ids), NEW rest \in Seq(Ids), Len(rest) >= 1, ReadSoFar(list, rest)
  PROVE  \E n \in DOMAIN list :
           /\ rest[1] = list[n]
           /\ \A i \in 1 .. n - 1 : Done(list[i])
           /\ Len(rest) = 1 => n = Len(list)
<1>1. Len(list) \in Nat /\ Len(rest) \in Nat /\ Len(rest) <= Len(list) /\ DOMAIN list = 1 .. Len(list)
  BY DEF ReadSoFar
<1> DEFINE n == Len(list) - Len(rest) + 1
<1>2. n \in DOMAIN list /\ 1 \in 1 .. Len(rest) /\ n - 1 = Len(list) - Len(rest)
  BY <1>1
<1>3. Len(rest) = 1 => n = Len(list)
  BY <1>1
<1> HIDE DEF n
<1>4. Len(list) - Len(rest) + 1 = n
  BY DEF n
<1>5. rest[1] = list[n]
  BY <1>2, <1>4 DEF ReadSoFar
<1>6. \A i \in 1 .. n - 1 : Done(list[i])
  BY <1>2 DEF ReadSoFar
<1> QED
  BY <1>2, <1>3, <1>5, <1>6

\* The first recipe that is not complete decides, and it is the only one.
LEMMA OneDecides ==
  ASSUME NEW data, NEW list \in Seq(Ids), RecipesOf(data) = list, NEW n \in DOMAIN list,
         \A i \in 1 .. n - 1 : Done(list[i])
  PROVE  /\ Done(list[n]) /\ n = Len(list) => \A i \in DOMAIN list : Done(list[i])
         /\ ~Done(list[n]) => Decides(data, n) /\ \A i : Decides(data, i) => i = n
<1>1. Len(list) \in Nat /\ DOMAIN list = 1 .. Len(list) /\ n \in Nat
  OBVIOUS
<1>2. ASSUME Done(list[n]), n = Len(list)
      PROVE  \A i \in DOMAIN list : Done(list[i])
  <2>1. \A i \in DOMAIN list : i = n \/ i \in 1 .. n - 1
    BY <1>1, <1>2
  <2> QED
    BY <1>2, <2>1
<1>3. ASSUME ~Done(list[n]), NEW i, Decides(data, i)
      PROVE  i = n
  <2>1. i \in DOMAIN list /\ ~Done(list[i]) /\ \A j \in 1 .. i - 1 : Done(list[j])
    BY <1>3 DEF Decides
  <2>2. i \in Nat /\ i >= 1 /\ n >= 1
    BY <1>1, <2>1
  <2>3. i \notin 1 .. n - 1 /\ n \notin 1 .. i - 1
    BY <1>3, <2>1
  <2> QED
    BY <1>1, <2>2, <2>3
<1> QED
  BY <1>2, <1>3 DEF Decides

\* The recipe a poll ends at has the state of the operation.
LEMMA PollOutcome ==
  ASSUME NEW data, NEW list \in Seq(Ids), RecipesOf(data) = list,
         NEW rest \in Seq(Ids), Len(rest) >= 1, ReadSoFar(list, rest),
         Done(rest[1]) => Len(rest) = 1
  PROVE  OutcomeOf(data) = State(recipes[rest[1]].status)
<1>1. PICK n \in DOMAIN list :
        /\ rest[1] = list[n]
        /\ \A i \in 1 .. n - 1 : Done(list[i])
        /\ Len(rest) = 1 => n = Len(list)
  BY PlaceInList
<1>2. /\ Done(list[n]) => \A i \in DOMAIN list : Done(list[i])
      /\ ~Done(list[n]) => Decides(data, n) /\ \A i : Decides(data, i) => i = n
  BY <1>1, OneDecides
<1>3. Done(list[n]) <=> State(recipes[list[n]].status) = "op succeeded"
  BY StateFacts DEF Done
<1>4. State(recipes[list[n]].status) \in Verdicts
  BY StateFacts
<1> QED
  BY <1>1, <1>2, <1>3, <1>4 DEF OutcomeOf, Verdicts

---------------------------------------------------------------------------
(* Every step keeps the invariant.                                         *)

\* A step of request r, as the other requests see it.
StepOf(r) ==
  /\ Orders(r) /\ pc[r] # "done"
  /\ \A q \in Requests \ {r} :
       /\ pc'[q] = pc[q] /\ reply'[q] = reply[q] /\ opdata'[q] = opdata[q]
       /\ arg'[q] = arg[q] /\ todo'[q] = todo[q]

\* Recipes that stay as they are stay complete.
LEMMA ReadSoFarStays ==
  ASSUME NEW list \in Seq(Ids), NEW rest, NEW rest1, rest1 = rest, Len(rest) \in Nat,
         ReadSoFar(list, rest),
         \A i \in DOMAIN list : Done(list[i]) => recipes'[list[i]].status = "complete"
  PROVE  /\ Len(rest1) <= Len(list)
         /\ \A i \in 1 .. Len(rest1) : rest1[i] = list[Len(list) - Len(rest1) + i]
         /\ \A i \in 1 .. Len(list) - Len(rest1) : recipes'[list[i]].status = "complete"
<1>1. Len(list) \in Nat /\ DOMAIN list = 1 .. Len(list)
  OBVIOUS
<1>2. \A i \in 1 .. Len(list) - Len(rest) : i \in DOMAIN list
  BY <1>1
<1> QED
  BY <1>1, <1>2 DEF ReadSoFar

\* A poll that does not step loses nothing it has read.
LEMMA PollStays ==
  ASSUME TypeInv, KnownInv, PollInv, NEW p \in Requests, pc[p] = "poll",
         pc'[p] = pc[p], arg'[p] = arg[p], todo'[p] = todo[p],
         reply'[arg[p].of] = reply[arg[p].of], opdata'[arg[p].of] = opdata[arg[p].of],
         \A x \in DOMAIN recipes : x \in DOMAIN recipes' /\ (Done(x) => recipes'[x].status = "complete")
  PROVE  /\ arg'[p].of \in Requests
         /\ reply'[arg'[p].of] = "accepted"
         /\ ReadSoFar(RecipesOf(opdata[arg[p].of]), todo[p])'
<1>1. arg[p].of \in Requests /\ reply[arg[p].of] = "accepted"
  BY DEF PollInv
<1> DEFINE list == RecipesOf(opdata[arg[p].of])
<1>2. list \in Seq(Ids) /\ \A i \in DOMAIN list : list[i] \in DOMAIN recipes
  BY <1>1, ListKnown
<1>3. list' = list
  BY DEF RecipesOf
<1>4. ReadSoFar(list, todo[p])
  BY DEF PollInv
<1>5. todo[p] \in Seq(Ids \cup {Nil})
  BY DEF TypeInv, TypeOK, LocalsTypeOK
<1> HIDE DEF list
<1>6. \A i \in DOMAIN list : Done(list[i]) => recipes'[list[i]].status = "complete"
  BY <1>2 DEF Done
<1>7. Len(todo[p]) \in Nat
  BY <1>5
<1>8. /\ Len(todo'[p]) <= Len(list)
      /\ \A i \in 1 .. Len(todo'[p]) : todo'[p][i] = list[Len(list) - Len(todo'[p]) + i]
      /\ \A i \in 1 .. Len(list) - Len(todo'[p]) : recipes'[list[i]].status = "complete"
  BY <1>2, <1>4, <1>6, <1>7, ReadSoFarStays
<1>9. ReadSoFar(list, todo[p])'
  BY <1>3, <1>8 DEF ReadSoFar, Done
<1> QED
  BY <1>1, <1>9 DEF list

\* Of what the poll of another request relies on, a step of r changes nothing.
LEMMA OthersPoll ==
  ASSUME TypeInv, KnownInv, PollInv, NEW r \in Requests, StepOf(r),
         NEW p \in Requests \ {r}, pc'[p] = "poll"
  PROVE  /\ arg'[p].of \in Requests
         /\ reply'[arg'[p].of] = "accepted"
         /\ ReadSoFar(RecipesOf(opdata[arg[p].of]), todo[p])'
<1>1. pc[p] = "poll"
  BY DEF StepOf
<1>2. arg[p].of \in Requests /\ reply[arg[p].of] = "accepted"
  BY <1>1 DEF PollInv
<1>3. arg[p].of \in Requests \ {r}
  BY <1>2 DEF KnownInv, OpDataInv, StepOf
<1>4. \A x \in DOMAIN recipes : x \in DOMAIN recipes' /\ (Done(x) => recipes'[x].status = "complete")
  BY OlderRecipesStay DEF StepOf, KnownInv, Done
<1> QED
  BY <1>1, <1>3, <1>4, PollStays DEF StepOf

\* A step of r that does not leave it polling.
LEMMA NoLongerPolls ==
  ASSUME TypeInv, KnownInv, PollInv, NEW r \in Requests, StepOf(r), pc'[r] # "poll"
  PROVE  PollInv'
<1>1. ASSUME NEW p \in Requests, pc'[p] = "poll"
      PROVE  /\ arg'[p].of \in Requests
             /\ reply'[arg'[p].of] = "accepted"
             /\ ReadSoFar(RecipesOf(opdata[arg[p].of]), todo[p])'
  BY <1>1, OthersPoll
<1> QED
  BY <1>1 DEF PollInv

\* What a step of r is, as module Operation sees it: r is told nothing about
\* an operation, and perhaps that its own was accepted.
Silent(r) ==
  /\ StepOf(r)
  /\ reply'[r] \in {reply[r]} \cup Ends \cup {"refused"}

LEMMA HandleSteps ==
  ASSUME TypeInv, KnownInv, PollInv, Decodes, NEW r \in Requests, Handle(r), ~Poll(r)
  PROVE  Silent(r) /\ KnownInv' /\ PollInv'
<1>1. UNCHANGED <<arg, todo>>
  BY HandleHandled
<1>2. PICK label \in Calls \cup {"done"}, last \in {reply[r]} \cup Ends :
        Shape(r, label, last) /\ label # "poll"
  BY HandleHandled DEF Handled
<1>3. pc[r] # "done"
  BY DEF Handle, List, Get, Create, GetBackups, Restore, Patch, AddWhitelist, Cleanup,
         Deprovision, Update, Poll
<1>4. KnownInv'
  BY <1>2, <1>3, ShapeKnown
<1>5. pc'[r] = label /\ reply'[r] = last /\ StepOf(r)
  BY <1>1, <1>2, <1>3 DEF Shape, StepOf, TypeInv, TypeOK, LocalsTypeOK
<1> QED
  BY <1>2, <1>4, <1>5, NoLongerPolls DEF Silent

LEMMA CrashSteps ==
  ASSUME TypeInv, KnownInv, PollInv, NEW r \in Requests, Crash(r)
  PROVE  Silent(r) /\ KnownInv' /\ PollInv'
<1>1. Orders(r) /\ pc[r] # "done" /\ UNCHANGED opdata
  BY DEF Crash, Orders, composeVars, Calls
<1>2. pc' = [pc EXCEPT ![r] = "done"] /\ reply' = [reply EXCEPT ![r] = "dropped"]
  BY DEF Crash, Reply, Goto
<1>3. "dropped" \notin Verdicts
  BY DEF Verdicts
<1>4. Shape(r, "done", "dropped")
  BY <1>1, <1>2, <1>3, SameOpData
<1>5. KnownInv'
  BY <1>1, <1>4, ShapeKnown
<1>6. StepOf(r) /\ pc'[r] = "done" /\ reply'[r] = "dropped"
  BY <1>1, <1>2 DEF StepOf, Crash, TypeInv, TypeOK, LocalsTypeOK
<1> QED
  BY <1>5, <1>6, NoLongerPolls DEF Silent, Ends

\* A poll that comes in has the whole list before it.
LEMMA ReceiveSteps ==
  ASSUME TypeInv, KnownInv, PollInv, NEW r \in Requests, Receive(r)
  PROVE  Silent(r) /\ KnownInv' /\ PollInv'
<1>1. Orders(r) /\ pc[r] = "idle" /\ UNCHANGED <<recipes, opdata>> /\ reply[r] = "none"
  BY DEF Receive, Orders, composeVars, KnownInv, OpDataInv
<1>2. \/ Refuse(r)
      \/ \E a, label : Begin(r, a, label) /\ label \in {"create", "list"}
      \/ \E q \in Requests :
           /\ reply[q] = "accepted"
           /\ Begin(r, [NoArg EXCEPT !.op = "LastOperation", !.of = q], "poll")
           /\ todo' = [todo EXCEPT ![r] = RecipesOf(opdata[q])]
  BY DEF Receive, ReceiveProvision, ReceiveDeprovision, ReceiveUpdate, ReceiveLastOperation
<1>3. \A q \in Requests \ {r} : todo'[q] = todo[q]
  BY DEF Receive, ReceiveProvision, ReceiveDeprovision, ReceiveUpdate, ReceiveLastOperation,
         TypeInv, TypeOK, LocalsTypeOK
<1>4. "none" \notin Verdicts /\ "refused" \notin Verdicts
  BY DEF Verdicts
<1>5. CASE Refuse(r)
  <2>1. pc' = [pc EXCEPT ![r] = "done"] /\ reply' = [reply EXCEPT ![r] = "refused"] /\ UNCHANGED arg
    BY <1>5 DEF Refuse, Reply, Goto
  <2>2. Shape(r, "done", "refused")
    BY <1>1, <1>4, <2>1, SameOpData
  <2>3. KnownInv'
    BY <1>1, <2>2, ShapeKnown
  <2>4. StepOf(r) /\ pc'[r] = "done" /\ reply'[r] = "refused"
    BY <1>1, <1>3, <2>1 DEF StepOf, TypeInv, TypeOK, LocalsTypeOK
  <2> QED
    BY <2>3, <2>4, NoLongerPolls DEF Silent
<1>6. ASSUME NEW a, NEW label \in {"create", "list", "poll"}, Begin(r, a, label)
      PROVE  /\ Silent(r) /\ KnownInv' /\ pc'[r] = label
             /\ arg'[r] = a /\ UNCHANGED reply
  <2>1. /\ pc' = [pc EXCEPT ![r] = label] /\ reply' = [reply EXCEPT ![r] = reply[r]]
        /\ arg' = [arg EXCEPT ![r] = a] /\ UNCHANGED reply
    BY <1>6 DEF Begin, Goto, TypeInv, TypeOK, LocalsTypeOK
  <2>2. Shape(r, label, reply[r])
    BY <1>1, <1>4, <2>1, SameOpData
  <2>3. KnownInv'
    BY <1>1, <2>2, ShapeKnown
  <2>4. StepOf(r) /\ pc'[r] = label /\ arg'[r] = a
    BY <1>1, <1>3, <2>1 DEF StepOf, TypeInv, TypeOK, LocalsTypeOK
  <2> QED
    BY <2>1, <2>3, <2>4 DEF Silent
<1>7. ASSUME NEW a, NEW label \in {"create", "list"}, Begin(r, a, label)
      PROVE  Silent(r) /\ KnownInv' /\ PollInv'
  BY <1>6, <1>7, NoLongerPolls DEF Silent
<1>8. ASSUME NEW q \in Requests, reply[q] = "accepted",
             Begin(r, [NoArg EXCEPT !.op = "LastOperation", !.of = q], "poll"),
             todo' = [todo EXCEPT ![r] = RecipesOf(opdata[q])]
      PROVE  Silent(r) /\ KnownInv' /\ PollInv'
  <2>1. /\ Silent(r) /\ KnownInv' /\ UNCHANGED reply
        /\ arg'[r] = [NoArg EXCEPT !.op = "LastOperation", !.of = q]
    BY <1>6, <1>8
  <2>2. arg'[r].of = q
    BY <2>1 DEF NoArg
  <2>3. RecipesOf(opdata[q]) \in Seq(Ids) /\ todo'[r] = RecipesOf(opdata[q])
    BY <1>8, ListKnown DEF TypeInv, TypeOK, LocalsTypeOK
  <2>4. RecipesOf(opdata[arg[r].of])' = todo'[r]
    BY <1>1, <2>2, <2>3 DEF RecipesOf
  <2>5. \A list \in Seq(Ids) :
          /\ Len(list) <= Len(list)
          /\ \A i \in 1 .. Len(list) : list[i] = list[Len(list) - Len(list) + i]
          /\ 1 .. Len(list) - Len(list) = {}
    OBVIOUS
  <2>6. ReadSoFar(RecipesOf(opdata[arg[r].of]), todo[r])'
    BY <2>3, <2>4, <2>5 DEF ReadSoFar
  <2>7. ASSUME NEW p \in Requests, pc'[p] = "poll"
        PROVE  /\ arg'[p].of \in Requests
               /\ reply'[arg'[p].of] = "accepted"
               /\ ReadSoFar(RecipesOf(opdata[arg[p].of]), todo[p])'
    <3>1. CASE p = r
      BY <1>8, <2>1, <2>2, <2>6, <3>1
    <3>2. CASE p # r
      BY <2>1, <2>7, <3>2, OthersPoll DEF Silent
    <3> QED
      BY <3>1, <3>2
  <2> QED
    BY <2>1, <2>7 DEF PollInv
<1> QED
  BY <1>2, <1>5, <1>7, <1>8

\* What is left to read is a part of the list.
LEMMA RestIsIds ==
  ASSUME NEW list \in Seq(Ids), NEW S, NEW rest \in Seq(S), ReadSoFar(list, rest)
  PROVE  rest \in Seq(Ids)
<1>1. Len(list) \in Nat /\ Len(rest) \in Nat /\ Len(rest) <= Len(list)
      /\ DOMAIN list = 1 .. Len(list) /\ rest = [i \in 1 .. Len(rest) |-> rest[i]]
  BY DEF ReadSoFar
<1>2. \A i \in 1 .. Len(rest) : Len(list) - Len(rest) + i \in DOMAIN list
  BY <1>1
<1>3. \A i \in 1 .. Len(rest) : rest[i] \in Ids
  BY <1>2 DEF ReadSoFar
<1> QED
  BY <1>1, <1>3

\* Reading one more recipe that is complete.
LEMMA ReadOneMore ==
  ASSUME NEW list \in Seq(Ids), NEW rest \in Seq(Ids), Len(rest) > 1,
         ReadSoFar(list, rest), Done(rest[1])
  PROVE  ReadSoFar(list, Tail(rest))
<1>1. Len(list) \in Nat /\ Len(rest) \in Nat /\ Len(rest) <= Len(list)
  BY DEF ReadSoFar
<1> DEFINE tail == Tail(rest)
           n == Len(list) - Len(rest)
<1>2. /\ Len(tail) = Len(rest) - 1
      /\ \A i \in 1 .. Len(rest) - 1 : tail[i] = rest[i + 1]
  BY <1>1
<1> HIDE DEF tail
<1>3. n \in Nat /\ Len(list) - Len(tail) = n + 1
  BY <1>1, <1>2
<1>4. \A i \in 1 .. Len(rest) : rest[i] = list[n + i]
  BY DEF ReadSoFar
<1>5. \A i \in 1 .. n : Done(list[i])
  BY DEF ReadSoFar
<1> HIDE DEF n
<1>6. Done(list[n + 1])
  BY <1>1, <1>4
<1>7. \A i \in 1 .. n + 1 : Done(list[i])
  <2>1. \A i \in 1 .. n + 1 : i = n + 1 \/ i \in 1 .. n
    BY <1>3
  <2> QED
    BY <1>5, <1>6, <2>1
<1>8. \A i \in 1 .. Len(rest) - 1 : tail[i] = list[n + 1 + i]
  <2> SUFFICES ASSUME NEW i \in 1 .. Len(rest) - 1
               PROVE  tail[i] = list[n + 1 + i]
    OBVIOUS
  <2>1. i + 1 \in 1 .. Len(rest) /\ n + (i + 1) = n + 1 + i
    BY <1>1, <1>3
  <2> QED
    BY <1>2, <1>4, <2>1
<1>9. ReadSoFar(list, tail)
  BY <1>1, <1>2, <1>3, <1>7, <1>8 DEF ReadSoFar
<1> QED
  BY <1>9 DEF tail

\* A step of LastOperation tells nothing yet, or the outcome of the operation.
LEMMA PollSteps ==
  ASSUME TypeInv, KnownInv, PollInv, Decodes, NEW r \in Requests, Poll(r)
  PROVE  /\ StepOf(r) /\ UNCHANGED <<recipes, opdata, arg>> /\ KnownInv' /\ PollInv'
         /\ arg[r].of \in Requests /\ reply[arg[r].of] = "accepted"
         /\ reply'[r] \in {reply[r], "failed", "dropped", OutcomeOf(opdata[arg[r].of])}
<1> DEFINE q == arg[r].of
           list == RecipesOf(opdata[q])
           rest == todo[r]
           state == State(recipes[Head(rest)].status)
<1>1. pc[r] = "poll" /\ reply[r] = "none" /\ pc[r] \in Calls
  BY DEF Poll, KnownInv, OpDataInv, Calls
<1>2. q \in Requests /\ reply[q] = "accepted" /\ ReadSoFar(list, rest)
  BY <1>1 DEF PollInv
<1>3. list \in Seq(Ids)
  BY <1>2, ListKnown
<1>4. rest \in Seq(Ids \cup {Nil}) /\ rest # <<>>
  BY <1>1 DEF TypeInv, TypeOK, LocalsTypeOK, LoopInv
<1>5. Orders(r) /\ UNCHANGED <<recipes, opdata, arg>> /\ todo' = [todo EXCEPT ![r] = Tail(@)]
  BY DEF Poll, Reads, Orders, composeVars
<1>6. \/ GoesOn(r, state) /\ UNCHANGED <<pc, reply>>
      \/ ~GoesOn(r, state) /\ Reply(r, state)
      \/ \E answer : answer # "again" /\ GiveUp(r, answer)
  <2>1. PICK answer \in AllFaults \cup {"ok", "error"} :
          /\ Reads(r, answer)
          /\ \/ /\ (answer = "ok" /\ Head(rest) \in DOMAIN recipes) \/ answer = "blank"
                /\ IF GoesOn(r, State(Status(Head(rest), answer)))
                     THEN UNCHANGED <<pc, reply>>
                     ELSE Reply(r, State(Status(Head(rest), answer)))
             \/ answer \in {"error", "panic"} /\ GiveUp(r, answer)
    BY DEF Poll
  <2>2. answer # "blank" /\ answer # "again"
    BY <2>1, NotBlank DEF Reads
  <2>3. Status(Head(rest), answer) = recipes[Head(rest)].status
    BY <2>2 DEF Status
  <2> QED
    BY <2>1, <2>2, <2>3
<1> HIDE DEF list
<1>7. rest \in Seq(Ids) /\ Len(rest) >= 1 /\ Head(rest) = rest[1]
  <2>1. rest \in Seq(Ids)
    BY <1>2, <1>3, <1>4, RestIsIds
  <2> HIDE DEF rest
  <2> QED
    BY <1>4, <2>1
<1>8. todo'[r] = Tail(rest) /\ \A p \in Requests \ {r} : todo'[p] = todo[p]
  BY <1>5 DEF TypeInv, TypeOK, LocalsTypeOK
<1>9. state \in Verdicts /\ (state = "op succeeded" <=> Done(Head(rest)))
  BY StateFacts DEF Done
<1>10. (Len(rest) > 1 /\ Done(Head(rest))) <=> GoesOn(r, state)
  BY <1>9 DEF GoesOn
<1>11. CASE GoesOn(r, state) /\ UNCHANGED <<pc, reply>>
  <2>1. StepOf(r)
    BY <1>1, <1>5, <1>8, <1>11 DEF StepOf
  <2>2. KnownInv'
    BY <1>5, <1>11 DEF KnownInv, CountInv, OpDataInv, Orders, Poll, Reads, composeVars
  <2>3. ReadSoFar(list, Tail(rest))
    <3>1. Len(rest) > 1 /\ Done(rest[1])
      BY <1>7, <1>10, <1>11
    <3> HIDE DEF rest
    <3> QED
      BY <1>2, <1>3, <1>7, <3>1, ReadOneMore
  <2>4. list' = list
    BY <1>5 DEF list, RecipesOf
  <2>5. ReadSoFar(list, todo[r])'
    BY <1>5, <1>8, <2>3, <2>4 DEF ReadSoFar, Done
  <2>6. ASSUME NEW p \in Requests, pc'[p] = "poll"
        PROVE  /\ arg'[p].of \in Requests
               /\ reply'[arg'[p].of] = "accepted"
               /\ ReadSoFar(RecipesOf(opdata[arg[p].of]), todo[p])'
    <3>1. CASE p = r
      BY <1>2, <1>5, <1>11, <2>5, <3>1 DEF list
    <3>2. CASE p # r
      BY <2>1, <2>6, <3>2, OthersPoll
    <3> QED
      BY <3>1, <3>2
  <2> QED
    BY <1>2, <1>5, <1>11, <2>1, <2>2, <2>6 DEF PollInv
<1>12. ASSUME NEW last \in {"failed", "dropped", state}, Reply(r, last)
       PROVE  /\ StepOf(r) /\ KnownInv' /\ PollInv' /\ reply'[r] = last
  <2>1. pc' = [pc EXCEPT ![r] = "done"] /\ reply' = [reply EXCEPT ![r] = last]
    BY <1>12 DEF Reply, Goto
  <2>2. last # "accepted"
    BY <1>9 DEF Verdicts
  <2>3. Shape(r, "done", last)
    BY <1>5, <2>1, <2>2, SameOpData
  <2>4. KnownInv'
    BY <1>1, <2>3, ShapeKnown
  <2>5. StepOf(r) /\ pc'[r] = "done" /\ reply'[r] = last
    BY <1>1, <1>5, <1>8, <2>1 DEF StepOf, TypeInv, TypeOK, LocalsTypeOK
  <2> QED
    BY <2>4, <2>5, NoLongerPolls
<1>13. CASE ~GoesOn(r, state) /\ Reply(r, state)
  <2>1. Done(rest[1]) => Len(rest) = 1
    <3>1. Done(rest[1]) => ~(Len(rest) > 1)
      BY <1>7, <1>10, <1>13
    <3> HIDE DEF rest, state
    <3>2. Len(rest) \in Nat
      BY <1>7
    <3>3. \A n \in Nat : n >= 1 /\ ~(n > 1) => n = 1
      OBVIOUS
    <3> QED
      BY <1>7, <3>1, <3>2, <3>3
  <2>2. RecipesOf(opdata[q]) = list
    BY DEF list
  <2> HIDE DEF rest
  <2>3. OutcomeOf(opdata[q]) = State(recipes[rest[1]].status)
    BY <1>2, <1>3, <1>7, <2>1, <2>2, PollOutcome
  <2>4. OutcomeOf(opdata[q]) = State(recipes[todo[r][1]].status)
    BY <2>3 DEF rest
  <2> QED
    BY <1>2, <1>5, <1>7, <1>12, <1>13, <2>4 DEF rest
<1>14. CASE \E answer : answer # "again" /\ GiveUp(r, answer)
  BY <1>2, <1>5, <1>12, <1>14 DEF GiveUp, Failure
<1> QED
  BY <1>6, <1>11, <1>13, <1>14

---------------------------------------------------------------------------
(* The simulation.                                                         *)

\* A recipe in Compose's hands goes on, unless it has come to its end.
Goes ==
  /\ DOMAIN recipes' = DOMAIN recipes
  /\ \A x \in DOMAIN recipes :
       /\ recipes'[x].status \in Statuses
       /\ recipes[x].status \in Finished => recipes'[x].status = recipes[x].status

LEMMA ComposeGoes ==
  ASSUME TypeInv, ComposeStep
  PROVE  Goes /\ UNCHANGED made
<1>1. \A x \in DOMAIN recipes : recipes[x].status \in Statuses
  BY DEF TypeInv, TypeOK, ComposeTypeOK, Recipe
<1>2. ASSUME NEW x \in DOMAIN recipes, Progress(x)
      PROVE  Goes /\ UNCHANGED made
  <2>1. PICK status \in Statuses : recipes' = [recipes EXCEPT ![x].status = status]
    BY <1>2 DEF Progress
  <2>2. recipes[x].status \notin Finished /\ UNCHANGED made
    BY <1>2 DEF Progress
  <2>3. recipes'[x].status = status /\ \A y \in DOMAIN recipes \ {x} : recipes'[y] = recipes[y]
    BY <2>1 DEF TypeInv, TypeOK, ComposeTypeOK, Recipe
  <2>4. DOMAIN recipes' = DOMAIN recipes
    BY <2>1 DEF TypeInv, TypeOK, ComposeTypeOK
  <2> QED
    BY <1>1, <2>2, <2>3, <2>4 DEF Goes
<1>3. ASSUME NEW d \in DOMAIN deployments, TakeBackup(d)
      PROVE  Goes /\ UNCHANGED made
  BY <1>1, <1>3 DEF TakeBackup, Goes
<1> QED
  BY <1>2, <1>3 DEF ComposeStep

LEMMA ComposeKeeps ==
  ASSUME TypeInv, KnownInv, PollInv, Goes, UNCHANGED <<made, locals>>
  PROVE  KnownInv' /\ PollInv'
<1>1. KnownInv'
  BY DEF KnownInv, CountInv, OpDataInv, Goes, locals
<1>2. \A x \in DOMAIN recipes : x \in DOMAIN recipes' /\ (Done(x) => recipes'[x].status = "complete")
  BY DEF Goes, Done, Finished
<1>3. ASSUME NEW p \in Requests, pc'[p] = "poll"
      PROVE  /\ arg'[p].of \in Requests
             /\ reply'[arg'[p].of] = "accepted"
             /\ ReadSoFar(RecipesOf(opdata[arg[p].of]), todo[p])'
  BY <1>2, <1>3, PollStays DEF locals
<1> QED
  BY <1>1, <1>3 DEF PollInv

LEMMA EarlierIndex ==
  ASSUME NEW list \in Seq(Ids), NEW i \in DOMAIN list
  PROVE  \A j \in 1 .. i - 1 : j \in DOMAIN list
OBVIOUS

\* An outcome that is final stays.
LEMMA FinalStays ==
  ASSUME TypeInv, KnownInv, KnownStatuses, Goes, UNCHANGED opdata,
         NEW q \in Requests, reply[q] = "accepted", OutcomeOf(opdata[q]) # "op in progress"
  PROVE  OutcomeOf(opdata[q])' = OutcomeOf(opdata[q])
<1> DEFINE list == RecipesOf(opdata[q])
           status(i) == recipes[list[i]].status
<1>1. list \in Seq(Ids) /\ \A i \in DOMAIN list : list[i] \in DOMAIN recipes
  BY ListKnown
<1>2. list' = list
  BY DEF RecipesOf
<1>3. \A i \in DOMAIN list : status(i) \in Statuses
  BY <1>1 DEF TypeInv, TypeOK, ComposeTypeOK, Recipe
<1>4. \A i \in DOMAIN list : Done(list[i]) => Done(list[i])'
  BY <1>1, <1>2 DEF Goes, Done, Finished
<1>5. CASE \A i \in DOMAIN list : Done(list[i])
  BY <1>2, <1>4, <1>5 DEF OutcomeOf
<1>6. CASE \E i \in DOMAIN list : Decides(opdata[q], i) /\ State(status(i)) = "op failed"
  <2>1. PICK i \in DOMAIN list : Decides(opdata[q], i) /\ State(status(i)) = "op failed"
    BY <1>6
  <2>2. ~Done(list[i]) /\ \A j \in 1 .. i - 1 : Done(list[j])
    BY <2>1 DEF Decides
  <2>3. status(i) = "failed"
    BY <1>3, <2>1, StateFacts
  <2>4. status(i)' = status(i)
    BY <1>1, <1>2, <2>3 DEF Goes, Finished
  <2>5. \A j \in 1 .. i - 1 : j \in DOMAIN list
    BY <1>1, EarlierIndex
  <2>6. Decides(opdata[q], i)'
    BY <1>2, <1>4, <2>2, <2>3, <2>4, <2>5 DEF Decides, Done
  <2>7. OutcomeOf(opdata[q]) = "op failed"
    BY <2>1, <2>2 DEF OutcomeOf
  <2>8. OutcomeOf(opdata[q])' = "op failed"
    BY <1>2, <2>1, <2>3, <2>4, <2>6 DEF OutcomeOf, Done
  <2> QED
    BY <2>7, <2>8
<1> QED
  BY <1>5, <1>6 DEF OutcomeOf

\* A step that tells nothing is the acceptance of an operation, or none.
LEMMA SilentStep ==
  ASSUME TypeInv, KnownInv, NEW r \in Requests, Silent(r)
  PROVE  [Abstract!OpNext]_<<Outcome, Verdict>>
<1>1. reply[r] # "accepted" /\ reply[r] \notin Verdicts
  BY DEF Silent, StepOf, KnownInv, OpDataInv
<1>2. reply'[r] \notin Verdicts
  BY <1>1 DEF Silent, Ends, Verdicts
<1>3. UNCHANGED Verdict
  BY <1>1, <1>2 DEF Verdict, Silent, StepOf
<1>4. \A q \in Requests \ {r} : Outcome'[q] = Outcome[q]
  <2> SUFFICES ASSUME NEW q \in Requests \ {r}, reply[q] = "accepted"
               PROVE  OutcomeOf(opdata[q])' = OutcomeOf(opdata[q])
    BY DEF Outcome, Silent, StepOf
  <2>1. /\ RecipesOf(opdata[q]) \in Seq(Ids)
        /\ \A i \in DOMAIN RecipesOf(opdata[q]) : RecipesOf(opdata[q])[i] \in DOMAIN recipes
    BY ListKnown
  <2>2. \A x \in DOMAIN recipes : recipes'[x] = recipes[x]
    BY OlderRecipesStay DEF Silent, StepOf, KnownInv
  <2>3. opdata'[q] = opdata[q]
    BY DEF Silent, StepOf
  <2> QED
    BY <2>1, <2>2, <2>3, OutcomeSame
<1>5. Outcome[r] = "none" /\ Outcome'[r] \in {"none"} \cup Verdicts
  BY <1>1 DEF Outcome, OutcomeOf, Verdicts
<1>6. /\ Outcome = [q \in Requests |-> Outcome[q]]
      /\ Outcome' = [q \in Requests |-> Outcome'[q]]
  BY DEF Outcome
<1>7. Outcome' = [Outcome EXCEPT ![r] = Outcome'[r]]
  BY <1>4, <1>6
<1>8. CASE Outcome'[r] = "none"
  BY <1>3, <1>5, <1>6, <1>7, <1>8
<1>9. CASE Outcome'[r] \in Verdicts
  <2>1. Abstract!Accept(r)
    BY <1>3, <1>5, <1>7, <1>9 DEF Abstract!Accept, Abstract!States, Verdicts
  <2> QED
    BY <2>1 DEF Abstract!OpNext
<1> QED
  BY <1>5, <1>8, <1>9

\* The step of LastOperation that answers asks for the outcome.
LEMMA PollStep ==
  ASSUME TypeInv, KnownInv, PollInv, Decodes, NEW r \in Requests, Poll(r)
  PROVE  [Abstract!OpNext]_<<Outcome, Verdict>>
<1> DEFINE q == arg[r].of
<1>1. /\ StepOf(r) /\ UNCHANGED <<recipes, opdata, arg>>
      /\ q \in Requests /\ reply[q] = "accepted"
      /\ reply'[r] \in {reply[r], "failed", "dropped", OutcomeOf(opdata[q])}
  BY PollSteps
<1>2. reply[r] = "none" /\ "none" \notin Verdicts /\ OutcomeOf(opdata[q]) \in Verdicts
  BY OutcomeIsState DEF Poll, KnownInv, OpDataInv, Verdicts
<1>3. UNCHANGED Outcome
  <2>1. \A p \in Requests : OutcomeOf(opdata[p])' = OutcomeOf(opdata[p])
    BY <1>1 DEF OutcomeOf, Decides, Done, RecipesOf
  <2>2. \A p \in Requests : reply'[p] = "accepted" <=> reply[p] = "accepted"
    BY <1>1, <1>2 DEF StepOf, Verdicts
  <2> QED
    BY <2>1, <2>2 DEF Outcome
<1>4. Verdict[r] = Abstract!NoVerdict
  BY <1>2 DEF Verdict, Abstract!NoVerdict
<1>5. \A p \in Requests \ {r} : Verdict'[p] = Verdict[p]
  BY <1>1 DEF Verdict, StepOf
<1>6. /\ Verdict = [p \in Requests |-> Verdict[p]]
      /\ Verdict' = [p \in Requests |-> Verdict'[p]]
  BY DEF Verdict
<1>7. CASE reply'[r] \notin Verdicts
  <2>1. Verdict'[r] = Verdict[r]
    BY <1>2, <1>7 DEF Verdict
  <2> QED
    BY <1>3, <1>5, <1>6, <2>1
<1>8. CASE reply'[r] \in Verdicts
  <2>1. reply'[r] = OutcomeOf(opdata[q])
    BY <1>1, <1>2, <1>8 DEF Verdicts
  <2>2. Verdict'[r] = [of |-> q, state |-> Outcome[q]]
    BY <1>1, <1>8, <2>1 DEF Verdict, Outcome
  <2>3. Outcome[q] # "none"
    BY <1>1, <1>2 DEF Outcome, Verdicts
  <2>4. Verdict' = [Verdict EXCEPT ![r] = [of |-> q, state |-> Outcome[q]]]
    BY <1>5, <1>6, <2>2
  <2>5. Abstract!Ask(r, q)
    BY <1>3, <1>4, <2>3, <2>4 DEF Abstract!Ask
  <2> QED
    BY <1>1, <2>5 DEF Abstract!OpNext
<1> QED
  BY <1>7, <1>8

\* Compose working on recipes is operations coming to their ends.
LEMMA WorkStep ==
  ASSUME TypeInv, KnownInv, KnownStatuses, Goes, UNCHANGED locals
  PROVE  [Abstract!OpNext]_<<Outcome, Verdict>>
<1>1. UNCHANGED Verdict
  BY DEF Verdict, locals
<1>2. Outcome' \in [Requests -> Abstract!States \cup {"none"}]
  BY DEF Outcome, OutcomeOf, Abstract!States
<1>3. ASSUME NEW q \in Requests
      PROVE  \/ Outcome'[q] = Outcome[q]
             \/ /\ Outcome[q] = "op in progress"
                /\ Outcome'[q] \in {"op succeeded", "op failed"}
  <2>1. CASE reply[q] # "accepted"
    BY <2>1 DEF Outcome, locals
  <2>2. CASE reply[q] = "accepted"
    <3>1. Outcome[q] = OutcomeOf(opdata[q]) /\ Outcome'[q] = OutcomeOf(opdata[q])'
      BY <2>2 DEF Outcome, locals
    <3>2. OutcomeOf(opdata[q])' \in {"op succeeded", "op failed", "op in progress"}
      BY DEF OutcomeOf
    <3>3. OutcomeOf(opdata[q]) # "op in progress" => OutcomeOf(opdata[q])' = OutcomeOf(opdata[q])
      BY <2>2, FinalStays DEF locals
    <3> QED
      BY <3>1, <3>2, <3>3
  <2> QED
    BY <2>1, <2>2
<1>4. Abstract!Work
  BY <1>1, <1>2, <1>3 DEF Abstract!Work
<1> QED
  BY <1>4 DEF Abstract!OpNext

---------------------------------------------------------------------------

LEMMA InitSimulates == Init => KnownInv /\ PollInv /\ Abstract!OpInit
<1> SUFFICES ASSUME Init PROVE KnownInv /\ PollInv /\ Abstract!OpInit
  OBVIOUS
<1>1. CountInv /\ PollInv
  BY DEF Init, ComposeInit, CountInv, PollInv
<1>2. OpDataInv
  BY DEF Init, ComposeInit, OpDataInv, NoOpData, Verdicts
<1>3. Abstract!OpInit
  BY DEF Init, Abstract!OpInit, Outcome, Verdict, Verdicts, Abstract!NoVerdict
<1> QED
  BY <1>1, <1>2, <1>3 DEF KnownInv

\* Every step keeps the invariant and is a step of module Operation.
LEMMA NextSimulates ==
  ASSUME Decodes, KnownStatuses, TypeInv, KnownInv, PollInv, [Next]_vars
  PROVE  KnownInv' /\ PollInv' /\ [Abstract!OpNext]_<<Outcome, Verdict>>
<1>1. ASSUME NEW r \in Requests, Poll(r)
      PROVE  KnownInv' /\ PollInv' /\ [Abstract!OpNext]_<<Outcome, Verdict>>
  BY <1>1, PollSteps, PollStep
<1>2. ASSUME NEW r \in Requests, Receive(r) \/ (Handle(r) /\ ~Poll(r)) \/ Crash(r)
      PROVE  KnownInv' /\ PollInv' /\ [Abstract!OpNext]_<<Outcome, Verdict>>
  <2>1. Silent(r) /\ KnownInv' /\ PollInv'
    BY <1>2, ReceiveSteps, HandleSteps, CrashSteps
  <2> QED
    BY <2>1, SilentStep
<1>3. CASE ComposeStep /\ UNCHANGED locals
  <2>1. Goes /\ UNCHANGED made
    BY <1>3, ComposeGoes
  <2> QED
    BY <1>3, <2>1, ComposeKeeps, WorkStep
<1>4. CASE UNCHANGED vars
  <2>1. KnownInv' /\ PollInv'
    BY <1>4 DEF vars, composeVars, locals, KnownInv, CountInv, OpDataInv, PollInv, ReadSoFar,
                Done, RecipesOf
  <2>2. UNCHANGED <<Outcome, Verdict>>
    BY <1>4 DEF vars, composeVars, locals, Outcome, OutcomeOf, Decides, Done, RecipesOf, Verdict
  <2> QED
    BY <2>1, <2>2
<1> QED
  BY <1>1, <1>2, <1>3, <1>4 DEF Next, Quiet

\* LastOperation reads the recipes of an operation one call at a time, while
\* Compose works on them and other requests come and go; still it tells the
\* state the operation is in at one moment, and a final state stays.
THEOREM OperationsImplemented ==
  ASSUME Decodes, KnownStatuses
  PROVE  Spec => ImplementsOperation
<1>1. Init => KnownInv /\ PollInv /\ Abstract!OpInit
  BY InitSimulates
<1>2. TypeInv /\ KnownInv /\ PollInv /\ [Next]_vars
        => KnownInv' /\ PollInv' /\ [Abstract!OpNext]_<<Outcome, Verdict>>
  BY NextSimulates
<1>3. BrokerInv => TypeInv
  BY DEF BrokerInv
<1> QED
  BY <1>1, <1>2, <1>3, BrokerInvariant, PTL DEF Spec, ImplementsOperation, Abstract!OpSpec

\* A step of module Operation leaves final verdicts true.
LEMMA FinalVerdicts ==
  ASSUME VerdictInv, [Abstract!OpNext]_<<Outcome, Verdict>>
  PROVE  VerdictInv'
<1> DEFINE Final == {"op succeeded", "op failed"}
           Agrees(p) == Verdict[p].state \in Final =>
                          Verdict[p].of \in Requests /\ Outcome[Verdict[p].of] = Verdict[p].state
<1>1. \A p \in Requests : Agrees(p)
  BY DEF VerdictInv, Verdict, Verdicts
<1>2. /\ Outcome = [q \in Requests |-> Outcome[q]]
      /\ Verdict = [p \in Requests |-> Verdict[p]]
  BY DEF Outcome, Verdict
<1>3. ASSUME NEW p \in Requests
      PROVE  Agrees(p)'
  <2>1. CASE UNCHANGED <<Outcome, Verdict>>
    BY <1>1, <2>1
  <2>2. ASSUME NEW q \in Requests, Abstract!Accept(q)
        PROVE  Agrees(p)'
    BY <1>1, <1>2, <2>2 DEF Abstract!Accept
  <2>3. CASE Abstract!Work
    BY <1>1, <2>3 DEF Abstract!Work
  <2>4. ASSUME NEW a \in Requests, NEW q \in Requests, Abstract!Ask(a, q)
        PROVE  Agrees(p)'
    <3>1. CASE p = a
      BY <1>2, <2>4, <3>1 DEF Abstract!Ask
    <3>2. CASE p # a
      BY <1>1, <1>2, <2>4, <3>2 DEF Abstract!Ask
    <3> QED
      BY <3>1, <3>2
  <2> QED
    BY <2>1, <2>2, <2>3, <2>4 DEF Abstract!OpNext
<1>4. \A p \in Requests : Agrees(p)'
  BY <1>3
<1> QED
  BY <1>4 DEF VerdictInv, Verdict, Verdicts

\* Two polls of one operation never contradict each other for good.
THEOREM PollsAgree ==
  ASSUME Decodes, KnownStatuses
  PROVE  Spec => []VerdictsAgree
<1>1. Init => KnownInv /\ PollInv /\ VerdictInv
  BY InitSimulates DEF Init, VerdictInv
<1>2. TypeInv /\ KnownInv /\ PollInv /\ VerdictInv /\ [Next]_vars
        => KnownInv' /\ PollInv' /\ VerdictInv'
  BY NextSimulates, FinalVerdicts
<1>3. BrokerInv => TypeInv
  BY DEF BrokerInv
<1>4. VerdictInv => VerdictsAgree
  <2> SUFFICES ASSUME VerdictInv, NEW q \in Requests, NEW p1 \in PollsOf(q), NEW p2 \in PollsOf(q),
                      reply[p1] = "op succeeded", reply[p2] = "op failed"
               PROVE  FALSE
    BY DEF VerdictsAgree
  <2>1. p1 \in Requests /\ p2 \in Requests /\ arg[p1].of = q /\ arg[p2].of = q
    BY DEF PollsOf
  <2>2. Outcome[q] = reply[p1] /\ Outcome[q] = reply[p2]
    BY <2>1 DEF VerdictInv
  <2> QED
    BY <2>2
<1> QED
  BY <1>1, <1>2, <1>3, <1>4, BrokerInvariant, PTL DEF Spec
=============================================================================
