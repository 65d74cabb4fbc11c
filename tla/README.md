# A formal model of the Compose broker

paas-compose-broker is a Cloud Foundry service broker, written in Go, that sells
databases hosted by Compose. It takes the Open Service Broker requests of the
platform and turns each one into a few HTTP calls to Compose. It has no
database: everything it knows is in the request or is read back from Compose.

That makes it a small program with a hard environment. Several requests run at
once, in several processes, and share only Compose; every handler is a sequence
of calls any of which can fail, be repeated, or be performed and still answered
with an error; what a call starts finishes later, and the platform asks about it
one poll at a time. This directory models that: what the handlers do between
any two calls, against everything Compose and the network may do meanwhile.

Source paths below are relative to `src/`.

## 1. Inventory

| Component | Code | State it keeps | Operations | Modules |
|---|---|---|---|---|
| Asynchronous operations | `broker/broker.go`, `broker/utils.go`, `broker/parameters.go` | none but a handler's locals | Provision (blank, or from the latest snapshot), Deprovision, Update, LastOperation | `Broker`, `Operation`, `NewestBackup` |
| Bindings | `broker/broker.go`, `dbengine/provider_service.go` | none | Bind, Unbind | `Bindings` |
| MongoDB engine | `dbengine/mongo_engine.go` | users and databases in the instance | GenerateCredentials, RevokeCredentials, GetDatabaseName | `Bindings` |
| Elasticsearch engine | `dbengine/elasticsearch_engine.go` | none | GenerateCredentials, RevokeCredentials (does nothing) | `Bindings` |
| Configuration and start-up | `config/config.go`, `main.go`, `broker.New` | environment, account and cluster, read once per process | New, ParseIPWhitelist, main | `Startup` |
| Catalog | `catalog/catalog.go` | services and plans, read once | Load, GetService, GetPlan | `Broker` (look-ups), `Startup` (Load) |
| Compose client | `vendor/.../gocomposeapi`, `vendor/.../gorequest`, `compose/compose.go` | none shared | one method per call, repetition, SquashErrors | `Broker`, `Compose`, `Startup` |
| Compose (outside the repository) | seen through its client | deployments, recipes, backups, clusters | what the client calls, and its own progress | `Compose` |
| Platform, as the integration tests are one | `integration_tests/helper/helper.go`, `integration_tests/*_test.go` | the course of a test | Provision, Bind, CreateBackup, Unbind, Deprovision, with repetition, polling, time limits, deferred steps | `Lifecycle` |
| HTTP layer | `vendor/.../brokerapi` | none | routing; maps errors to 202, 410, 422, 500 | not modelled |
| Test client, fakes | `client/elastic`, `*/fakes` | | not part of the program | not modelled |

**How they interact.** `main` builds one `Broker` per process out of the
configuration, the catalogue and two calls to Compose; Cloud Foundry runs two
such processes and starts a stopped one again. The HTTP layer runs every request
in a goroutine of its own and calls a handler of `Broker`. A handler calls the
client synchronously, several times; between two calls it holds what the first
returned. A changing call answers with a *recipe*, which Compose works on by
itself. Its identifier (with those of the whitelist recipes) goes back to the
platform as *operation data*, and the platform hands that to LastOperation until
the answer is final. Bind and Unbind look the deployment up in the same way and
then send commands to the database of the instance.

**What is hard**, and what would make each part correct:

* *Asynchronous operations.* Partial failure of a sequence of calls (a
  deployment made and then lost); a POST repeated by the client though it was
  performed; a check on a deployment that is used two calls later; a final
  verdict read from several recipes at different moments; the deferred clean-up
  running when it should not or not when it should. Correct means: accepted
  operation data is complete; success means ready; final verdicts agree; held
  deployments are never lost silently; no space ever gets another space's data
  or another type; "latest" means latest; a request touches nothing it does not
  name; "gone" is true; everybody is answered.
* *Bindings and the MongoDB engine.* The database a binding gets is looked up at
  each Bind and Unbind from whatever databases exist then; a user is made by
  two commands, either of which may be performed and still fail; a repeated
  Bind changes a password, a repeated Unbind fails. Correct means: credentials
  in use work; an unbound user is gone; the bindings of one instance share a
  database; what an earlier failure left behind does not make a request fail.
* *Start-up.* It can fail after any of its steps, and what it read is kept while
  the world goes on. Correct means: a process never serves half-configured, is
  placed where its environment says, finds what an earlier process made, and
  comes to serve at last.
* *The platform.* Requests are sent again after any unexpected answer, waits have
  time limits, and what was made is undone in the end. Correct means: the test
  ends, nothing is left behind, bindings survive repetition, and a restore is
  from the backup that was made for it.
* *Compose client.* The end of the loop of repetitions, the undecodable body,
  the missing response.

## 2. Modules

| Module | Content |
|---|---|
| `Compose` | the platform at the other end: deployments, recipes, backups; what each call does at once and what Compose does in its own time |
| `Broker` | the asynchronous handlers, one action per call; EXTENDS `Compose` |
| `BrokerProperties`, `BrokerProofs` | their properties with the inductive invariant, and the theorems |
| `SafetyProofs` | theorems about what requests leave behind at Compose, and about the choice of a backup |
| `Operation` | the abstract specification of an operation as the platform sees it |
| `BrokerRefinement`, `RefinementProofs` | the mapping under which `Broker` implements `Operation`, and the proof that it does |
| `VerdictProofs` | the theorems that a poll that says "succeeded" and an answer that says "gone" are right; EXTENDS the other modules of proofs about the broker |
| `NewestBackup` | the loop of `newestRestorableBackup`, and what it is to return |
| `Bindings` | Bind and Unbind with the two engines, next to the asynchronous operations; EXTENDS `Broker` |
| `BindingsProperties`, `BindingsProofs` | their properties with the inductive invariants, and the theorems |
| `AccountProofs` | theorems about which users are left, and which requests must succeed; EXTENDS `BindingsProofs` and `VerdictProofs` |
| `Lifecycle` | a platform that drives all of it from the first request to the last; EXTENDS `Bindings` |
| `LifecycleProperties`, `LifecycleProofs` | what that comes to, with the inductive invariants; why the theorems about `Bindings` hold for it, and its own |
| `Startup` | how processes come to serve, and what they keep from their start |
| `StartupProperties`, `StartupProofs` | its properties and theorems |
| `MCBroker`, `MCBindings`, `MCLifecycle`, `MCStartup` | instances for TLC; one `.cfg` per run |

An operator whose comment begins "Seeded fault for" is a variant of the
definition after it, with a plausible mistake in it that the named property
catches. Nothing but that uses it.

### Compose

Compose is not in the repository; the module is modelled from what the broker
and the vendored client rely on and assumes as little as it can.

* `deployments` holds every deployment there has ever been. Of one we keep its
  name (`instance`), its type, `space` (the billing code, which is
  `customer_billing_code` in `Deployment`), whether it is alive, and which
  addresses it admits. `data` and `from` are not fields of Compose's: they say
  whose data is in it and from which backup it came, for the properties to
  speak of.
* `recipes` holds every recipe: what it does, on which deployment, its status.
  It starts in "waiting", which it does not come back to, moves among the other
  statuses freely, and ends as "complete" or "failed". Its
  effect and its completion are one step. A recipe completes only while its
  deployment is alive.
* `backups` is the sequence of the backups ever taken, so a position in it is
  the date and no two dates are equal. `newestRestorableBackup`
  keeps the first of equals, which no property could tell apart.
* `made` counts what was made for each request, which names it: `<<r, n>>`.
  Identifiers are opaque in the code; this one makes them fresh.

The bound `MaxBackups` is the only one in the module.

### Broker

Each request `r` is a process. `pc[r]` is the call it makes next, and an action is
**that call and all the code up to the next one**: the interleaving of the calls
of concurrent requests, with each other and with Compose, is exactly what can be
observed of goroutines that share nothing else. It makes no difference in
which of the broker's processes a request runs.

| Action | Code |
|---|---|
| `Receive*` | the handler up to its first call: `asyncAllowed`, catalogue lookups, parameters |
| `List`, `Get` | `findDeployment`: `GetDeploymentByName`, which is a list and a GET, followed by the checks of the handler that called it |
| `Create` | `createDeployment` |
| `GetBackups`, `Restore`, `Patch` | `createDeploymentFromLatestSnapshot` after its checks |
| `AddWhitelist` | one round of Provision's whitelist loop |
| `Cleanup` | Provision's deferred function |
| `Deprovision`, `Update` | the last call of those handlers |
| `Poll` | one recipe of LastOperation's loop |
| `Crash` | the process is killed; nothing deferred runs |

The locals of a handler are functions of the request: `found` (what
findDeployment returned), `dep` (the variable `deployment` of Provision), `snap`,
`opdata`, `todo` (the recipes LastOperation still has to read), `tries`.
`logged` says whether "failed-deprovision" was logged and `began` is a history
variable, both only for properties to speak of.

**How a call ends** (`Answers`, `Exchange`). The vendored client takes any
undesired status for an error; repeats every request, POST included, after 408, 429,
502, 503 and 504; ignores errors of decoding; and dereferences a nil response when there
is none. So a call answers

* "ok": the wanted status and body;
* "error": an undesired status, given up at once or after all repetitions;
* "again": a status after which the client calls again;
* "blank": the wanted status, but nothing decoded;
* "panic": no response, and a nil dereference. Deferred functions run, and
  net/http closes the connection.

A changing call that did not answer "ok" or "blank" may have been performed or
not. A call that reads is not repeated in the model: the repetition changes
nothing, and only the moment of its last answer matters, which is free.
"crash" is not an answer: `Crash` may take any request at any call.

A run chooses which of these it explores with the constant `Faults`, and how often a
call is repeated with `Retries`. The client repeats five times; the theorems hold
for every number.

**What the platform gets** (`reply`): "accepted" (202), "refused" (an error before
any call), "gone" (410, `ErrInstanceDoesNotExist`), "failed" (500), "dropped" (a
closed connection), or a state of LastOperation.

**Left out.** Units (copied from the catalogue), the datacentre or cluster,
wording of errors and logs (findDeployment's comparison of an error's text is
modelled by what it decides), and the notes of the deployment. The prefix of a
deployment's name and the cluster it goes to are in `Startup`.

### Operation and BrokerRefinement

`Operation` has two variables: the `outcome` of every operation that was
accepted, and the `verdict` each poll was given. An outcome is in progress until
it succeeds or fails, and then never changes; asking (`Ask`) takes one step and
gives the outcome there is. `BrokerRefinement` maps the broker onto it: the outcome
of operation data is decided by the first of its recipes that is not complete
(`OutcomeOf`), and a verdict is the reply of a LastOperation. That LastOperation
reads several recipes at several moments and still answers as if it had read
them all at the last of these moments is what the refinement says; it holds
because a completed recipe stays so, and it would not if a poll went past a
recipe in progress.

### NewestBackup

The loop over the list, as a recursive function of the number of rounds with the
index it keeps as a pointer, and what it is to return for every list, in any
order and with equal dates. `Broker` has only what it returns
(`IsNewestRestorable`), on a sequence in which a position is a date.
`ChoosesNewest` ties the two together: whenever a request is about to call
GetBackups, the loop would choose what `GetBackups` takes, in whatever order
Compose lists the backups.

### Bindings

A binder `b` is one Bind or Unbind; `at[b]` is the call or command it makes next.

| Action | Code |
|---|---|
| `ReceiveBinder` | the platform sends a Bind or an Unbind |
| `ListForBinder`, `GetForBinder` | `findDeployment`, then `GetDBEngine` and what the engines do before they touch the database; all of the Elasticsearch engine |
| `Lookup` | dialling, `listDatabases`, `GetDatabaseName` |
| `UpdateUser`, `CreateUser` | `UpsertUser`: the two commands of mgo |
| `RemoveUser` | `RemoveUser` of mgo |
| `CrashBinder` | the process is killed |
| `Write`, `Drop` | an application fills or empties its database: MongoDB lists only databases with something in them |
| `BrokerStep` | any step of `Broker`: instances are provisioned and deprovisioned meanwhile |

`databases` and `accounts` are the databases each deployment lists and its
users; an account carries, for its password, the Bind that made it. `holder`,
`forgotten` and `spoiled` are history: the Bind whose credentials the
application has, the Unbind after which the platform forgot the binding, and
whether any call of the request failed. A command ends well, fails without
effect, or fails after it was performed.

`Contents` is what a deployment may come with; `Droppable` the databases
applications may empty; `Serial` says whether the platform keeps to one request at a time for
a binding and one Bind per binding in use, as Cloud Foundry does.

Left out: how credentials are written as a URI, TLS, the entropy of passwords (they
are distinct), and mgo's commands for MongoDB before 2.6.

### Lifecycle

The platform of the integration tests. `Script` is the list of steps of a test;
`left` what is to come, `deferred` what `defer` has registered (undone in
reverse order whatever happens), `phase` where the helper is in the current step.

| Action | Code |
|---|---|
| `TakeStep` | the next `By`, or the next deferred one |
| `SendRequest`, `SendBinder`, `ReadAnswer` | `DoRequest`: the same request again until the status is the expected one |
| `SendPoll`, `ReadPoll` | `PollForOperationCompletion` |
| `Check` | what `Provision` looks up in the end |
| `FindBackup`, `StartBackup`, `AwaitBackup` | the three loops of `CreateBackup` |
| `TimeOut` | the time of an `Eventually` is over: the expectation fails |

There is no clock: an `Eventually` that has tried once may time out at any moment, so
every number of tries up to the number of requests of the run is explored. An
answer "dropped" is a panic of the handler, which the tests call directly, so that
it fails the test. `mark` is the backup that `CreateBackup` made, for properties.

Left out: what tests do inside databases, `NewService`, and requests of other
tests at the same time.

### Startup

`stage[p]` is what `main` does next in process `p`.

| Action | Code |
|---|---|
| `Configure` | `config.New`, with the whitelist's syntax |
| `Load` | opening, decoding and closing the catalogue |
| `GetAccount`, `GetClusterByName` | `broker.New` |
| `Listen` | `ListenAndServe` |
| `Provision`, `Deprovision` | the name, account and cluster a deployment is made with, and looked for by; one step each, as `Broker` has the rest |
| `Restart`, `Kill` | Cloud Foundry |
| `StartApplication`, `ChangeClusters` | operators set other variables and restart; clusters come and go |

`conf`, `account` and `clusterID` are what the process keeps until it stops. `made` remembers
the environment each deployment was made under, and `forgotten` the one under
which the platform was told it is gone.

## 3. Runs

Times are for two workers.

| Run | Instance | Shows |
|---|---|---|
| `provision` | one blank Provision with two addresses, two polls, errors, panics, crashes, one repetition; 463,000 states, 85 s | `AcceptedCoversWhitelist`, `SucceededMeansDone`, `NoSilentLeak`, `VerdictsAgree`, `ImplementsOperation` |
| `restore` | two requests that provision, restore or deprovision in two spaces and types, one older instance, two backups, undecodable answers; 2.1 million states, 95 s | `TypeOK`, `OnlyOwnData`, `OnlyWantedType`, `FreshSnapshot`, `TouchesOnlyNamed`, `ChoosesNewest` |
| `retire` | two requests that deprovision or update, one poll, a status the table lacks, repetition, panic and crash; 415,000 states, 25 s | `SucceededMeansDone`, `GoneMeansGone`, `TouchesOnlyNamed` |
| `answered` | one request of any kind and one poll, one address, all faults, fair scheduling; 455,000 states, 90 s | `AcceptedCoversWhitelist`, `NoSilentLeak`, `EveryRequestAnswered` |
| `bind` | three Binds or Unbinds for two bindings of a MongoDB instance that came with "admin", and "default" or "db_1" or neither; errors and crashes; one deprovisioning; 367,000 states, 35 s | `CredentialsWork`, `Revoked`, `RequestsSucceed`, `SameDatabase` |
| `engines` | two binders, one instance of each engine and one of a type without an engine, undecodable bodies and panics; 869,000 states, 60 s | `BindTypeOK`, `RequestsSucceed` |
| `restored` | Provision, CreateBackup, restoring Provision; five requests, or four and up to two backups, panics; 874,000 states, 130 s | `NothingLeftBehind`, `RestoredHasBackup` |
| `ends` | Provision and then Bind (the steps of `elastic_search_test.go` up to its backup, all of `whitelist_test.go`) or CreateBackup; three requests, two binders, one backup, panics, fairness; 71,000 states, 20 s | `LifeTypeOK`, `BindingUsable`, `ScriptEnds` |
| `startup` | two processes, five environments, two clusters, two changes, one instance, fairness; 167,000 states, 150 s | `StartTypeOK`, `PlacedAsConfigured`, `NothingOrphaned`, `ComesUp` |
| `leak`, `moved`, `repeated` | violations, see section 4 | `ErrorsDeprovision`, `SameDatabase`, `DeprovisionRemoves` do not hold |

What the properties say, one by one, is in the `...Properties` modules.

**Why the bounds are enough to be interesting.** Two addresses are the least with
which the loop can stop halfway, repeat the second round, or get the order
wrong. One repetition is enough to make anything twice. Two changing requests
are enough for one to pull a deployment from under the other between any two of
its calls, for a chain of restores (the first restores from the older instance,
the second from the first), and for two deployments of one name. Two backups,
each restorable or not and each taken at any moment and of any live
deployment, are enough for the wrong choice. Two polls are enough to disagree.
Three binders are enough for a Bind that fails half-way, another one, and its
Unbind, and for a Bind of the other binding in between. In `restored`, four
requests are two Provisions and a poll of each, or a Provision and a
Deprovision with theirs, or one of these repeated; the fifth, which only a test
without a backup has (`FewRequests`, a constraint of the cfg), lets one repeat the
PUT that Compose had performed and deprovision nevertheless, so that of two
deployments of one name one is left; the three of `ends` are enough to come to
Bind or CreateBackup, to fail before it or in it, and to be without a request when
there is still something to undo. Two changes of the environment or the
clusters are enough to go away and come back.

**What the runs leave out, and why.**

* `retire` leaves out undecodable bodies: an undecodable list is, to the client,
  an empty one, and a live instance is then reported gone. The model has the step
  (`List`, "blank"); the property does not hold with it. No doc claims otherwise,
  so it is a hazard and not a finding. `bind` leaves them out for the same
  reason (`Revoked`).
* `provision` has no undecodable bodies and only statuses of the broker's table,
  as otherwise one poll says "failed" for a recipe that completes later. The test
  suite asks for that verdict.
* `GoneMeansGone`, `Revoked` and `RequestsSucceed` say nothing of a name that two
  deployments were made with (`Single`). A handler that looks for it finds either,
  and may answer for both; how there come to be two is the finding of run
  `repeated`. `NothingLeftBehind` and `RestoredHasBackup` do speak of it: of two, one
  may be left behind, but only if another was removed; and a restore may be from
  the other deployment's backup, but not from an older one of the same.
* `restore` has no addresses, so that Provision's clean-up does not run in it; that
  the clean-up touches nothing it should not is proved (`OnlyNamedTouched`). In
  `ends`, Bind is the last step of its script; that a binding stays usable while other
  steps go on is proved (`BindingsUsable`).
* In `startup` each name of a cluster has one identifier. Where a process goes on
  with that of a cluster that is gone, `PlacedAsConfigured` sees nothing wrong; what
  Compose does then is not in the repository.
* `NothingOrphaned` excepts a changed prefix and a changed account: the code does
  nothing against these, and it says that nothing else orphans an instance.

**Symmetry.** Requests, binders and bindings are permuted where they are
interchangeable and no liveness is checked; in `provision` these are the two
polls, and `ImplementsOperation`, an action property, does not tell them apart.

**Deadlock** is checked in every run but those of `Lifecycle`. There the whole
system really comes to rest: the test is over and all its requests are used. In
the others a request in the middle of a handler can always go on, and when
all are answered `Quiet` lets the behaviour stutter.

**Fairness.**

* `FairSpec`, run `answered`: weak fairness of `Handle(r)` for each request. The
  Go scheduler runs every goroutine, and every call ends in an answer, an error
  or a broken connection. Nothing is assumed about Compose's own progress, nor
  that calls succeed, nor that a request ever comes in.
* `FairLifeSpec`, run `ends`: weak fairness of `Test` (the test's goroutine runs
  on; `Eventually` stops trying when its time is over, `TimeOut`) and of
  `Handling` (the handler it called runs on). Nothing about Compose: a test
  ends although no recipe ever completes.
* `FairStartSpec`, run `startup`: weak fairness of a process's own steps and of
  `Restart` (Cloud Foundry starts crashed processes again), and strong fairness
  of the success of `GetAccount`, `GetClusterByName` and `Listen`: a call that
  is made again and again succeeds at last. Without that no start need ever
  end well. `ComesUp` asks besides that the environment is right for ever from
  some moment on.

## 4. Findings

`leak`. A restore makes the deployment (`RestoreBackup`, broker.go:485) and
then writes its billing code (`PatchDeployment`, broker.go:495). When that
fails, `createDeploymentFromLatestSnapshot` returns an error and no deployment;
the deferred function that deprovisions (broker.go:155) has not been
installed. The deployment stays, without billing code, under the name of an
instance the platform was told does not exist, and nothing is logged. The tests say of
the clean-up that it "would happen in an error situation" (api_test.go:279).
`NoSilentLeak`, the weaker property that holds, is about deployments Provision
itself holds.

`moved`. `GetDatabaseName` (mongo_engine.go:195) looks for a database named
"default" or "db_*" each time. On a deployment that came with "db_1", an application
that drops its last collection makes the database disappear from the list, and
the next Bind is given "default". The integration test says that "each binding
returns same database name" (mongodb_test.go:164) and drops a collection
(mongodb_test.go:247), on deployments where the only name is "default" and the
fall-back hides it.

`repeated`. A PUT that failed after Compose had performed it, sent again as the
helper's `DoRequest` does, makes a second deployment of the same name, since
Provision does not look for one (broker.go:119). Deprovision then removes one of
the two and succeeds (mongodb_test.go:50, "deprovisioning the service").

## 5. Proofs

For all values of the constants that satisfy the assumptions named in the
modules (any number of requests, instances, spaces, addresses, repetitions,
backups, older deployments, bindings, databases, processes and environments; any
catalogue and statuses; all faults):

| Module | Theorem | States |
|---|---|---|
| `BrokerProofs` | `TypeCorrect` | `Spec => []TypeOK` |
| | `DataStaysInSpace` | `Spec => []OnlyOwnData` |
| | `TypeIsWanted` | `Spec => []OnlyWantedType` |
| `SafetyProofs` | `WhitelistCovered` | `Spec => []AcceptedCoversWhitelist` |
| | `NothingLeaksSilently` | `Spec => []NoSilentLeak` |
| | `OnlyNamedTouched` | `Spec => []TouchesOnlyNamed` |
| | `SnapshotIsFresh` | `Spec => []FreshSnapshot` |
| | `LoopIsRight` | `newestRestorableBackup` returns what it is to, for every list |
| | `NewestIsChosen` | `Spec => []ChoosesNewest` |
| `RefinementProofs` | `OperationsImplemented` | `Spec => ImplementsOperation`, given `Decodes` and `KnownStatuses` |
| | `PollsAgree` | `Spec => []VerdictsAgree`, given the same |
| `VerdictProofs` | `SuccessIsDone` | `Spec => []SucceededMeansDone`, given `Decodes` |
| | `GoneIsGone` | `Spec => []GoneMeansGone`, given `Decodes` |
| `BindingsProofs` | `BindingsLeaveBroker` | `BindSpec => Spec` |
| | `BindTypesCorrect` | `BindSpec => []BindTypeOK` |
| | `BindingsShareDatabase` | `BindSpec => []SameDatabase`, given `OneHome` |
| | `CredentialsKeepWorking` | `BindSpec => []CredentialsWork`, given `Serial` |
| `AccountProofs` | `UnboundIsRevoked` | `BindSpec => []Revoked`, given `Serial`, `OneHome` and `Decodes` |
| | `UnhitRequestsSucceed` | `BindSpec => []RequestsSucceed`, given `Serial` and `OneHome` |
| `LifecycleProofs` | `LifecycleUsesBindings` | `LifeSpec => BindSpec` |
| | `LifeTypesCorrect` | `LifeSpec => []LifeTypeOK` |
| | `NothingIsLeftBehind` | `LifeSpec => []NothingLeftBehind`, given `Decodes` |
| | `RestoresWhatWasBackedUp` | `LifeSpec => []RestoredHasBackup`, given `BackupsFirst` |
| | `BindingsUsable` | `LifeSpec => []BindingUsable`, given `Serial` |
| `StartupProofs` | `StartTypesCorrect` | `StartSpec => []StartTypeOK` |
| | `DeploymentsPlaced` | `StartSpec => []PlacedAsConfigured` |
| | `OrphansOnlyByChange` | `StartSpec => []NothingOrphaned` |

The theorems compose: by `LifecycleUsesBindings` and `BindingsLeaveBroker`, what is proved of
`Spec` and `BindSpec` holds of `LifeSpec`.

**Assumptions.** Those of `Compose` and `Broker` (`ExistingAssumption`,
`NilAssumption`, `StatusAssumption`, `BoundAssumption`, `CatalogAssumption`,
`WhitelistAssumption`, `InputAssumption`, `RetryAssumption`), of `Bindings`
(`BindingAssumption`, `DatabaseAssumption`), of `Lifecycle` (`ScriptAssumption`, and
`OutAssumption`, that a request is not also a binder) and of
`Startup` (`EnvironmentAssumption`, `PrefixAssumption`, `ClusterAssumption`,
`ChangeAssumption`, `ConfigAssumption`). TLC evaluates them in every run of
the modules. One of them carries weight: `ExistingAssumption`, with
`ComposeInit`, says that the billing code of every older deployment is the space
whose data it holds. The conditions of single theorems are operators and stand in their
statements:

* `Decodes`, `KnownStatuses`: bodies decode and every status is in the broker's
  table. Without them a poll may say "failed" of what goes on, and a live
  instance is reported gone (section 3).
* `OneHome`: a deployment comes with at most one database that a binding may be in, and
  only the default one is ever dropped. Run `moved` shows what it is for.
* `Serial`: the platform asks one thing at a time for a binding. Two
  Binds of one binding at once overwrite each other's passwords, and a Bind that
  is still under way makes its user after the Unbind has found none.
* `BackupsFirst`: no script backs an instance up after it has restored it. The
  test of restoring does the two in this order, and what the earlier restore holds
  cannot be as new as the later backup.

The constants of each run satisfy the conditions of the theorems about the
properties it checks.

**The inductive invariants.**

`BrokerInv`, for the first three, in two layers.

* `TypeInv` = `TypeOK` with what types alone do not give. `Whitelist[Len(ids)+1]`
  is an address only if the loop has a round left (`LoopInv`), a plan has a type
  only if it is offered (`ArgsInv`), and a completed whitelist recipe admits an
  address only if it has one (`RecipeInv`).
* `DataInv`. `OnlyOwnData` is not inductive: Restore copies the data of a source
  that was checked two calls before, and the check compared *billing codes*, not
  data. `SpaceInv` says that a billing code, once there, names the space of the
  data; `SourceInv` carries the checked source from the check to the restore
  while other requests run; `OwnInv` says the same of everything the request
  made; and `TargetInv`, that Provision patches nothing but its own
  deployment, keeps `SpaceInv`.

The argument is one lemma per action: `...Types` for the first layer and
`...Data` for the second, on top of lemmas about what Compose's steps preserve
(`NewDeploymentTypes`, `ComposeStepTypes`, `NewDeploymentData`, `OtherFields`).
`InitData`/`InitTypes` and `NextTypes`/`NextData` are combined in
`BrokerInvariant`.

`SafeInv`, for the theorems of `SafetyProofs`, on top of `BrokerInv`; each part
carries something from one call to a later one.

* `ReferInv`: recipes and backups are of deployments there are, and a new
  identifier is new. `Grows`, that Compose forgets nothing it has made and
  renames nothing, then lets other requests run in between.
* `CourseInv`: how far a request is. What Provision holds exists, and
  there is no answer before the last call.
* `FoundInv`: what was found by name still has that name when it is restored from,
  scaled or deprovisioned, and the backup chosen is still as recent as any
  that there was when the request came in. `MadeInv` says the same of what was
  made of it, including by a repetition that the broker knows nothing of.
* `CoverInv`: after `i` rounds of the loop the operation data lists the recipes
  of the first `i` addresses, in order.
* `TouchInv` and `LeakInv` are the properties, request by request.

`KnownInv`, `PollInv` and `VerdictInv`, for the refinement. Identifiers handed out
are fresh (`CountInv`) and operation data names recipes that there are
(`OpDataInv`), so that nothing but Compose's progress changes an outcome. `PollInv`
is the heart: what a poll has read so far is complete *still*, so that the
recipe it reads last decides the outcome at that moment.

`SuccessIsDone` adds `EffectInv` (a complete recipe has had its effect, which
nothing takes back: an address stays admitted and a deployment stays gone),
`RetireInv` (an accepted Deprovision names a recipe that deprovisions what it
found) and `SuccessInv` (all recipes of what a poll called a success are
complete). With `SafeInv`, which says what the recipes of a Provision are for, that
is the property. It is proved under `Decodes`, by which operation data
names recipes that there are (an undecodable answer has an empty identifier),
but not under `KnownStatuses`.

`WorkInv` with `BindTypeOK` for the types of bindings; `HomeInv` for
`SameDatabase`: whatever database was looked up, whenever it was, is the only
one that would be looked up now, which writing and dropping preserve only under
`OneHome`; `SerialInv` and `HolderInv` for `CredentialsWork`: nobody works on a
binding in use, so its user is touched by nobody.

`StartInv`, for start-up: what a process knows is what the present environment
says (`KnowsInv`), which a restart of the application keeps because it stops all
processes first; and a deployment is called after its instance
(`NamesInv`), so that only a changed prefix or account hides it.

`GoneInv`, for `GoneMeansGone`: the older deployments are still on record under
their names, and a handler that gets a deployment has found one. With `FoundInv` what
it found has the name it looked for, so where that name is `Single` it is the
deployment in question: when it is not there at the second call it is gone, and
nothing comes back to life.

For `Revoked` and `RequestsSucceed`, on top of `HomeInv` and `SerialInv`:

* `AimInv`: what a binder works on is a deployment of its instance, and when it is
  about to create a user that user is not there. The second is what `Serial` is for:
  between the two commands of `UpsertUser` nobody else makes it.
* `UserInv`: only MongoDB deployments have users.
* `HeldInv`: the Bind whose credentials are in use, and the one whose credentials
  an Unbind is to revoke, have their user still. It carries that from the answer to
  the Bind to the last call of the Unbind, through other bindings' requests.
* `CleanInv` and `DoneInv` are the properties, with what a request in the middle of
  its calls needs: nobody binds what is forgotten, and who did not fail got as far
  as a deployment.

For `NothingLeftBehind`: `MakerInv` (only a Provision makes deployments), `PhaseInv`
and `SentInv` (every request was sent for a step the test has begun, so that a deployment
means a Provision in `passed` or `failed`, or the present one), and `UndoneInv` (what
passed will be undone, is being undone, or has been, and then a deployment of that
name is gone; that is `SucceededMeansDone` at the end of the test).

For `RestoredHasBackup`: `MarkInv` says that the backup of `CreateBackup` was there
when any restore from its instance came in, and `FreshSnapshot` does the
rest. It is preserved only because no restore runs while that backup is made
(`RunInv`), and that only because scripts are in order (`OrderInv`) and a
test that fails in `CreateBackup` goes on with nothing but what it deferred.

For `BindingUsable`: `SoleInv` (one binder works at a time, the one the test waits for)
and `InUseInv` (a binding that Bind returned has a holder until its Unbind is begun);
the rest is `HolderInv`.

**Induction over data.** `LoopIsRight` is about a loop over a list of any length. The
library's induction theorems take the property as an operator, which the provers
cannot instantiate. The proof goes another way: `LeastNat`, that a set of numbers
has a least element, follows from facts of the library that have no such
parameter (the subset ordering of finite sets is well-founded), and then the
least length for which the loop is not defined, or not right, is contradicted.

**What proving found in the models.** `Elastic` was once a CASE whose
guards overlapped: TLC takes the first that is true, but by the meaning of CASE an
Unbind could have been told "created", and the proof of `RequestsSucceed` failed on
it. It is a disjunction now. `GoneMeansGone`,
`Revoked` and `RequestsSucceed` once did not say `Single`, and held in their runs
because these had one deployment of a name; their proofs failed where a handler
finds the other deployment. The step of a script that binds was not tied to the
instance of the binding (`Step`).

**Only model-checked.** `EveryRequestAnswered`, `ScriptEnds` and `ComesUp` are
liveness under fairness, which is out of the prover's reach. Every invariant and
action property of the passing runs is stated by a theorem.

## 6. Not modelled, and the plan

Not modelled: the HTTP layer's routing and JSON (`vendor/.../brokerapi`), of
which the other modules take over which answers there are; generated fakes
(`compose/fakes`, `dbengine/fakes`); the Elasticsearch test client
(`client/elastic`), two stateless GETs; what `Services` shows of the
catalogue; units and datacentres; how credentials become URIs and hostnames are
mended, except where that panics; other vendored code. They are pure I/O or
formatting, or not part of the program.

Left in the plan: an abstract specification of a binding (unbound, bound,
forgotten) that `Bindings` is shown to implement; several tests at once, or a
platform with orphan mitigation.
