# SafeConfig: a TLA+ development

SafeConfig rolls out runtime configuration in stages. A *control plane* owns
tenants, config definitions, immutable versions, a stable version per
environment, agent identities and rollouts; a *data plane* serves each agent the
snapshot meant for it; a local *agent* caches that snapshot, hands it to the
application and acknowledges it. This directory holds TLA+ modules for the part
that decides what runs where, the TLC runs that check them, and TLAPS proofs.

## 1. Inventory

| Component | Source | State | Operations | Interacts with |
|---|---|---|---|---|
| Rollout engine | `internal/rollout` | rollouts, stage plan, target rows, revision sequence | `CreateRollout`, `Acknowledge`, `ReconcileActive` | calls the config registry, the agent registry, guardrails, the store |
| Guardrails | `internal/guardrail` | none (failure counters live in the rollout) | `Evaluate`, `Unknown`, `AggregateStatus`, Prometheus query | called by the engine |
| Store | `internal/storage/postgres`, `migrations`, the memory stores | the tables | single SQL statements; transactions only inside one store call | shared by every replica and by the data plane |
| Control-plane API | `internal/controlplane`, `cmd/control-plane` | none; one reconcile ticker | HTTP endpoints, `startRolloutReconciler` | calls the services from many goroutines |
| Config registry | `internal/configregistry`, `internal/domain` | tenants, definitions, versions, environment state | `CreateTenant`, `CreateDefinition`, `CreateVersion`, `SetStableVersion` | called by operators and by `promote` |
| Agent registry | `internal/agentregistry` | agents, credentials, acknowledgements | `Register`, `Verify`, `Heartbeat`, `Acknowledge` | its agents are the cohorts' members |
| Effective version | `internal/rollout/effective.go` | none | `EffectiveVersionForAgent` | called by the data plane |
| Data plane | `internal/dataplane`, `cmd/data-plane` | none | `GetSnapshot` | reads the store while the engine writes it |
| Agent | `internal/agent`, `cmd/agent` | snapshot in memory, three files, ETag, credential | `SyncOnce`, `Cache.Save`, `Cache.Load` | polls the data plane, acknowledges to the control plane |
| Config as code | `internal/configcode`, `cmd/cfgctl` | none | `ApplyDocuments` | a sequence of API calls |
| Simulator, reliability harness, health, runtime, logging, deployment, demo service | | | | drivers and plumbing |

What is hard here:

* **Interleaving.** Requests, acknowledgements and the reconcile ticker work on
  the same rollout. `Service.mu` makes a handler atomic within one process and
  says nothing about other replicas, operators or the data plane.
* **Several writes per handler.** `promote`, `activateRollbackVerification` and
  `CreateRollout` each issue several independent statements. A crash, or a
  failing statement, leaves a prefix of them.
* **Messages.** Acknowledgements may be late, repeated, or about a stage,
  version or revision that is no longer asked for.
* **Time.** A minimum duration and a deployment timeout per stage, a maximum
  duration per rollout and a rollback timeout race the acknowledgements.
* **Missing telemetry** must never pass for success, nor block for ever.

What makes each component correct:

* *engine*: stages are passed in order and only with coverage; a cohort is frozen
  once activated and contains the cohort before it; one unfinished rollout per
  config; a rollback leaves the stable version alone and reports honestly whether
  agents confirmed it; every rollout ends;
* *guardrails*: a rule at its threshold stops the rollout, unknown never promotes;
* *store*: handlers cut short never lose what was counted or promised;
* *registry*: version numbers are dense and versions immutable;
* *agent registry*: only a live credential acts for an agent;
* *data plane*: an agent sees the version its stage assigns, never a mixture;
* *agent*: what it acknowledges it has durably, and a restart finds the last good
  snapshot; *config as code*: a rerun after a failure converges.

`PROJECT.json` lists the hazards line by line with the properties aimed at them.

## 2. Modules

| Module | Models |
|---|---|
| `Guardrail` | what one telemetry sample does to a rule's failure counter and status, and how statuses combine |
| `RolloutService` | the engine, one action per handler |
| `RolloutLifecycle` | the abstract promise: one stage at a time, then done (published) or withdrawn (stable untouched) |
| `RolloutWrites` | the same engine over Postgres, one step per store write, with crashes and replicas |
| `SnapshotDelivery` | `RolloutWrites` composed with the data plane, read by read, and with agents that poll and acknowledge over a lossy network |
| `Agent` | one agent process: start, registration, `SyncOnce`, `Save` file operation by file operation, stops, credential expiry |
| `ConfigRegistry` | tenants, definitions, versions and stable versions behind the API |
| `ConfigApply` | `cfgctl apply` processes over `ConfigRegistry`, with operators, lost and late requests and reruns |
| `MCRolloutService`, `MCRolloutWrites`, `MCSnapshotDelivery`, `MCConfigApply` | constants for TLC (`Agent` needs none) |
| `RolloutServiceProofs` | lemmas on the operators, what one visit to a rollout does, type correctness |
| `RolloutSafetyProofs` | the safety theorems of the engine: stages, cohorts, revisions |
| `RolloutCohortProofs`, `RolloutOutcomeProofs` | nested cohorts; guardrails, rollback status and the refinement of `RolloutLifecycle` |
| `RolloutWritesProofs` | what holds between the statements of a handler and after a crash |
| `SnapshotDeliveryProofs` | what agents are given, and what a counted acknowledgement means |
| `AgentProofs`, `ConfigApplyProofs` | the safety theorems of the agent and of `cfgctl apply` |

`RolloutLifecycle` is implemented by `RolloutService`, which is implemented by
`RolloutWrites`, alone and inside `SnapshotDelivery`. `Agent` details what
`SnapshotDelivery` takes as one step (`Install`) and takes the backend as a value that
changes. `ConfigApply` sees the engine only as a candidate that is pending per config.

### RolloutService

State and code: `rollouts` is the rollouts table (`rollout.Rollout`), `targets` the
`rollout_stage_targets` rows by rollout and stage, `nextRevision` the
`snapshot_revisions` sequence, `stable` the `StableVersionID` of each environment
state, `agentService` the registered agents' service, `telemetry` what a guardrail
query would return now. A member of `Configs` is a definition in an environment.

Actions and code: `CreateRollout`, `Acknowledge` and `reconcileRollout` (one visit of
`ReconcileActive`) are the whole handlers, down to the last write: `Acknowledge`
counts (`ApplyAck`), decides (`evaluateStageDecision`, with the guardrails'
counters saved) and then promotes, pauses, starts or continues a rollback.
`SetStableVersion` is the operator's call, `Register` an agent registering (again),
`TelemetryChanges` and `Tick` the outside world.

Abstractions:

* A stage's rows are one record: agents, the acknowledged ones, the expected version
  and revision they all share. A stage without rows is `NoTargets`.
* Times are ages. The code only compares an elapsed time with a duration, so an age
  stops growing at `Horizon`, which is no smaller than any duration.
* `BucketOf` stands for SHA-256 modulo 10000: any function. `Eligible` is exact.
* Percentages are compared by exact products, not by `float64` division.
* `Acks` is every acknowledgement that could ever be on the wire: any stage, agent
  and version and any revision drawn so far. Loss is an acknowledgement not
  taken, delay and duplication one taken late or twice.
* `StagePlan` and the durations are per request in the code; here one plan and one
  set of durations, as CONSTANTS, after the defaults of `CreateRollout` are applied.
* `RoamingAgents` are the ones that may register under a different service. The
  others keep what they first registered with, as an agent process with fixed
  configuration does. `StationaryCohortsNested` is about the latter.
* The transient states `EVALUATING` and `PROMOTING` are never stored by the code and
  hence never reached.

### RolloutWrites

A handler's first step takes its replica's lock, reads and computes its list of
writes; every write is a step of its own. `Write` is the next statement, `Crash`
drops the rest. A crash stands for a stopped process and for a statement that
fails, which both end a handler and release its lock. `Conflicts` is what makes the
insert of a rollout fail: the partial unique index, and the primary key of
`rollout_stages`. With several replicas the index refuses an update too, when a handler
writes back as unfinished what has ended meanwhile and another rollout has begun. `SharedStageIds` chooses between requests that bring their own
stage ids and requests that use `DefaultStagePlan`.
`RowOrder` is the order that `slices.SortFunc` gives the rows of a cohort.

Besides the abstractions above: the clock stands still while a handler runs; operators
set the stable version only between rollouts (the interference is in
`RolloutService`); a stage's rows stay one record, which is exact for one replica and
for one-agent cohorts, and the two-replica run has one agent.

### SnapshotDelivery

State and code: `cache` is what each agent has installed; `sync` is how far its
`SyncOnce` and the data plane's `GetSnapshot` for it have come, with everything read so
far; `inflight` holds the acknowledgements on their way; `live` are the agents whose
credential has not ended. `published` is history: the versions that were ever stable.

Actions and code: `Poll`, then per config `ReadState` (`GetEnvironmentState` and
`ListVersions`), `ReadRollout` (`GetActiveRollout`) and `ReadTargets`
(`ListStageTargets`, then `EffectiveVersionForAgent`), then `Install`, `SendAck` and
`Answered` per assigned item. The store is not in a transaction over these reads, so
`Engine`'s writes fall between any two of them. `Deliver` starts
`RolloutWrites!StartAcknowledge`; `Lost`, `Refused` and `GivesUp` are a lost
acknowledgement, an error answer and a client timeout, after which the
acknowledgement may still be handled. `Poll` and `Deliver` need a live credential
(`Verify` comes first in both handlers), which `Starts`, the registration of a process that
starts, gives and `CredentialExpires` ends. `InstallFails` is a snapshot that fails
validation or is not saved.

Abstractions:

* The ETag is computed over the whole snapshot with the time it was generated at, so
  every poll is answered with a snapshot and the 304 branch is not taken here
  (`Agent` does have it).
* Versions are listed before the rollout is read. A rollout that is newer than the
  list may name a version that `findVersionByID` misses, and the config is then left
  out of that snapshot.
* One replica without crashes, and no timeouts (`Horizon` is 0): what the timeouts and
  crashes do is in `RolloutWrites`; here only acknowledgements drive a rollout.
* Operators set only `OperatorVersions` as stable, and only between rollouts. Telemetry
  keeps the value it has at first, which may be any.
* `Install` is one step, and the values are such that their encodings validate: how a
  snapshot is saved and what becomes of its values is in `Agent`. An agent that starts
  again has what it had installed.
* An agent starts again between two polls; that it may stop inside one is a poll that
  ends without installing (`InstallFails`) or acknowledging (`Lost`, `GivesUp`).
* `Expiring` bounds the agents whose credential may end.
* `GivesUp` happens while no handler holds the lock: a client waits longer than a
  handler takes.

### Agent

State and code: `path`, `previous` and `tmp` are the three files of `Cache`;
`snapshot`, `etag`, `credential` live in the process; `step`, `fetched` and `unacked`
say where `main` and `SyncOnce` stand; `acknowledged` is the registry's table; `saved`
and `faults` are history.

Actions and code: `Start` with `Load`, `Register` or `RegisterFails` (one attempt, as in
`resolveIdentity`), `Fetch`, the five file operations of `Save`, `Acknowledge` per config,
`SyncEnds`. `SaveFails` is a refused file operation with `Save`'s own recovery rename,
`Stop` ends the process anywhere, `CredentialExpires` is the end of the TTL.

Documents and layouts: checksums are computed from the text of a value, and every
encoding rewrites that text. A file, a response and the memory therefore hold a
*document*: a snapshot with the layout of its values. `Stored` is the text in the
store, from which the data plane computes the checksums, `Encode` what `json.Encoder`
makes of it in the response, `MarshalIndent` what `Save` writes; `ValidateSnapshot` holds
in the stored layout only. Snapshots come in three kinds: `Flat` (numbers, plain strings,
empty composites), whose text no encoder changes; `Compact` (such as `[1]`), which only
indenting changes; `Spaced` (objects and longer arrays as JSONB prints them, strings with
`<`, `>` or `&`), which compacting changes too. A snapshot is of the kind of the worst of its
values.

Abstractions: a stop is that of a process, so that completed renames persist; `Sync`
belongs to `WriteTmp`. Responses are that of the current snapshot or one whose values were
altered. The variant with a preset credential (`AGENT_INSTANCE_CREDENTIAL`) is left
out. `MaxFaults` bounds stops and refused operations together.

### ConfigRegistry and ConfigApply

State and code: the registry's tables for one environment; versions are sequences, so
that a version's number is its place. `status`, `left`, `refs` and `posting` are
`ApplyDocuments` and its `applyState`; `late` holds requests that were not answered and
may still be carried out, `lost` counts them. `rolled` are the candidates of all rollouts
that were ever started: their stage rows stay. `StageIdsAreKeys` chooses between the
Postgres store, where the default stage ids can be used once (`StageIdsTaken`), and the
memory store.

Actions and code: `Read` is the GET of a document and the decision on it (`Skip`,
`Refuse`, `Prepare`), `Post` and `PostRefused` the POST, so that other processes and
operators come in between. `Unanswered` ends a process in either place, `Rerun` starts
it again with an empty `applyState`. `Decodes` is `decodeRequest`: stages and guardrails of a
Rollout document (`custom`) are posted under names that it refuses. `Operator` uses the API directly, `RolloutEngine`
ends a rollout published or not.

Abstractions: JSON Schema validation is the relation `Fits`; the documents are those
`validateManifest` accepts (`ValidManifests`); the order within a kind is left open;
operators add tenants, definitions and versions and leave the stable version to the
documents; a late request is carried out at most once. Parsing of YAML, the dry run and
printing are left out. Processes finish, so the run does not check for deadlock.

## 3. Runs

| Run | Module | Checks | Instance | Distinct states |
|---|---|---|---|---|
| `RolloutEngine` | `MCRolloutService` | `TypeOK`, `EarlierStagesCovered`, `StationaryCohortsNested`, `RollbackStatusHonest`, `FailuresBelowThreshold`, `FrozenCohorts`, `TerminalIsFinal`, `NoPromotionOnUnknown`, `RolloutsFinish`, `ImplementsLifecycle` | one rollout, two stages, a stationary and a roaming agent, two rules with threshold 2 | 170,748 |
| `WritesCrash` | `MCRolloutWrites` | `EarlierStagesCovered`, `PublishedBeforeCompleted`, `CountedAcksKept`, `FinishDespiteCrashes`, `ImplementsRolloutService` | one replica, two agents, one rule, a crash between any two writes | 61,032 |
| `WritesRace` | `MCRolloutWrites` | `OneActiveRollout`, `RevisionsDistinct` | two replicas, two rollouts of one config, one agent, one stage, one crash; the rollout ids are symmetric | 693,944 |
| `Delivery` | `MCSnapshotDelivery` | `CandidateOnlyInCohort`, `CountedMeansInstalled`, `AgentsConverge`, `DeliveredToTheEnd` | one config, two stages, two agents, of which one may lose its credential, one rule | 52,054 |
| `AgentCache` | `Agent` | `OneFaultKeepsACopy`, `AcknowledgedIsInstalled`, `KeepsServing`, `CatchesUp` | a snapshot of each kind, two configs, two faults | 177,390 |
| `ConfigApply` | `MCConfigApply` | `DoneMeansDeclared`, `OnlyDeclared`, `RerunsSucceed` | Postgres; two processes, one of them with rollouts, six documents, an operator, one lost request | 637,255 |
| `WritesCrashStable` | `MCRolloutWrites` | violates `RollbackKeepsStable` | one crash | |
| `WritesCrashVerified` | `MCRolloutWrites` | violates `VerifiedByCoverage` | one crash | |
| `WritesReplicas` | `MCRolloutWrites` | violates `CountedAcksKept` | two replicas, one reconciler | |
| `WritesStageIds` | `MCRolloutWrites` | violates `RefusedOnlyWhileActive` | default stage ids, two rollouts | |
| `AgentRestart` | `Agent` | violates `RestartServes` | two flat snapshots | |
| `AgentExpiry` | `Agent` | violates `PollersCatchUp` | two flat snapshots | |

Run them with `tlc -config <Run>.cfg <Module>`.

Why the bounds are enough. Two stages are the least that have an earlier, a next
and a last one. Of the two agents one is in the first stage's cohort and one only in the
second's, so cohorts grow and coverage can be partial. Durations are one or two
ticks: each timeout can fire before, with and after the others. Two failures make a
threshold, so a counter can be below it, reset or kept; where the counter is not the
subject (`Delivery`) one failure leads to a rollback. Two rollouts are what a
conflict and a clash of revisions take. Snapshots with items of two configs are covered by
the proofs about `SnapshotDelivery` and by no run. One crash is enough for each of the crash properties.
`nextRevision` needs no cap of its own: each rollout activates each stage once
(`RolloutService`), or once per crash. Two faults of the agent are one more than
`OneFaultKeepsACopy` allows, so the case after the allowed one is in the state space;
a snapshot of each kind, and with it an old and a new one, is all that encodings and polls
tell apart. One credential that may end, and one that does not, are both cases of the
premises of `AgentsConverge` and `DeliveredToTheEnd`. `MaxOperated` lets an operator add a
version before and after those of the documents; one lost request is enough for a
retry to meet what it has done already.

What the passing runs show beyond unit tests: `CandidateOnlyInCohort` and
`CountedMeansInstalled` say that no order of the data plane's separate reads, the
engine's separate writes and late acknowledgements shows a candidate to an agent that
was not chosen or counts an agent that runs something else. `ImplementsRolloutService` says that with one replica the
atomic handlers of `RolloutService` lose nothing; in `WritesCrash` it holds until
the first crash, because what a crash leaves is exactly what no atomic handler does.
`WritesRace` says that the unique index holds its promise also against two replicas that
write from rows they read long ago; that nothing else holds then is what `WritesReplicas`
shows. `AgentsConverge` is about agents whose credential stays live and `CatchesUp`, besides,
about snapshots that validate on arrival: the code gives neither in general
(`AgentExpiry`, and what follows the violating runs below). `RerunsSucceed` leaves out a process with rollouts whose
stage ids are taken (Postgres only) or whose documents do not decode, and nothing else.
`DoneMeansDeclared` takes a stable version that a rollout has put in the place of the
declared one for right.

### What the violating runs show

* `WritesCrashStable`: stop after `SetStableVersion` and before the rollout is
  `COMPLETED`; if the maximum duration passes first, the rollout is rolled back while
  its candidate is the stable version.
* `WritesCrashVerified`: stop after the rollout moved to its next stage and before the
  cohort is written. The empty stage times out and its rollback asks nobody and is
  `VERIFIED`, although the earlier cohort runs the candidate.
* `WritesReplicas`: two replicas promote the same stage; the second activation upserts
  `PENDING` over an acknowledgement already counted.
* `WritesStageIds`: `rollout_stages.id` is unique across all rollouts, so the second
  rollout with the default plan is refused whatever its config.
* `AgentRestart`: stop between the two renames of `Save`. Complete copies are in the
  temporary and the previous file, none at the path `Load` reads, and the next process
  serves nothing until it reaches the backend.
* `AgentExpiry`: the credential expires, every poll is refused, and nothing registers
  again: the agent keeps an old snapshot although everything is reachable.

Six more things a reader of the code should know, without a run of their own:

* The checksum of a value is that of its JSONB text (`dynamic_store.go:143`), the response
  carries the value compacted and HTML-escaped (`handler.go:94`), and the agent compares the
  one with the other (`cache.go:151`): a snapshot with an object, an array of several elements
  or a string with `<`, `>` or `&` is refused at every poll (`Spaced` in `Agent`, which is why
  `CatchesUp` leaves it out).
* `Save` indents the values and returns nil (`cache.go:65`); `Load` compares the checksums
  with the indented text (`cache.go:46`) and refuses the file of every snapshot with a value
  that indenting changes (`Compact` and `Spaced`). The cache is then of no use to the next
  process, fault or no fault, which is why `OneFaultKeepsACopy` and `AcknowledgedIsInstalled`
  say "completely written" of these and "accepted by `Load`" of flat ones only.
* Stages and guardrails of a Rollout document are posted as `MinimumDurationSeconds` and
  `ConsecutiveFailures`, because `manifest.go:85` has yaml tags only, and the control plane
  refuses fields it does not know (`handler.go:364`): `cfgctl apply --include-rollouts` fails at
  every run, also on the example of the repository (`Decodes`, `Unstartable`).

* `promote` assigns `COMPLETED` and `DEPLOYING` itself, so a rollout goes
  `DEPLOYING -> COMPLETED` or `PAUSED -> DEPLOYING`; the transition table in `state.go`
  has neither.
* `WithStableVersion` refuses a change while `ActiveRolloutID` is set, and nothing sets
  it. `RolloutService` therefore lets operators change the stable version at any time,
  and what is checked and proved there holds in spite of it.
* Applying the same documents again after a rollout completed sets the stable version
  back to the declared one without a rollout (`configcode/apply.go:218`).

### Fairness

`RolloutService`: weak fairness of `Tick` and of each `reconcileRollout(r)`: the ticker of
`startRolloutReconciler` calls `ReconcileActive` every two seconds, which visits every
active rollout. No fairness is assumed of agents, operators or telemetry, so
`RolloutsFinish` rests on the timeouts alone, and on a positive maximum duration and
rollback timeout, which the defaults give.

`RolloutWrites`: `Write` is weakly fair (a started handler runs on), `StartReconcile` and
`Elapse` strongly: `sync.Mutex` does not starve a waiter, and the clock waits for
handlers in the model only.

`SnapshotDelivery`: `PollingFairness` says that an agent with a live credential polls on and
waits for no answer for ever (the client has a timeout of five seconds), that a `Save` tried
again and again succeeds at last, and that a started handler runs on. `DeliveryFairness` adds
that the reconciler's ticker goes on and that `Arrives(r, a)` is strongly fair: an
acknowledgement that is sent again and again is handled once, which is what polling and
acknowledging again is for. Nothing makes a particular message arrive, and nothing makes an
agent register again: both properties have live credentials as a premise.

`Agent`: weak fairness of `Save` and of the end of `SyncOnce`, which are straight-line
code, and strong fairness of a fetch that is not answered by 304: a backend that keeps
coming back answers one of the polls (of a snapshot whose response validates). Nothing is assumed about starting or
registering, and `CatchesUp` is about agents that poll with a live credential.

`ConfigApply`: each process goes on, a failed one is run again, and rollouts end (which
`RolloutsFinish` shows). That somebody runs `cfgctl` again is an assumption about its
users; without it a failed run simply stays failed.

## 4. Proofs

All theorems hold for every value of the constants under the assumptions named in the
modules: `PlanAssumption` (what `ValidateStagePlan` accepts), `NameAssumption`
(sentinels are not values, `BucketOf` is a bucket), `DurationAssumption` (integers, none
beyond `Horizon`), `NoRolloutAssumption` and `GuardrailAssumption` for the engine;
`ReplicaAssumption`, `RowOrderAssumption` (`slices.SortFunc` returns the cohort's rows by
bucket), `OperatorAssumption` and `IdAssumption` (there is an id to draw) for the writes
and the delivery;
`AgentNames` and `AgentBounds` for the agent; `RegistryAssumption` and
`DocumentAssumption` (the documents passed validation) for `cfgctl`.

| Module | Theorem | Statement |
|---|---|---|
| `RolloutServiceProofs` | `TypeCorrect` | `Spec => []TypeOK` |
| `RolloutSafetyProofs` | `OneActive` | `Spec => []OneActiveRollout` |
| | `EarlierCovered` | `Spec => []EarlierStagesCovered` |
| | `FinishedIsFinal` | `Spec => TerminalIsFinal` |
| | `CohortsFrozen` | `Spec => FrozenCohorts` |
| | `RevisionsNameActivations` | `Spec => []RevisionsDistinct` |
| `RolloutCohortProofs` | `CohortsNested` | `Spec => []StationaryCohortsNested` |
| `RolloutOutcomeProofs` | `FailuresStopRollout` | `Spec => []FailuresBelowThreshold` |
| | `UnknownNeverPromotes` | `Spec => NoPromotionOnUnknown` |
| | `RollbackHonest` | `Spec => []RollbackStatusHonest` |
| | `RefinesLifecycle` | `Spec => Lifecycle!LifecycleSafety` |
| `RolloutWritesProofs` | `WritesFit` | `OneReplica`: `WriteSpec => []WriteInv` |
| | `OneActiveDespiteCrashes` | `OneReplica`: `WriteSpec => []OneActiveRollout` |
| | `CompletedIsPublished` | `OneReplica`: `WriteSpec => PublishedBeforeCompleted` |
| | `AcksSurviveCrashes` | `OneReplica`: `WriteSpec => CountedAcksKept` |
| | `CrashesSkipNoStage` | `OneReplica`: `WriteSpec => []EarlierStagesCovered` |
| `SnapshotDeliveryProofs` | `CandidateStaysInCohort` | `OneReplica`: `DeliverySpec => []CandidateOnlyInCohort` |
| | `OneActiveForPolls` | `OneReplica`: `DeliverySpec => []OneActiveRollout` |
| | `CountedIsInstalled` | `OneReplica`: `DeliverySpec => []CountedMeansInstalled` |
| `AgentProofs` | `CopySurvives` | `Spec => []OneFaultKeepsACopy` |
| | `InstalledBeforeAcknowledged` | `Spec => AcknowledgedIsInstalled` |
| | `ServingContinues` | `Spec => KeepsServing` |
| `ConfigApplyProofs` | `SuccessMeansDeclared` | `Spec => []DoneMeansDeclared` |
| | `AppliesOnlyDeclared` | `Spec => OnlyDeclared` |

`OneReplica` says that all replicas are one process. It is a hypothesis of the theorem
and not of the model: with two replicas `CountedAcksKept` is refuted (`WritesReplicas`),
and every handler of a second replica may write from rows it read before the first one
changed them. `MaxCrashes` is any number.

The engine. `AdvanceCases` splits a visit into completing, moving on, changing
state, staying, starting verification and finishing the rollback; this is where
"promotion needs coverage" is read off `evaluateStageDecision`. `VisitCases` restates
the effect on the record and on the rows, and `StepCases` says that every step is a
creation, a visit, the passage of time, or leaves rollouts and targets alone. Each
property is then shown to survive these four.

* `EarlierStagesCovered` is not inductive: a promotion shows coverage of the stage in
  `CurrentStageID`, while the property speaks of the stage at `CurrentStageIndex`.
  `StageConsistent` supplies that they agree until the rollback's verification stage,
  that only the last stage completes, and that the transient states never occur. With
  it, the rows of earlier stages are never written again (`EarlierUntouched`).
* `FrozenCohorts` needs the same invariant: a visit writes stage `index + 1` or the
  verification stage, and neither has been activated.
* `RevisionsDistinct` is strengthened by `RevisionsDrawn`: every cohort's revision is
  below the next one. `CohortWrites` says that a step writes at most one cohort, and
  under the revision it draws.
* `OneActiveRollout` and `TerminalIsFinal` need type correctness only.

* `StationaryCohortsNested`: that one cohort contains another does not say why an agent
  will be chosen again. The invariant of `RolloutCohortProofs` says so: an agent of a
  cohort that keeps its registration passes the service filter, and its bucket is below
  the percentage of the stage, which the plan only raises.
* `RolloutOutcomeProofs` describes a visit by what it decides. `Tolerated` (every counter
  below its threshold) is kept by each evaluation that is not UNHEALTHY at the threshold,
  and that one rolls back. `RollbackStatusHonest` and the refinement of
  `RolloutLifecycle` follow from `StageConsistent` and the split of a visit into promoted,
  held, dropped and ended.

Writes and crashes. None of the three properties of `RolloutWrites` is inductive,
because what a statement does was decided when the handler started. `WriteInv` therefore
speaks of the statements to come. Rows fit together (`RowsFit`: acknowledgements are
counted in reached stages only, stages left behind are covered, rows expect the version
of their stage), a config has one unfinished rollout at most (`OneRunning`) and a stable
version if it has a rollout (`Based`). The pending list is empty, or begins with a
counted acknowledgement or an insert, and goes on by a `Script` whose statements fit
whenever they are issued: updates keep the rollout's terms, never go back (`Ordered`) and
stay at or below stage `m`, rows are inserted only from stage `m` on and where nothing is
counted, and a completion comes after the publication (`Announced`). `AdvanceScript` and
`AdvanceOrdered` show that handlers start with such a list, `IssueStatement` that the
next statement leaves rows that fit and the rest of such a list. Dropping the list, which
is a crash, is then harmless. `Keeps` collects what no step takes back.

Delivery. `DeliveryInv` says of everything that a poll has read what is still true of
it: a stable version was published, a rollout keeps its terms, an agent stays in its
cohort. All of these only grow (`Keeps`), so that writes between the reads do no harm.
`CountedMeansInstalled` needs more: an acknowledgement may be counted after its sender has
polled again. `CountInv` follows every claim that an agent runs what a stage expects, from
the moment of `Install` through the message to the row (`Claimed`), and says that it is
`Justified`: the agent has a row in a stage that was reached, and while that stage is under
way the version is installed and any poll of the agent is going to install it again
(`Settled`): it finds a stable version (`Based`), the same rollout (`OneRunning`), the same
stage and the row. A stage that was left does not come back (`CurrentBefore`), and a
handler counts nobody but the sender it handles (`DeliverTallies`).

The agent. `OneFaultKeepsACopy` is not inductive: that some file is complete now does
not say which one the next operation of `Save` may destroy, nor what `Load` makes of it.
`CacheInv` adds that what is in memory validates and that a file at the path or
aside is `Usable`, complete and, if its values are flat, one that `Load` accepts
(`ValidCopies`), that the
temporary file is complete from its last write to its rename (`WorkingCopy`), that what
is being acknowledged is at the path and in memory (`InstalledCopy`), that before the
first fault the old snapshot is at the path or, between the renames, aside
(`UntouchedCopy`), and that after it a snapshot is left outside the temporary file
whenever that one may be partial (`SurvivingCopy`). The two action properties follow from
the same invariant.

Config as code. `ApplyInv` says that every number a process remembers, has put into a
request, or has in a late request, is that of a version with the declared value
(`RefsRight`, `RequestsRight`), that the documents behind a process are in place
(`BehindInPlace`), and that a stable version has a declared value or is the candidate of a
rollout that was started (`StableRight`). It is kept because the registry only grows (`Grows`): versions are
appended, definitions and tenants stay, and a stable version is replaced but never
removed. `DocumentFacts` is what validation gives about the names in documents.

Only model-checked: every liveness property (`RolloutsFinish`, `FinishDespiteCrashes`,
`AgentsConverge`, `DeliveredToTheEnd`, `CatchesUp`, `RerunsSucceed`, and the fair part of
`ImplementsLifecycle`), because liveness under fairness and ENABLED are beyond the
prover; `ImplementsRolloutService`, whose refinement mapping folds over the pending
statements, so that a proof needs induction over that sequence; and `OneActiveRollout` and
`RevisionsDistinct` with several replicas (proved with one, and for `RolloutService`). The inductive invariants `WriteInv`,
`DeliveryInv` and `CountInv` hold on the instances of the runs as well.

## 5. Not modelled

Encoding and decoding of requests (but for the text of checksummed values, in `Agent`, and
the refusal of unknown fields, in `ConfigApply`), JSON-schema validation, YAML parsing, the Prometheus
HTTP client, row scanning and error mapping are conversions without state. Heartbeats
write a time that nothing reads. The memory snapshot store with its static tokens stands
in for the database. The simulator and the reliability harness drive the other parts and
keep none of the system's state; health, runtime and logging are plumbing; deployment
files and the demo service hold no logic of the system. Rounding of `float64`
percentages is not modelled: it matters only for a threshold that an attainable
coverage equals exactly. Requests that repeat a stage id or a rule name are left out.

## 6. Plan

Every component with state of its own is modelled. What is left:

1. `RevisionsDistinct` and `FrozenCohorts` for `RolloutWrites`, statement by statement, and
   what remains of `OneActiveRollout` with several replicas.
2. `ImplementsRolloutService` with a mapping that needs no fold.
3. Delivery of two configs at a time with the deployment timeout: a snapshot has one
   revision, so that the rollout with the smaller one waits for the other.
4. A store that fails for one rollout's rows only, under which `ReconcileActive`, which
   returns at the first error, keeps the rollouts after it from being visited.
