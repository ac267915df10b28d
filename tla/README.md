# TLA+ specifications of gpt-tunnel-gateway

This directory is a verification project for the Gateway: TLA+ modules
translated from the Go source, TLC configurations that check them on small
instances, and TLAPS proofs of the results that hold for every instance.
`PROJECT.json` holds the components, the runs, a mutant for every checked
property, the line map from definitions to source, the findings, the hazards
and the theorems. Paths below are relative to `src/internal/` unless they start
with `src/`.

## 1. The system

The Gateway is one Go process (`src/cmd/gpt-tunnel-gatewayd`) that serves MCP
actions to Agents. It keeps its state in three places that are written one
after the other and never in one transaction:

* the *local* state of the machine: JSON records under the state directory and
  the Local SQLite database (Operations, Sessions, messages, execution state);
* the *Shared* state of a project: the Shared SQLite database, whose every
  mutation also inserts an outbox row in the same batch;
* the *Hub*, a Git repository that several Gateways push to, fed by the outbox.

A request arrives at `mcp`, is validated against `actioncontract`, and calls a
handler of `service`. Short handlers answer at once: they read and write the
Shared or the Local store, one query or one batch at a time, while other
handlers do the same. Long ones (integration, verification, prompts, Procedures)
are admitted as an Operation of the durable mutation queue and executed by its
workers; the caller reads the outcome later. In the background the outbox worker
carries Shared mutations to the Hub, and another goroutine carries project
retirements, and a worker watches the relay sessions of the Agents for the end
of a turn. On start-up the databases are migrated, the queue replays its
records, retirements are synchronized, and a project can be restored from the
Hub. Outside that process, the controller installs, starts, stops and recovers
the Gateway on its host.

```
 MCP request --> handler ---- queries, batches ----> Shared store --+
                   |                                   hub_outbox    |  outbox worker
                   | admission                                      v  retirement sync
                   v                                            Hub transaction
            Operation record + row --> wake channel --> worker     |  lock, fetch,
                   ^                                   |            |  mutate, push,
                   +------ start-up replay             handler      v  verify
                                                                   Hub (Git)
```

## 2. Inventory

| Component | State | Operations | What is hard | What makes it correct | Module |
|---|---|---|---|---|---|
| Durable mutation queue (`service/durable_mutation_*`, `sqlitestore/local_operations.go`) | Operation records, their rows, wake channel, active map, mutex | admission under four policies; worker claim, execute, finish; start-up replay | two durable copies, crashes between them, duplicate calls, a bounded channel that drops | one execution at a time; nothing replayed that must not be; no Operation lost; attempts linked and bounded | `DurableMutation` |
| Lifecycle Hooks, Procedures (`service/task_lifecycle_hooks.go`, `procedure_execution.go`) | Hook attempts inside the record | pending, launch, outcome, reconciliation | a crash between launch and outcome | at most one launch of a Hook or a script | `DurableMutation`, `AgentTurns` |
| Shared lifecycle mutations (`sqlitestore/shared_lifecycle_*`) and authoring handlers (`service/shared_rule.go`, `task_lifecycle.go`, `task_complete.go`, `milestone_lifecycle.go`) | state row, revision history, event chain, sequence, outbox row per entity | create, content revision, status event | computed from rows read in earlier queries | history complete, chain agrees with status, no lost update, true acknowledgements | `SharedLifecycle` |
| Outbox publication (`service/shared_outbox_worker.go`), Hub transactions (`hub`) | `hub_outbox`, the Hub branch, lock | poll, evidence stages, current file; lock, fetch, mutate, push, verify | retries out of order, crash after push, several Gateways | evidence before file, no regression, convergence | `HubOutbox` |
| Task execution (`service/task_execution_*`, `sqlitestore/task_execution_*`) | phase rows, receipts, lanes, write-ahead integration record | dispatch, submit, review, test, rebase, integrate, reset, block, complete | a crash or a lost answer inside every handler, a branch that moves | only reviewed and verified work lands, and is recorded once | `TaskExecution`, `CanonicalBranch` |
| Planning: Tracks, Milestones (`service/track_lifecycle.go`, `milestone_*.go`) | membership, dispatches, review snapshots | create, update, append, remove, submit, accept, cancel, complete, archive | checks in one query, writes in another, no lock | acceptance and completion of what is proven; recorded dispatches kept | `Planning` |
| Sessions, grants, Agents, messages (`session`, `service/session*.go`, `agent_register.go`, `agent_registry.go`, `message_lifecycle.go`) | rows of the Local database, the binding file | start, attach, update, end, register, send, read, cancel, retire | every handler is unlocked; the clock may step back | writes compose, a retired project is quiet, answers hold | `LocalAuthority` |
| Agent turns (`service/agent_*`, `sqlitestore/callback_epochs.go`) | Operations, interrupt receipts, callback epochs, tail state | prompt, interrupt, replace, observe, Hook, tail | an external relay, restarts between effect and receipt | a Hook once and after the work; an interrupt not repeated; lost lines announced | `AgentTurns` |
| Project lifecycle (`service/admin_onboarding.go`, `bootstrap.go`, `project_*.go`, `shared_restore.go`, `config/managed_projects_*`) | registry file, host configuration, Shared, Local, Hub | onboard, change code, configure, retire, restore, synchronize | five stores, two hosts, no common transaction | stores agree, retirement is final, a restore loses nothing | `ProjectLifecycle` |
| Controller, activation, upgrade (`controller`, `activation`, `debug`, `upgrade`) | binaries, databases, PID record, locks, snapshots, receipts | activate, recover, upgrade, start, stop | every process can be killed between two steps | a way back that restores a matching pair, receipts that hold | `Deployment` |
| Schema migrations (`sqlitestore/*_migration*.go`) | markers of two databases | versioned migrations, resumable rewrites | a crash between any two batches, edits beside them | nothing durable lost, the databases open again | `Migrations` |
| Code inspection, paging, runtime log (`service/local_code_*`, `pagination`, `runtime_log`) | table of handles, log files | five code actions, lists, log reads | a page cut by three budgets, data that changes between pages | a walk lists everything once and ends | `Inspection` |
| Gates, integration hooks; MCP surface, action contracts; Git, relay and host adapters; command line tools; plan rendering | — | external commands, schemas, formatting | — | not modelled, see section 8 | — |

The hazards, each at the line where it bites and with the properties that
watch it, are in `PROJECT.json`.

## 3. The modules

`X.tla` is the specification of a component, `MCX.tla` its instance for TLC,
`XProofs.tla` its theorems; those of `LocalAuthority` are the second part of
`HubOutboxProofs.tla`, the two modules whose writes ask for the retirement
themselves. How they meet:

* the outbox row: what a batch of `SharedLifecycle` or `Planning` inserts is the
  `row` table that `HubOutbox` polls, reduced to the number of the commit, its
  revision and whether it appended an event (`Rev`, `StatusChanges`);
* the Operation: `DurableMutation` schedules what `TaskExecution`
  (`IntegrateStart`) and `AgentTurns` (`OpStep`) execute. Those modules rely on
  two of its results, one executor per Operation and a replay from the start
  after a crash, and no more;
* the execution row: `Planning` has Task execution and the handlers of a Task as
  its environment (`TaskLands`, `TaskCompletes`, `TaskCompletesNonCode`,
  `TaskResets`, `TaskRevised`, `TaskArchives`), reduced to the row's status and to
  the Task's own status, revision and completion (`authored`);
* the retirement: `LocalAuthority` has the guarded Local batch, `HubOutbox` the
  publication, `ProjectLifecycle` the order of the stores on two hosts;
* the Hub: `ProjectLifecycle` takes a Hub transaction as one step, which
  `HubOutbox` opens up.

### 3.1 DurableMutation

*State.* `fileStatus`, `attempt`, `origin`, `fresh` and `retriedFrom` are the
fields of the JSON records; `rowStatus` is the row of `local_operations`, the
only copy that `operation/read` serves; `next` is the project's Operation
sequence. These survive a crash. `wake`, `active`, `mu`, `wpc`, `wop`, `wres`
are the channel, `durableMutationActive`, `durableMutationMu` and the worker
goroutines; `call` the admission calls; `phase`, `scan`, `reading` the start-up
replay. These do not. `runs`, `hookRuns` and `stranded` are history variables.

| Action | Code |
|---|---|
| `AdmitStart`, `AdmitDecide`, `AdmitRow`, `AdmitRowFails`, `AdmitFinish` | `enqueueTypedDurableMutation`, `enqueueRepeatableAgentMutation`, `enqueueTaskVerificationAttempt`: under the mutex choose the Operation, write the record, then the row, then wake |
| `ProcedureStart`, `ProcedureFile` | `allocateProcedureExecution`, which takes no mutex |
| `Take`, `Skip`, `Claim`, `ClaimRow`, `ClaimRowFails` | `durableMutationWorker`, `executeDurableMutation` up to the handler |
| `HookPending`, `HookLaunch`, `HookEnd`, `HookPassed` | a lifecycle Hook: the pending attempt is written before the launch |
| `Execute`, `HandlerSucceeds`, `HandlerFails` | the handler and its answer: completed, failed or outcome unknown |
| `PersistParent`, `ParentRow`, `ParentRowFails` | the parent's outcome is written before the after-Hook |
| `Finish`, `FinishRow`, `Leave` | the terminal record, its row, release of the Operation |
| `Crash`, `ScanStart`, `ScanRead`, `ScanWrite`, `ScanRow`, `ScanEnqueue`, `ScanDone` | the process dies; `startDurableMutationWorker` replays the records one by one before it starts the workers |

A request is everything the digest of a call covers. Two requests with one
`Coord` are verifications of one Task under different captured identities.

`AdmitVerify` and `AdmitRetry` are the admission of a verification. The comment at
`durable_mutation_mutation_worker.go:457` lets a fresh attempt be allocated "only
while nothing equivalent is in flight", but what is asked is the latest attempt of
any identity: when that one belongs to another identity and has ended, the latest
attempt of the caller's identity is retried although it may still be accepted or
running. `AttemptsChain` excepts exactly the attempts that were `Overtaken` that
way: a retry follows a failed attempt, and no two attempts of an identity are
open together, unless one of another identity came in between and ended first.

### 3.2 SharedLifecycle

*State.* Per entity the state row (`state`), the revision rows (`history`) and
the lifecycle events (`events`); per kind the number sequence (`seq`); the
outbox rows by operation identity (`outbox`); `taskExecutionMu` (`mutex`); and
for every request where it is and what it has read and computed (`req`).

Every query and every batch is a step of its own. `Handle` is the handler's
read and its computation of the next payload; `CheckStatus` and `CheckReuse` are
the queries of `CommitSharedLifecycleRevision` and `CommitSharedLifecycleEvent`
before their batch; `CommitBatch` is the batch with its compare-and-set,
`BatchFails` and `Recheck` its conflict path; `CreateReuse`, `CreateNumber`,
`CreateBatch`, `CreateFails` and `CreateRecheck` are
`CommitSharedLifecycleCreate` with its bounded retry. `Cancel` ends a request
wherever it is: its context is cancelled, or the process dies.

### 3.3 HubOutbox

*State.* The Shared store as far as publication sees it (`shared`, `retired`);
the table `hub_outbox` (`row`, `created`, `due`); the Hub branch (`hub`, `head`);
the Hub `lock`; and two processes (`proc`): the outbox worker and the retirement
synchronization.

`Commit` and `Retire` are Shared batches, `BecomesDue` the passing of
`next_attempt_at`, `Poll` is `PendingOutbox`; `LockBusy`, `Fetch`, `Mutate`,
`Push`, `Verify` are `Store.Transact`; `WorkerMark`, `SyncMark` the marks;
`Fault`, `Crash`, `ForeignPush` what goes wrong. `Noop`, `Conflicts`, `Written`,
`Refused` are the publishers' mutators and `NextStage` the order of evidence and
file.

### 3.4 TaskExecution and CanonicalBranch

*State.* The execution rows (`st`), phases (`ph`) and verification receipts
(`rcpt`); the authoring status, completion contract and Journal of a Task; the
remote default branch (`canon`, a sequence, so a position names a commit), the
lanes on disk and on the remote; `taskExecutionMu` with the locals of its holder
(`mu`); the durable integrate and test Operations (`iop`, `top`); the running
verification (`ver`), which holds no mutex.

Each handler is a chain of actions, one per durable write or remote effect
(`DispatchLane`, `DispatchRecord`; `SubmitPublish`, ...; the claim, the
write-ahead capture, the push, the re-read and the record of an integration),
with a failure beside each step where the code has one and `Crash` anywhere. A
controlled rebase records the head it left the lane at, as it reads it back
(`ReconcileLane`, `ReconcileRecord`).

`CanonicalBranch` is the abstract promise: a branch that only grows, work landed
only on the commit it was reviewed and verified on, one record per Task, closed
after that. `Board` maps the tables and the branch onto it;
`LandsOnlyProvenWork == Board!BSpec` is a property of the run and a theorem.

### 3.5 Planning

*State.* `milestones`, `tracks` (payloads with revision, status, dispatched Tasks
and review snapshot), `outbox` (operation identities), `row` and `authored` for
the Tasks, `head` of the default branch, and the request slots.

A handler prepares (reads, refuses or computes), is admitted by the store
(`StoreAdmits`, `StoreRefuses`: the registry's transitions, the descriptor's
validation, the reuse of an identity) and writes (`StoreWrites`,
`StoreConflicts`). `TaskExecutionDispatch` persists its row and
`recordTrackTaskDispatch` records it in the Track afterwards.

A Task is completed in two ways: by its executor from an integrated row
(`TaskCompletes`), and by a confirmed `non_code` completion, which takes a planned
Task that was never executed (`TaskCompletesNonCode`, `service/task_complete.go:144`,
237-257). `requireMilestoneTasksDone` accepts both, so `CompletionProven` says that
every Task of a completed Milestone was completed and either executed to the end or
never executed at all. `TaskRevised` checks and writes in one step, since the
authoring handler holds `taskExecutionMu` from its check to its batch.

### 3.6 LocalAuthority

*State.* `sessions`, `agents`, `messages`, `next`, `grant`, `projectRetired`,
`openWork` are rows of the Local database, `bindings` the configuration file, `rules`
the effective rule digest, `clock` the wall clock, `req` what a handler has read.
`Arrive` calls a handler, `Step` is its next database access; the retirement is
one guarded batch (`beginLocalProjectRetirement`).

A request carries what it asks for (`SessionAsks`). An update of a Session sets its
label, its relay or both in one compare-and-set (`SessionUpdate`), as
`session/store.go:279` does. `SessionWritesCompose` therefore does not count the
fields that change: it says that a Session only changes by the batch of a request
that read it, and only in the fields that request asked for, never after its end
and never with an earlier `updated_at`.

### 3.7 AgentTurns

*State.* Operations with the step of their executor (`op`), the interrupt
receipt (`receipt`), `epoch` and the Procedure file of each (`hook`), the Hook
worker's page and sample (`worker`), the relays, the registry and the
configuration, and an observer's tail (`lines`, `reader`). `OpStep` is the
execution of a prompt, an interrupt or a replacement; `WorkerStep`
the poll, the two samples of idleness and the dispatch of the Hook;
`agentTailDelta` is the computation of a page of the transcript.

A line of the transcript has a content (`text`: the first line that had it), and two
lines may have the same one, as blank lines and repeated output do. The overlap of
two snapshots compares contents (`agent_transcript.go:209`), so a beginning of the
snapshot that repeats the end of the one before is taken for it, and the lines up to
the end of that block are neither shown nor announced (`Repeated`).
`TailLossIsReported` excepts exactly these: every other line was shown, is kept for
the next page, or its loss was announced. `hist.told` collects what was.

### 3.8 ProjectLifecycle

*State.* The Hub's files of every project (`hub`) and per host `reg`
(`managed-projects.json`), `conf`, `shared`, `local`; repositories and detached
Worker runtimes; requests and start-up synchronizations (`op`). `OpStep` is one
store access of `ProjectOnboard` (with its rollback), the administrator's
onboarding, `ProjectUpdate` (with two compensations), a configuration edit, a
retirement, a restore, or the synchronization of a start; `WorkerStep` the
outbox worker. `ProjectTypeOK` describes the stores.

`Fault` makes a step fail. `HubFails` is a Hub transaction that reports an error
before its push, or after it (`hub/transaction.go:117-127`, `Pushes`): the caller
is told of an error in both cases and goes on as `OnFailure` says. `RestoreFails` is
a configuration file that cannot be put back. A bootstrap batch repeats what its
reads found (`BootstrapRow`, `BatchHolds`): a row it inserts must still be absent
and a code it changes must be the one that was read.

The start of a Gateway collects the retirements, migrates the configurations of
its projects (`MigrateProjectConfiguration`) and then publishes. A debug Gateway
whose migration is not complete defers and publishes nothing (`ShouldDefer`), and
the migration can fail. Either way the attempt is given up and made again
(`postReadyHubSyncLoop`), in a debug Gateway with the same end.
`RestartConverges` asks for the marker in Shared of every host that starts with a
pending retirement, and for the Hub's marker and a cleared registry of those that
do not defer.

The stores of a start are those earlier requests leave behind (`Settled`): a
retired project is gone from the Hub, the codes of a configured project agree, no
evidence is ahead of its entity, and every number in use is below the next one.
`StoresAgree` has three exceptions that the code makes: codes are compared for an
update that shares neither its host nor its project with an update of another
(`Alone`), they may differ after an update that answered with the plain error of
the Hub although its push was made or its file could not be put back
(`Misreported`), and the next number is above every entity there is unless another
restore of the project was cut short (`Unrestored`); section 6 has all three.

### 3.9 Deployment

*State.* Installed binaries, two databases with the build that migrated them
last, the Gateway process and its PID record, the Tunnel, three lock files,
snapshots, receipts and upgrade transactions. `Flow` lists, per site, the call
the code makes there and where it goes on success and on error: one row per call
of `ActivateGateway`, its rollback, the recoveries, the upgrade runner and the
operator's commands (start, stop, restart of everything and of the Gateway alone,
recovery). It is a function from site to call, so a proof can look a
site up. The actions (`StopProcess`, `Spawn`, `ReplaceOne`,
`CaptureDurableState`, ...) are the effects of these calls; `Crash` kills a
process between two of them.

### 3.10 Migrations

*State.* Both databases (`sh`, `lo`) as an earlier release left them (`mix`), the
position of the opening process, what its step has read (`work`). `Open` starts,
`Step` runs the next batch: the versioned migrations, then the resumable
rewrites. `PostReady`, `EditConfiguration` and `JournalMigrate` run beside a
serving daemon.

### 3.11 Inspection

*State.* The table of compact handles (`reg`), the worktree, execution rows, a
list, the log files, and callers that page through one of them (`walk`).
`Request` is one reply of `CodeRead`, `CodeTree`, `CodeSearch`, `CodeDiff`,
`CodeWorktree`, `pagination.Page` or the log reader, cut by the token budget, the
scan budget and the cost of its own cursor. `Reference` is the listing in one
piece that `ExactListing` compares with.

## 4. The runs

A behaviour picks one workload (a set of requests, a mix or a plan: which
operations are called, how the stores look at the start, how many crashes and
failures happen) in its initial state. One run thus covers many scenarios
without paying for their product, and each scenario has its own bounds.

| Run | Instance | What it shows |
|---|---|---|
| `durable_queue` | an integration with both Hooks, a prompt, a Procedure, a verification, two verification identities of one coordinate with a retry of one beside its open attempt, one verification retried to the bound, a Procedure beside a verification; up to two workers, a channel of one slot, a crash, a failed row update | one execution at a time; effects match the record (no Hook or script twice, the after-Hook behind the outcome, the row never ahead); attempts linked and bounded; what is not dropped visibly ends |
| `shared_lifecycle` | eleven workloads of three to five requests on a Rule, an ADR, a Task, a Milestone, and creates with two attempts | complete history, no lost update, true answers, chains that agree, every request returns |
| `hub_publish` | a Task, a Track, a Rule, a configuration with a retirement, a Task behind a Track; one fault or crash, one foreign push | evidence before file, true marks, a retirement that stays, no regression, convergence |
| `task_lifecycle` | one Task landing while the branch moves and everything fails once; gates and stale receipts; rework; parking, reset and re-dispatch; landing by hand; a Task taken back after a failed rebase; two Tasks of one Worker | the refinement of `CanonicalBranch`; no landed commit stranded; a second open Task only by a rebase; integrations settle |
| `deploy` | five plans of one or two processes out of a debug activation, a Task activation, an install, a recovery, an upgrade, an operator; up to two faults | a way back that leads to matching binaries and state; receipts that hold; a cutover ends |
| `planning` | an active Milestone, one Track, two Tasks that are executed, completed without execution, revised or archived, two request slots, four calls, a second Track or Milestone | acceptance and completion of proven work; dispatches kept and cancelled Tracks never started |
| `local_authority` | six mixes of starts, changes of label, relay or both, closing, Agents and messages, two handlers at a time, up to three calls | a retired project is quiet; answers hold; Session writes compose; handlers return |
| `agent_turns` | eight mixes of prompts, interrupts, replacements and a tail of lines that may repeat; a crash, a fault, a changed configuration | a Hook once and after the work; interrupts not repeated; lost lines announced; turns settle |
| `project_lifecycle` | twenty mixes on two hosts and two projects, up to three requests; Hub errors before and after the push, a file that cannot be put back, a debug host that defers | stores agree; nothing is taken back; a restart converges |
| `migrations` | thirteen databases from empty to current, refused ones too; three crashes, two edits | an upgrade loses nothing; sound databases open unless interrupted in the way of the finding |
| `migrations_interrupted` | the same with one crash | *finding* 1 below |
| `inspection` | two callers; commits, edits, moving rows, rotating logs, restarts, a full table, colliding handles | listings exact; stable entries seen once; walks end |

*Bounds.* One crash is enough for every window of one crash, which is what the
recoveries distinguish: a replay starts from the durable state alone, and the crash
may fall into the replay too. Where a second one matters (an activation and its
rollback, a migration that is interrupted again) the plan has two or three.
`MaxAttempts` and `CreateAttempts` are small so that the bound is reached; three
fresh attempts leave room for a retry whose predecessor is overtaken by another
identity, and a fifth Operation for the one that must be refused. A channel of one
slot, a page of two rows, a `Batch` of 2, a `Window` of 4 lines and a table of one
handle make each limit bite. The damage a race can do takes two writers of one
entity and a third that observes; two hosts and two projects are what a conflict of
codes or retirements takes. Three commits per entity are a revision, a successor and
a status change at the same revision. In `TaskExecution`, `rev` bounds the rounds: a
full landing takes 7 revisions, so 10 leaves room for a rebase and a second
verification. `MCBinaryNames` has two of the three binaries, because the third is
treated like the second.

*Deadlock* is not checked in the runs: each stops when its finite work is done.
That nobody waits for ever is stated by the liveness properties.

*Fairness.* `DurableMutation`: weak fairness of every worker, every call in
progress and the replay, because the runtime schedules every goroutine and a
context bounds every handler; strong fairness of the steps that take
`durableMutationMu`, because Go's mutex hands itself to a waiter that has
starved. `SharedLifecycle`: some request that can take a step takes one, no
more. `HubOutbox`: the worker's loop and a synchronization that has started make
progress, and time passes for every row. `TaskExecution`: the holder of the
mutex runs on, and an accepted integrate Operation is taken again and again
(`EventuallyServed` of the queue), strong because the mutex can be taken in
between. `LocalAuthority`: a handler that was called runs. `AgentTurns`: the
gateway's executors, Hook worker and Hooks run and the service manager restarts
it; relays and callers owe nothing. `ProjectLifecycle`: requests,
synchronizations and workers run; crashes and ends of Sessions need not happen.
`Deployment`: activation workers only, whose every wait has a deadline.
`Migrations`: the daemon is started again and a start goes on. `Inspection`: the
gateway answers a caller and the caller goes on. No caller must call anywhere,
and no fault must happen.

*Mutants.* Every checked property has a variant of one mapped definition, as a
plausible bug would change it (a dropped guard, a swapped order, a missing
reset), under which TLC must find the property violated. They stand before the
definition they vary.

## 5. The proofs

Eight modules prove 37 theorems, each for arbitrary values of the constants that
satisfy the modules' assumptions. Of the assumptions, some say what a constant
is (counts are numbers, a bound is not zero, requests, Tasks and mixes are well
formed); `StoreAssumption`, `SeedAssumption` and `TargetsAreLater` say what the
stores may hold before the first step (Sessions that validate, Tracks and
Milestones nobody has worked on, targets other than the installed build),
as `Settled` does within `ProjectLifecycleAssumption`; and
`NoneAssumption`, `ShapeAssumption`, `NameAssumption` and `JobsAreDistinct` say
that the model value for "no record" is no record and that the kinds of
processes are disjoint. TLC evaluates all of them on every run.

A safety property here is seldom inductive: it speaks of rows, and what a
handler will write to them is in its locals. Every module therefore has one
inductive invariant that says what the locals, the captures or the place in a
handler are worth while others go on; each action is shown to keep it, and the
property follows. Lemmas about the operators the models are built from
(transition tables, folds, sorted listings, subsequences, what a batch changes
and leaves alone) come first in each module and are cited by name. A least or
greatest element is taken by `WFMin`, without induction.

| Module | Theorem | Property | Kind |
|---|---|---|---|
| `DurableMutationProofs` | `TypeCorrect` | type | invariant |
| | `OneExecutionAtATime` | `ExclusiveExecution` | invariant |
| | `EffectsAreRecorded` | `EffectsMatchRecord` | invariant |
| | `AttemptsAreChained` | `AttemptsChain` | invariant |
| `SharedLifecycleProofs` | `TypeCorrect` | type | invariant |
| | `HistoryIsComplete` | `HistoryComplete` | invariant |
| | `NoLostUpdate` | `BuiltOnPredecessor` | invariant |
| | `AnswersHold` | `AnswersAreTrue` | invariant |
| | `ChainsAgree` | `ChainAgrees` | invariant |
| `HubOutboxProofs` | `TypeCorrect` | type | invariant |
| | `EvidencePrecedesFile` | `EvidenceFirst` | invariant |
| | `MarksAreTrue` | `PublishedIsOnHub` | invariant |
| | `RetirementIsFinal` | `RetiredStaysGone` | invariant |
| | `RetriesDoNotRegress` | `NeverRegresses` | action property |
| | `LocalTypeCorrect` | type | invariant |
| | `SessionWritesKeepOthers` | `SessionWritesCompose` | action property |
| | `RetirementCloses` | `RetiredIsQuiet` | invariant |
| | `ReportsHold` | `AckedHolds` | invariant |
| `PlanningProofs` | `AcceptanceIsProven` | `AcceptedIsProven` | invariant |
| | `CompletionIsProven` | `CompletionProven` | invariant |
| | `DispatchesAreKept` | `DispatchesKept` | action property |
| `TaskExecutionProofs` | `TaskTypeCorrect` | type | invariant |
| | `SecondTaskNeedsRebase` | `SecondTaskOnlyByRebase` | invariant |
| | `LandingsAreRecoverable` | `LandingRecoverable` | invariant |
| | `CandidatesDescend` | none: `Based` | invariant |
| | `LandsProvenWork` | `LandsOnlyProvenWork` | refinement |
| `AgentTurnsProofs` | `AgentTurnsTypeCorrect` | type | invariant |
| | `HooksFollowWork` | `HookFollowsWork` | invariant |
| | `InterruptsAreNotRepeated` | `InterruptNotRepeated` | action property |
| | `TailLossesAreReported` | `TailLossIsReported` | invariant |
| `ProjectLifecycleProofs` | `ProjectTypeCorrect` | type | invariant |
| | `NothingIsTakenBack` | `NothingTakenBack` | action property |
| | `StoresStayAgreed` | `StoresAgree` | invariant |
| `DeploymentProofs` | `DeploymentTypeCorrect` | type | invariant |
| | `WayBackHolds` | `WayBackSound` | invariant |
| | `ReceiptsAreFinal` | `ReceiptsHold` | action property |

*Durable mutation queue.* `Typed` is the type invariant with what makes it
inductive: a call, worker or replay under way has an Operation, and a handler
that returned has decided a terminal status. For `OneExecutionAtATime`, whatever
a worker holds between claim and release is in `active` and was put there by
that worker, and a claim takes only what is not in `active`. For
`EffectsAreRecorded` (`Recorded`): workers exist only after the replay
(`Phased`); what has a record has a row and a request (`Allocated`); and
`Truthful` relates the record of every Operation to the executions and launches
counted for it, to where its worker is, and to what the replay read of it before
other steps came between. The Procedure is the hard case, because nothing in its
record says that its script was started: `Unfinished` shows that such a record
is still being executed or still before the replay. For `AttemptsAreChained`,
`Chained` adds that the first Operation of a request is the one its digest names,
and that each later verification names the latest one of its identity before it,
which has failed or is overtaken. What is decided from is the record of the latest
attempt of any identity, so the proof follows which attempt that was: it has ended,
and a record that has ended does not open again.

*Shared lifecycle.* Neither history property is inductive: a request carries a
payload it computed from a row it read several steps ago. `Pending` says that a
request about to commit computed its payload from a revision whose content is in
the history, and asks the batch to compare exactly that revision. Revision rows
never change, so the fact survives whatever the others commit, and the
comparison makes that revision the newest one at the moment of the commit. One
compare-and-set suffices for all handlers, with the mutex and without it.
`AnswersHold` rests on `Answering`: what an outbox row says of its operation is
true (`OutboxIsTrue`), because a second request with that identity is answered
from it; the entities of a kind are those below its sequence (`Numbered`); and
every request submits what its answer will claim (`Requested`). `ChainsAgree` is
the chain of an entity that no content commit overtook, beside what a request
between its status query and its batch knows of the row.

*Outbox publication.* One invariant `Inv` carries all five, since what is on the
Hub depends on what a process carries from one transaction to the next: the lock
keeps the tree that was fetched current until the push (`LockOK`, and the
fast-forward rule for other Gateways); a process in a later stage has left the
evidence of the earlier ones on the Hub, and evidence is never removed; rows
stand for commits the Shared store has (`Real`); the mutator's look at the
retirement marker and at the file's revision is still true at the push
(`StillFresh`); and what a mark claims cannot become false (`OnHub`).
`RetriesDoNotRegress` follows from `Inv` and the lemma that a stage writes only
its own entity's file.

*Local authority.* `Typed` says what a handler between two queries holds, and that
message numbers and the requests that still want one fit under the bound. A
compare-and-set of a Session compares the row it read (`CasFits`), so its write
changes that row and keeps every field the request does not ask for, an
acknowledgement or an end that came before it included (`SessionWritesKeepOthers`).
A retired project stays quiet because each guarded batch asks for the retirement
itself: `SessionsQuiet` with the two flags is inductive although every handler asked
long before. `ReportsHold` follows from `Forward`: ended Sessions and read or
cancelled messages never change.

*Planning.* `Planned`: rows only move forward, so what a prepared payload relied
on when it was computed still holds when it is written (`Sound`, `Proven`); and
a payload prepared from a Track row differs from the current row only if the
revision has moved (`Since`), which the compare-and-set then refuses. The one
write that keeps the revision, an acceptance, is the exception `Since` names. For
`CompletionIsProven`, completing a Milestone reads every Task as completed and
none with an open row; a completed Task stays completed, since revision, archive and
both completions start from an open one or keep the fact, and no dispatch starts a
completed Task, so a row that was absent stays absent.

*Task execution.* `IInv` ties the holder of `taskExecutionMu` to the rows
(`HolderFits`, one conjunct per handler), the write-ahead capture of an
integration to the row and the receipt it was taken under (`CapturesFit`), every
integration phase to a commit that is on the branch (`IntegrationsFit`), and a
commit on the branch to its record or to the capture that leads there
(`LandingRecoverable`). `Based` adds that a candidate descends from its base,
also for a handler that has moved the lane and not yet written the row. The
second half of the module is the refinement: receipts that were recorded for an
ancestor candidate are what `CanonicalBranch` calls proven (`AllProven`), and a
Task has one landing at most (`AllRecorded`); then `Init` maps to `BInit`, a
push to a landing or a foreign commit, the record of an integration to a record,
a completion to a closing, and every other step of every handler, crash and
failure to a stutter.

*Agent turns.* `IInv`: a receipt says what its executor may still do
(`ReceiptBinds`), so a repeated execution of an interrupt stops at it; what the
worker has seen of an epoch happened (`Seen`), what the epoch says agrees with
the record of its Procedure (`Told`), and the epoch the worker holds between two
of its steps is nobody else's (`Turn`). `TailKept`: what an observer's file
keeps is the end of the lines printed when it read, and of each line before it is
known what became of it. A read then has two cases. With no overlap the history is
announced as cut and everything in the window is shown; with one, what it skips is
either in the earlier snapshot or `Repeated`, whatever the contents are.

*Project lifecycle.* `ProjectIInv`. `Stores` is the type of the stores and `Ops`
says what a request or a synchronization holds at each of its steps (`OpFits`,
one part per kind of local). `NothingIsTakenBack` needs little more: a registry
digest is held from the read to the write only (`RegFits`), a write compares it,
and both writers know that their project's entry changes; nothing registers
or codes a project whose marker is on the Hub, and the retirement that puts it
there removes both (`RetiredIsGone`); `PutSharedProjection` compares inside its
write. `StoresAgree` needs the history of a request. For a restore, `Progress`
says which entities and which evidence of the snapshot have reached Shared; they
stay there since every entity only grows, and `NumbersKnown` carries the
counter, which is behind only while a restore is under way or was cut short.
For an update, the question is what else may write the three copies of a code.
`Apart`: an onboarding of a configured project finds a registry entry or stops,
an update finds none or stops, so the two are never both past their checks.
`Alternate`: the comparison of the configuration file admits one update at a time
to the Hub. `Kept` then says which copies have the new code at each point of the
update and of its two compensations, and that they agree when no update is under
way, unless one has crashed, reported a mixed state or hidden one (`Spoiled`). An
error after the push and a file that is not put back are steps of the proof: after
the first the Hub has the new code, after the second the file, and what the update
carries (`work`) says which. `MarkedFirst` (the Local
marker comes before everything else a retirement does) rules out that a
retirement empties the registry under an onboarding that relied on it.

*Deployment.* `Stands`: a process is at a site of its own kind. `Held`: whoever
is inside the controller's scope holds `controller.lock`, so nobody else is in a
cutover (`Calm`). For the holder, `Keeps` says what the snapshot holds by how far
the cutover has come, and `Faces` what the host looks like at each call, where no
upgrade wrote beside it (`overlap`); `Backed` is the same for the backup of an
upgrade, which has another lock. `DebugFits` and `RecoveryFits` relate a receipt
to where its worker is, or to the worker still to be launched. The table `Flow`
is looked up by one lemma per site and action; every action is then shown to
keep `IInv` for its own process and to leave that of the others alone.

*Only model-checked.*
* All liveness, because the prover has no fairness: `EventuallyServed`,
  `EveryRequestReturns`, `Converges`, `IntegrateSettles`, `CutoverSettles`,
  `RequestsReturn`, `TurnsSettle`, `RestartConverges`, `WalksEnd`.
* `UpgradeLosesNothing` and `SoundOpens` of `Migrations`. No proof has been
  written: an inductive invariant has to describe every prefix of every migration
  of two databases, beside the edits of a running Gateway.
* `ExactListing` and `StableSeen` of `Inspection`: the reference listing is
  a fold over the files of a commit, and what a fold computes for every input
  takes an induction over the data, which the provers cannot do.

## 6. Findings

### A run shows it

`PROJECT.json` quotes the lines.

1. `MigrateLegacySharedSequences` and `MigrateSharedRelationsToHubOutbox` write
   the marker `in_progress` and read it back with `sharedUpgradeMigrationState`
   (`sqlitestore/task_execution_locality_migration.go:211`), which accepts
   `copied` and `complete` only. A crash inside either leaves a Gateway that no
   later start opens (`migrations_interrupted`).

### Known limits of the code

Shown by TLC while modelling. The properties of the runs are stated so that each
of these is the only exception they make:

* *Queue.* A retry in the window between the terminal status and the release of
  the Operation (`service/durable_mutation_mutation_execution.go:36`) is dropped
  by the worker that takes it and stays accepted until a restart. A prompt that a
  crash interrupts is sent again (`durable_mutation_mutation_worker.go:91`
  "retry is idempotent", against `docs/BEHAVIOR_CONTRACT.md:46`). A terminal
  record whose row was not updated before a crash keeps a stale row. A verification
  is retried beside an open attempt of its own identity when an attempt of another
  identity came later and has ended (lines 450-518, against the comment at 457);
  `VerifyChain` excepts these (`Overtaken`).
* *Shared store.* A Rule or ADR edit that repeats an earlier one, after another
  undid it, is acknowledged and not committed. A content revision can overtake a
  status event committed between its status query and its batch; the event chain
  no longer agrees with the row and later events are refused
  (`sqlitestore/shared_lifecycle_event.go:309`). `ChainAgrees` excepts exactly the
  entities that were overtaken. Of two concurrent Milestone mutations by one
  handler that read the same revision the second is acknowledged with the first
  one's revision and its edit is lost: the operation identity is the handler, the
  Milestone and the revision (`service/milestone_lifecycle.go:221`,
  `milestone_membership.go:109`), and an identity that is already in the outbox
  is answered with the payload it has there
  (`sqlitestore/shared_lifecycle_revision.go:49`). `AnswersAreTrue` excepts
  exactly these twins (`MadeByTwin`).
* *Hub.* The acceptance of a Track keeps the revision and is refused for ever
  (`service/shared_outbox_worker.go:402`). A retried Rule, ADR or Milestone row
  overwrites its successor (lines 355, 547, 576); `NeverRegresses` is stated for
  Tasks and Tracks. A configuration row overtaken by a newer one never publishes.
* *Task execution.* Two integrate requests for one Task can land it twice
  (`service/task_execution_integrate.go:213`), and one of the landings is then
  never recorded; `LandingRecoverable` excepts exactly that (`RequestedTwice`). A
  Task whose controlled rebase failed (`task_execution_reconcile.go:37`) and that
  is taken back to stage `code` (`task_execution_review.go:247`) can submit a
  candidate built on an older commit than its row's base: the submission, the
  review and the admission of the verification (`task_execution_review.go:115`,
  190, `task_execution_verification.go:190`) do not ask for the ancestry, only the
  read of a review does (`task_execution_review_ancestry.go:86`). The push then
  lands a tree without the foreign commits in between; `ReviewedReceipts`
  excepts such Tasks (`Strayed`). A
  controlled rebase gives a Worker a second actionable Task
  (`task_execution_reconcile.go:40`). A crash between the creation of the lane and
  the row leaves a worktree that a later dispatch refuses
  (`task_execution_lifecycle.go:91`).
* *Planning.* `track/archive` is refused always: it commits with the event kind
  that rejects `archived` (`sqlitestore/shared_lifecycle_status_policy.go:65`,
  `mcp/generic_track_actions.go:434`). Two creates or appends can put a Task in
  two open Tracks (`service/track_lifecycle.go:110`) and a Milestone can close
  beside an open Track (line 97); the scans read one page of 256. A dispatched
  Task can be removed from its Track when the dispatch was not recorded
  (`task_execution_lifecycle.go:64`).
* *Local authority.* Two attaches can leave two active Sessions of one role
  (`service/session_attach.go:39`). A stale `AgentUpdate` re-enables a disabled
  Agent (`agent_registry.go:122`). Two registrations can share a relay
  (`agent_register.go:73`). The binding file is rewritten without a lock
  (`config/config.go:228`).
* *Agent turns.* A crash between the allocation of an epoch's Operation and its
  file leaves the epoch pending, which blocks the retirement of the project
  (`service/project_retirement.go:643`). A crash between the relay's interrupt or
  prompt and the receipt repeats it. A plain tail drops the backlog an earlier
  read announced. Lines that repeat, content by content, the end of the snapshot an
  observer saw last are taken for it and never shown to it
  (`service/agent_transcript.go:209`); `TailLossIsReported` excepts these
  (`Repeated`).
* *Project lifecycle.* A crash or lost comparison between `projectRegister` and
  `ProjectIdentifiersAdopt` leaves a Hub project without identifiers, and a
  concurrent onboarding's rollback removes a project another one registered
  (`service/bootstrap.go:427`). Two hosts that retire a project independently stay
  in conflict. `PutSharedProjection` compares with `>=`, so a Hub entity can replace
  a local edit of the same revision. `config.Restore` writes back the whole file
  that an update read first (`config/config.go:316`,
  `service/project_update.go:117`): when two updates of different configured
  projects overlap on one host, the compensation of one takes back the other, which
  has been answered. A Hub error after the push restores the file and leaves the new
  code on the Hub, and the error of a file that cannot be put back after a Hub error
  is dropped (`service/project_update.go:116-118`): both answer a plain failure over
  stores that differ, which `CodesAgree` excepts (`Misreported`). An update changes
  the configuration file of its own host only; the other hosts keep the old code. A
  restore that is cut short after its entities leaves the next number behind them
  until the onboarding is repeated.
* *Deployment.* A controller killed between the fork and the PID record leaves a
  Gateway nobody owns (`controller/lifecycle.go:63`). An upgrade replaces
  artifacts outside `controller.lock` (`upgrade/upgrade_runner.go:199`);
  `WayBackSound` excepts that overlap (`overlap`). A recovery restores only
  `gatewayd` and the two databases one after the other. A debug activation killed
  in its worker keeps a receipt in progress.
* *Migrations.* The first start fails when a Task needs both a summary and a
  priority, and succeeds when repeated.
* *Inspection.* A full table of handles (65536, never emptied) makes the code
  actions return a truncated page without a cursor, while lists and logs report
  an error. A `CodeTree` whose single path exceeds the budget indexes below the
  list (`local_code_inspection_tree_worktree_core.go:224`). A row updated during a
  walk moves to the front and is missed; a rotation during a log read can list
  events twice.

## 7. Abstractions

Contents are values of fields, requests stand for the bytes of their input, a
payload is its revision, status, content and author. Validation of texts, names and
sizes is left out: every request is well formed. Digests are injective, except the
compact handles of `Inspection`. Times are an order. A SQLite batch is atomic and a
record is replaced by an atomic rename, as the code relies on. A commit of the Hub
is a number, and other Gateways push to other paths. `rule` in `HubOutbox` stands
for the three publishers with the same body. A transcript is snapshotted without its
trailing blank lines (`agent_transcript.go:39`), which the model takes as not
printed yet. No project is the Gateway's own, whose configuration has a second
migration marker. A build is a number, and a database holds the last build that
migrated it. The header of each module lists what else it leaves out.

## 8. Not modelled

* `actioncontract` and the MCP schemas: a compiler from schemas to schemas, whose
  result is text; the limits it enforces are input validation. The `mcp` handlers
  that hold logic of their own (sessions, tails, tracks, messages) are modelled.
* Git, relay and host adapters, gates and integration hooks: input and output.
  Their failures and answers are actions of the modules that call them.
* Command line tools; the systemd unit of the daemon; the codec of tail cursors.
* Rendering of a Milestone's plan, `StateCheck`, doctor and status reports: read-only
  and about layout.
* `PlanCutover`: a one-off import of planning data.
* In Task execution: `ensureNoInFlightWorkerTurn` and the idle check of the Worker
  (questions to the relay, answered either way), the semantic proofs of TSK688,
  the synchronization of the integration checkout, and a write-ahead capture that
  cannot be read back.
* In the Local authority: the relay prompt that announces a message.
* In the project lifecycle: the cache of the workflow policy; the request
  `debug/project-configuration-migrate`, by which an operator ends the deferral;
  the check of the state after a synchronization (`StateCheck`, in
  `src/cmd/gpt-tunnel-gatewayd/main.go:278`), which reads only and can have the
  synchronization repeated.
* `gpt-tunnelctl install` (`src/cmd/gpt-tunnelctl/main_startup.go:150`), which copies
  three binaries and takes no lock: it is how an operator installs the Gateway
  before there is one. `WayBackSound` assumes that nobody runs it beside a cutover.
* Publishers of Relations and Journals: rows that are written once and never
  change.

## 9. How to run

`tlc -workers 2 -config X.cfg MCY` checks a run, `tlapm Y.tla` a proof module;
`PROJECT.json` names the module of each configuration. The runs take from six
seconds to three and a half minutes. From nothing, the proofs of `ProjectLifecycle` take
about twenty minutes, those of `TaskExecution` six to seven, those of `HubOutbox`
and `LocalAuthority` together four to five, those of `Deployment` and `AgentTurns`
three to five each, the others less.

## 10. Plan

1. `Migrations`: `UpgradeLosesNothing`, from an invariant that says per marker
   which rows have been rewritten.
2. Composition: `Planning` over the rows of `SharedLifecycle`, and
   `ProjectLifecycle`'s Hub step as a theorem about `HubOutbox`.
