# TLA+ models of Factory Floor

Factory Floor is a durable runtime for reactive graphs of components. A control
plane keeps its whole state in PostgreSQL and its artifacts in a blob store; workers
claim executions over HTTP, renew a lease while they work and hand back a proposed
result; the control plane decides the result in one transaction, routes its outputs
downstream and survives a crash at any point through a recovery run at startup.
Operators watch and cancel runs, also from a Discord Activity; templates are
instantiated into running topologies; one worker component applies reviewed changes to
a repository. This directory holds TLA+ modules of that machinery, the TLC
configurations that check them and the TLAPS proofs about them.

Source paths below are relative to `src/`; `runtime-core` is
`packages/runtime-core/src`.

## Inventory

| Component | State | Operations | What makes it correct | Where |
|---|---|---|---|---|
| Commands and routing (`runtime-core/commands`, `routing`) | `commands`, `deliveries` | accept or replay a command; one delivery per bound port | a replay inserts nothing; every binding gets exactly one delivery | `ExecutionLifecycle` (insertion), `TopologyContract` (routes) |
| Scheduler (`runtime-core/scheduling/scheduler-service.ts`) | `executions`, `execution_inputs`, `execution_attempts`, lease columns of `deliveries` | poll: join, admit, lease, defer | leases cohere, attempts do not overlap, polls fail for a late optional input only, ready work is taken | `ExecutionLifecycle` |
| Resource admission (`scheduling/resource-admission-service.ts`, triggers) | `resource_budgets`, `resource_reservations`, `resource_ledger` | reserve, reconcile, release, configure | no budget row is overdrawn, the rows of a tree agree, no unit leaks | `ResourceAdmission` (tree, documents), `ExecutionLifecycle` (one budget, with the executions) |
| Worker protocol (`worker/worker-protocol-service.ts`) | attempt leases, `worker_result_submissions`, uploads | heartbeat, submit a result, stage, upload | a late or stale worker changes nothing | `ExecutionLifecycle` (leases, results), `ArtifactPublication` (uploads) |
| Result commit (`commit/execution-commit-service.ts`) | all of the above, outputs, artifacts, events | complete, retry, dead-letter, refuse | outputs once per execution; terminal rows final; published bytes exist | `ExecutionLifecycle`, `ArtifactPublication`, `OperatorRuns` (its locks) |
| Startup recovery (`observability/recovery-service.ts`) | none of its own | commit results, abandon, expose, settle, reconcile | no expired attempt survives, no durable result is lost, recovery can be repeated | `ExecutionLifecycle`, `ExternalActions`, `ArtifactPublication` |
| External actions (`external-actions`), approvals | `external_actions`, attempts, approvals | approve, dispatch, reconcile, settle | one draft per action, none without authority; a decision is taken once | `ExternalActions` |
| Artifact store and publication (`packages/artifact-store`, `runtime-core/artifacts`) | `artifacts`, `artifact_staging`, blobs | stage, verify, promote, reconcile, sweep | committed metadata keeps its bytes; a registered upload is not swept | `ArtifactPublication` |
| Worker SDKs (`packages/worker-sdk-ts`, `worker-sdk-py`) | claimed attempts, requests | claim loop, heartbeat, submit with retries, stop | one result per attempt; nothing sent after the lease is lost; a stop ends | `WorkerRunner` |
| Systems and templates (`runtime-core/systems`, `registration`) | definitions, regions, topologies, requests, seeded state | register, apply a document, instantiate | publication is atomic, final and answered once; what is published can run | `TemplateInstantiation`, `TopologyContract` |
| Repository tasks (`runtime-core/repository-task`) | a graph of operations, worktrees, child processes | plan, compile, apply, verify, answer | the patch is what was reviewed; evidence tells how far it came; a task is answered | `RepositoryTaskPlan`, `RepositoryTask` |
| Operator commands and queries (`runtime-core/operator`, `inspection`), operator client | command rows; pages, cursors | cancel a run; status, topology, trace, lists | a cancellation leaves no open work; answers lag only while they show open work; cursors miss nothing | `OperatorRuns`, `ExternalActions` (`Decide`) |
| Activity sessions (`apps/control-plane/src/activity-session-service.ts`, `apps/discord-activity`) | bindings, sessions; the browser's controller | create or join, refresh, revoke, resolve; timers, retry, leave | an active browser holds a live token; credentials do not come back | `ActivitySession` |
| Capability invocation, projections, contracts, scripts | - | - | - | not modelled (below) |

Components meet in the database: every service method is one or a few transactions
over shared rows; triggers carry some updates across tables (a heartbeat's expiry to
the input deliveries, an execution's end to its reservation). There are no
in-memory queues between them. What is hard is therefore the interleaving of
transactions of polls, workers, operators and recovery, a crash between two of them,
answers that arrive late or twice, leases that expire in the middle, and what shares
no transaction with the database: blobs, worktrees, the provider of external actions,
browsers. PROJECT.json lists these hazards, each at its line.

## Modules

| Module | Content |
|---|---|
| `ExecutionLifecycle` | the execution core of one region: deliveries, executions, attempts, submissions, reservations |
| `DeliveryLedger` | abstract specification: what the owner of a delivery is promised |
| `ExecutionLedger` | refinement mapping from the core to the ledger |
| `ResourceAdmission` | budgets of a tree of regions, reservations, usage, and the documents that replace budgets |
| `ExternalActions` | approvals, dispatch, answers and reconciliation of external actions against a provider |
| `ArtifactPublication` | places, uploads, submissions, promotion and reconciliation over a database and a blob store |
| `WorkerRunner` | a TypeScript or Python worker process against the worker protocol |
| `TopologyContract` | what a template must satisfy, what routing and the scheduler make of it |
| `TemplateInstantiation` | concurrent calls that register, apply and instantiate, statement by statement |
| `RepositoryTaskPlan` | planner, compiler, recipe and preflight of repository tasks, as operators |
| `RepositoryTask` | the component and the executor that apply and verify a compiled plan |
| `OperatorRuns` | a run under commits, cancellations and readers, lock by lock |
| `ActivitySession` | the server's and the browsers' side of Activity sessions |
| `MC...` | topologies, documents, requests and other small instances for TLC |
| `Systems_proofs` | inductive invariants and theorems of `TemplateInstantiation`, `TopologyContract` and `ResourceAdmission`, which the application of a system document brings together |
| other `..._proofs` | inductive invariants and theorems of the module they are named for |

The modules meet as follows. `ExecutionLifecycle` is the centre; the others refine one
of its steps or take up what it abstracts. `Ask`/`Reserve` of `ResourceAdmission` is what
`Admitted` of the core does in one step for a single budget, and its `Reconcile` is what
`Settle` of `ExternalActions` calls. `ArtifactPublication` splits the submission and the
commit of a result into their statements and adds the bytes; an attempt there is only
active or not. `WorkerRunner` is the worker that the core lets do anything; its
attempts have the statuses that answer its requests. `OperatorRuns` splits `CancelRun` and the commit
into their locks. `TopologyContract` gives the `Expected`, `Ingress` and `Routes` that are
constants of the core, and says which verdict `TemplateInstantiation` takes as a constant
(`Invalid`). `RepositoryTask` extends `RepositoryTaskPlan`.

### ExecutionLifecycle

A state is the content of the tables plus what the control-plane process is doing
(`phase`, `todo`). `del`, `exe`, `att`, `sub`, `out`, `resv` are `deliveries`,
`executions` with `execution_inputs`, `execution_attempts`,
`worker_result_submissions`, `execution_outputs` and `resource_reservations`;
`region` and `epoch` are the region's lifecycle status and epoch.

Each action is one transaction. They hold row locks to the end and re-read after
waiting, so the model lets them happen one after the other.

| Action | Code |
|---|---|
| `SubmitCommand` | `CommandService.submit` with `RoutingService.routeCommand` |
| `LeaseNextAttempt` (`LeaseFirstAttempt`, `LeaseRetry`, `PollFindsNothing`) | `ExecutionLeaseService.leaseNextAttempt`: the groups tried before are deferred, then one is leased, or none |
| `Heartbeat` | `WorkerProtocolService.heartbeat` and the lease-coherence trigger |
| `HandOffResult` | first transaction of `submitResult` |
| `CommitSubmittedResult` (`Complete`, `ScheduleRetry`, `DeadLetter`, `RejectSubmission`) | second transaction, `ExecutionCommitService.commitSubmittedResult` |
| `CancelRun` | `OperatorCommandService.cancelRun` |
| `RequestRegionCancellation` | the administrator's update of `regions.lifecycle_status` |
| `Crash`, `Restart` | the process dies; `StartupRecoveryService.run` begins |
| `RecoverSubmission`, `RecoveryAborts` | its loop over pending submissions |
| `ScanExpiredAttempts`, `AbandonAndReplace`, `AbandonAndFail`, `EndAbandoning` | its loop over expired attempts, a transaction each |
| `ExposeOrphanedDeliveries`, `SettleCancellingRegion`, `FinishRecovery` | its last steps, then the server listens |
| `Tick` | time |

Abstractions, and why they lose nothing the properties tell apart:

- A timestamp is the number of ticks until it is reached. Recovery reads the clock
  once, so no tick falls inside it.
- An execution is named by its trigger delivery (`executions.delivery_id` is unique)
  and a lease token by its attempt (an attempt is leased once, tokens are random).
- A new delivery takes any unused id: UUIDv7 ids are random within a millisecond.
- A poll examines candidates oldest first, up to a limit. The model lets it defer any
  set of groups that cannot be leased and lease any group that can.
- A completed result publishes any number of artifacts (`Emissions`): a worker may stage
  none, one or several for a port, and each is routed to where the port leads. The choice
  includes outcomes the code cannot produce where one port is wired to several inputs
  (some of them left out), which only strengthens the safety properties.
- A result is the way it ends: `completed`, `retryable`, `failed`, `cancelled`, or
  `invalid` for whatever a validator refuses. Payloads, events, state
  and resource usage are left out; artifacts are in `ArtifactPublication`.
- One region; every port a delivery names is declared (routing and topology
  validation guarantee it). The idempotency row of an operator command is left out.
- `ExposeOrphanedDeliveries` is kept although it changes nothing in reachable states:
  `LeaseCoherence` and the step before it leave no orphan.

### DeliveryLedger

A delivery is accepted, then consumed by exactly one published output together with
the deliveries it was joined with, or given up for good (dead-lettered, cancelled).
What an output routes downstream becomes open in the same step. Executions, attempts,
leases, retries, crashes and recovery are stutters of this specification; that is the
claim "at-least-once attempts, one outcome" of `docs/reference/runtime-contract.md`.

### ResourceAdmission

`budget` is `resource_budgets` by id, `charged` and `status` the rows of
`resource_reservations` with the request's idempotency key, `ledger` the requests with a
row of usage. `reserveInTransaction` is two steps. `Ask` is the statement that finds the
active budgets of the region and its ancestors; it takes their row locks and may wait
for a transaction that has them. `Reserve`, `AdmitUnbudgeted` or `Refuse` is what the
call does once it has the locks. PostgreSQL runs it under read committed: when the wait
is over, rows that no longer match are dropped and rows inserted since are not seen, so
`Locked` is the found rows that are still active. Everything else is one transaction:
`Release` (the trigger at an execution's end), `Reconcile`
(`ResourceAdmissionService.reconcile`) and `Apply`
(`configureRegionBudgetsInTransaction` for each region of a document, in the transaction
of `SystemApplicationService.applyOnce`).

- A request asks for one unit, as both callers do. An earlier reservation of its key
  would be answered at once, and is; an execution admitted without a reservation asks
  again for each retry.
- Regions are a root and its children, the depth that documents can declare under one
  installation. A document is a function from scopes to limits; a scope it declares
  without a limit is `Unlimited`.
- `Breaks` is a conversion that fails: a sum of `numeric(38,12)` is text with a fraction,
  which `BigInt` refuses.
- `release()` of the service is not modelled: nothing calls it. The audit rows
  of decisions are left out.

### ExternalActions

A call of `ExternalActionService` is an actor that goes through `dispatch` (look for an
open draft), `create` (wait for a new one), `record` (`persistResult`), `settle`
(`reconcileNetworkReservation`), or through `reconcile` (look only), `record`, `settle`.
The database transactions are `PrepareDispatch`, `CancelStale`, `RecordAnswer` (or
`AnswerTooLate`) and `Settle`; a caller of `ReconcilePending` visits the oldest uncertain
actions of its batch one after the other. `EndCall` is an error or a crash
of the process, between any two steps. The provider is the code's use of
GitHub: `wire` holds requests to create a draft that may be executed at any later time
or never, `open` the drafts a lookup finds. It is not assumed to refuse a second draft.

- Actions begin authorized or waiting for their approval; how they are proposed and
  evaluated by policy is left out.
- One budget of network calls stands for the tree, which is `ResourceAdmission`'s.
- Worth knowing when reading the service: a lookup that the provider refuses (4xx)
  records `failed` even for an action whose draft exists
  (`github-draft-pr-adapter.ts:222-228`, `282-285`); an acknowledged action whose draft
  has been merged or closed becomes indeterminate when it is looked up again; a crash
  before `Settle` leaves the reservation reserved, which keeps the call counted. The
  model has all three.

### ArtifactPublication

`upload`, `row`, `artifacts`, `submission` and `attempt`/`lease` are the tables
`worker_artifact_uploads`, `artifact_staging`, `artifacts`,
`worker_result_submissions` and `execution_attempts`; `blob` is the staged objects and
`committed` the digests with committed bytes. `up`, `req`, `job` and `batch` are the
requests and the reconciliation under way: they are lost in a `Crash`, the tables and the
store are not.

| Action | Code |
|---|---|
| `Stage`, `Heartbeat` | places are asked for, the lease is renewed (`worker-protocol-service.ts`) |
| `Authorize`, `Write`, `Register` | an upload: checked, streamed to the store, checked again and inserted |
| `Submit`, `Handoff`, `ReadSubmission`, `Commit`, `Withdraw` | the transactions of `submitResult` and of the commit; a refused result withdraws its row |
| `NextPromotion`, `Publish`, `Unstage`, `MarkPromoted` | `promoteCommittedArtifacts`, object by object; a directory promotes by link, unlink and removal of the parts |
| `RunBatch`, `CheckArtifact`, `ListRows`, `CheckRow`, `AbandonRow`, `ListObjects`, `CheckObject`, `FinishBatch`, `FailBatch` | `ArtifactReconciliationService.reconcile`, statement by statement, at startup or by the maintenance command |
| `CommitSubmitted`, `AbandonExpired` | what a start does before it reconciles |
| `Fence` | an operator's cancellation or a new epoch of the region |

A digest stands for the bytes, so a digest mismatch cannot occur; uploads that fail the
check leave nothing. The assumption `Lease <= Grace + 1` is the relation between the lease
duration and `orphanGraceSeconds` that the defaults have; the maintenance command accepts a
grace of 0, with which an upload under way can be swept.

### WorkerRunner

`sdk` is chosen by `Init`, so that one module and one run cover both programs; where they
differ a definition has two branches (`AbortTs`, `AbortPy`, `Tries`, `Draining`).
`work[a]` is the task for an attempt, `call[c]` the request that the claim loop, a
heartbeat loop or a task waits for; `late` holds requests whose client has given up and
which the server may still handle. `Serve` is the control plane answering (the
guards of `worker-protocol-service.ts`), `Deliver` the answer being handled, `TryFails` a
lost request, a lost answer or a timeout, followed by the client's bounded retry.
`EndAttempt` is everything that ends an attempt under its worker. The components are
external: they end when they like. Heartbeats and observations may answer "cancel" at any
time: the region's status and epoch have no variable here, so that a region being cancelled
is a choice of the server. `Fenced` says whether the client answers claims after a stop
itself, as the one of the demo worker does (`workers/demo-ts/src/index.ts:229`); the run
takes the plain client of the repository-task worker. `run(signal)` also takes an
`AbortSignal`; no program of the repository passes one, and it is not modelled.

### TopologyContract and TemplateInstantiation

`TopologyContract` has two halves. `Rejections` is what `TemplateInstantiationService`
refuses, over documents with instances, connections, a boundary, ingress and fan-in rules.
`RouteCommand`, `Taken` and `Execute` are what routing and the scheduler do with the
stored topology. `JoinsFill` relates the two. The pure part of the service is here; which
of several reasons is reported first is left out. The names of its specification
(`TopologyInit`, `TopologySpec`) and of `ResourceAdmission`'s (`AdmissionInit`,
`AdmissionSpec`) are long because one module proves theorems about both.

`TemplateInstantiation` is the same service, the durable one and `SystemApplicationService`
as transactions. `rows` are the committed rows of eight tables under one function of
keys, `draft[c]` what the open transaction of a call has inserted, `locked[c]` the
artifact rows it has locked. An action is a statement: it waits while another transaction
holds what it wants (`WaitsFor`), it meets a committed key with `Violate` (abort, and one
retry in all), and a cycle of waits is ended by `Deadlock`. `Lose` is a lost
connection or answer. Calls ask for the same region, request id and
seed values in different orders.

### RepositoryTaskPlan and RepositoryTask

`RepositoryTaskPlan` has no variables: `PlanDiagnostics`, `ProfileDiagnostics`,
`AgainstProfile`, `Resolve`, `Compile`, `GraphRefusal`, `Preflight`, `Applied` and
`Difference` are the checks and the computations of the planner and of the executor in
their order, over paths as sequences of segments and contents that keep only the names
a file declares and the modules it re-exports, which is what the recipe looks at. `Ordered`
states Kahn's order instead of computing it: each operation is the first by id of those
whose dependencies precede it. `RepositoryTask` is the component: `Claim`, `CheckBefore`,
`CheckGraph`, `AddWorktree`, `CheckTargets`, `Apply`, `StartStage`, `StageCloses`, `Cleanup`,
`CheckAfter` are its steps; `TimerFires`, `ChildExits`, `DescendantsEnd`, `StageWrites` the
stage processes; `Land` and `Edit` the repository's owner; `Crash` a killed worker.

- `close` of a child waits for whoever holds its output streams, and SIGKILL reaches the
  direct child only (`apply-verify-service.ts:657-661`). So there are two kinds of
  descendants. One that holds the streams keeps the stage, and with it the answer, back for
  as long as it likes (`stage.held`, `Closed`). One that was detached, with streams of its
  own, delays nothing: it has no state in the model, and what it does is `StageWrites`, which
  may happen from the first stage on, between stages and during later ones, as long as
  the task has a worktree. After that it has nothing to write to, although it may run on
  (disagreement 10).
- A path of a worktree is a file, absent, a directory, or behind a symbolic link, and
  `TargetRefusal` has the four refusals of the preflight. A request's snapshot holds files.
- `Difference` is the exact difference of two trees. `git add -A` leaves out ignored paths
  and applies the filters of `.gitattributes`, and the patch text is trimmed
  (`apply-verify-service.ts:828-835`); targets that a repository ignores or filters are
  outside the model.
- Dry runs, YAML parsing and the replay of a serialized graph are not modelled. The
  evidence is its statuses; log digests and sizes are not.

### OperatorRuns

One run and its region, with the locks of the two transactions that meet in it. `commit[d]`
and `cancel[r]` are how far a commit and a cancellation have come. `LockExecution` and
`LockRegion` are the commit's locks; `BeginCancel`, `HoldRegion`, `CollectDeliveries`,
`EndCancel` those of `cancelRun`. `commands.region_id` and `events.region_id` are foreign
keys (`001_initial.ts:30`), so the command that a cancellation inserts takes the region
FOR KEY SHARE, which conflicts with the commit's FOR UPDATE: the two serialize there, and
a cancellation cannot overlook a delivery that a commit routes. The later locks of
the two are in opposite orders; `AbortCommit` and `AbortCancel` are the deadlock
that Postgres breaks. `ReadDeliveries`, `ReadExecutions`, `ReadEvents` are the statements of
an answer, each with its own snapshot; `StartPass`, `Page`, `ReadAlerts`, `PageOfAlerts` a
client that reads a list page by page.

Three assumptions bound what it says. The run has one command: a caller may choose the
correlation of a command (`apps/control-plane/src/routes/commands.ts:49`), and
the acceptance of a second command into the same run holds the region FOR KEY SHARE only,
and makes its event id before it waits (`events/event-service.ts:43`), so nothing orders that
event against those of a commit. Event ids come from a clock that moves with every id: `createUuidV7`
(`packages/db/src/ids.ts:5`) takes milliseconds of the host and random bits, so two events of one
millisecond, or a clock set back, are outside it. And no component joins inputs: the joined
deliveries of an execution share the execution of their trigger
(`run-scoped-operator-query-service.ts:108-131`), where here each delivery has its own.

Alerts are those of deliveries, executions and approvals; blocked regions, budgets and
stale projections are left out, as are the row limits of trace and topology and
`getRunDetails`.

### ActivitySession

`binding` and `session` are the tables; `join` is a participant's session request at the
server; `view` and `controller` are the browser. `FindBinding`, `InsertBinding`,
`CreateSession` are the statements of `createOrJoinSession`; `LockSession`, `RotateToken`,
`RevokeSession` those of refresh and revocation; `Start`, `FireTimer`, `Online`,
`RefreshNow`, `ReceiveRefresh`, `FailRefresh`, `Leave`, `Unmount` the controller
(`apps/discord-activity/src/session.ts`). `calls` are requests of browsers; `LeavesStray` is
a failed fetch whose request reaches the server all the same. A token is a number nobody
else holds; 0 is the empty string a controller scrubs it to.

## Runs

| Run | Instance | Shows |
|---|---|---|
| `Pipeline` | two components in line, one command, 2 deliveries, lease of 2 ticks, 2 attempts, 2 crashes, fairness | leases cohere, attempts follow each other, a handed-off result is decided and its rows settle, ready work is taken |
| `FanIn` | a port that joins 2 of up to 3 deliveries beside an optional port that expects 1, another component, a budget of 2; 3 commands, 1 crash; results that complete or are cancelled: 252,575 states | an input is consumed once, a running execution can be resumed unless it was outgrown, polls fail for a late input only, refinement of the ledger |
| `ResourceAdmission` | a root and a child, executions and network calls, four requests, four documents of which three are applied, 5 row ids | no row is overdrawn, the tree stays well formed |
| `ExternalActions` | three actions, two of them under one approval, two callers, a budget of 2, batches of 2 | one draft, every effect known, true acknowledgements, decisions followed |
| `ArtifactPublication` | one attempt, one content, one place, an upload and a submission at a time, a directory or a bucket; 2 ticks, 2 crashes, 1 fault of the store, fairness | committed bytes and registered bytes are kept, a start repairs |
| `WorkerRunner` | one attempt, both SDKs with the plain client, lease of 4 ticks, 1 retry, 2 faults, fairness | one result per attempt, only faults orphan one, nothing sent after an abort (TypeScript), a stop ends |
| `TopologyContract` | two workers and a join, up to eight wires, one fan-in rule, four ingresses, two allow-lists: 88,076 states | every published join gets what it waits for |
| `TemplateInstantiation` | two callers over eight requests, 36 databases, one lost call, fairness | publication is whole and final, answers belong to their request, every call is answered |
| `RepositoryTask` | two tasks, two revisions, two stages, 1 crash, fairness: 142,974 states | the patch is the reviewed one, evidence is complete, every task is answered unless a descendant holds the output of its stage |
| `RecipePlan` | one task; every deviation of plan, profile, snapshot and identity, one at a time; targets that are directories or behind links | compiler and executor agree on what may be refused, the recipe is stable |
| `OperatorRuns` | two deliveries, one request sent twice, two artifacts, pages of 1, two failures; deadlock checked | a cancellation is complete, answers lag only while they show open work, cursors miss nothing, pages add up |
| `ActivitySession` | two participants, session of 4, idle of 2, binding of 5 ticks, 1 stray request, fairness: 209,664 states | an active browser is authorised, sessions belong to the binding, scrubbed tokens stay scrubbed, a dead session is noticed |

Bounds are constants: those named `Max...` bound the environment, the sets of ids bound the
rows. Two crashes are enough to crash recovery and recover from it;
two attempts to retry and to run out of retries; two ticks of lease to let a heartbeat
renew a lease that has already aged. `MAX_ATTEMPTS` is 4 and the backoff list has three
entries in the code: the last of both is what matters and both are parameters.
In `FanIn` the optional port expects one delivery and the third delivery may be for it, so it
can come before, with or after the two that are joined, and with a higher or a lower id: a crash
makes an execution of two inputs ready again, and the next poll finds three. A budget of two
lets the larger execution start while the first still holds its unit, which is when it
takes the inputs away.
`MaxApplies` is 3, so that a budget can be replaced, withdrawn and declared again; five
ids suffice for the rows this makes. Two callers make dispatches, reconciliations and
late answers overlap; of three actions two share an approval, and with a batch of 2 and
a budget of 2 one action is always left out. One place and one content let an upload, a
submission, a promotion and a batch meet in the same object, which is where they can
go wrong. A lease of 4 ticks lets the heartbeat interval of both SDKs pass and a request
use up all its tries before the lease ends. In `ActivitySession` the idle time ends before
the session and the session before the binding, as in the code, and each can be reached. Two callers suffice
for every pair of statements; three are discussed below. Deadlock
checking is off where a system that has used up its bounds stops, and on in
`OperatorRuns`, where the client can always read again.

Fairness. In the core (`Fairness`): time passes; a supervisor restarts the process
and recovery runs on unless it dies again; idle workers poll every 250 ms and the
oldest work comes first, so each group that stays leasable is leased; a worker whose
submission is not answered repeats it, so a pending result is committed. Nothing is
assumed of a worker that holds a lease: it may stay silent for ever. The liveness
properties of `Pipeline` are checked with results that can be settled (`SettledResults`),
because a cancelled result blocks recovery (below). In `ArtifactPublication` a request, a
batch and a start go on; workers, operators and the clock need not. In `WorkerRunner` the
event loop runs what is due and the server handles what it has; a component of the
Python SDK need not end, one of the TypeScript SDK does, since its runner has no
deadline of its own for it. In `TemplateInstantiation` transactions run on and the
database finds deadlocks. In `ActivitySession` time passes, the server handles what reaches it, timers
fire and a fetch ends, in an answer or an error; no request is assumed to succeed. In `RepositoryTask`
the worker goes on, a killed one is replaced, and time passes; nothing obliges a stage, or
what it leaves behind, to end. `OperatorRuns` states safety only: nothing makes a client go on.

## Disagreements between code and documents

Met while modelling. The first group was reached by TLC, as a counterexample of a property
or as a state of a run; the runs that remain are those that hold, so these are given in words,
with the line where the code does it.

1. A result with status `cancelled`: the contract allows it (`docs/reference/runtime-contract.md:61`, `:101`);
   committing it (`execution-commit-service.ts:958`) violates
   `execution_attempts_failed_failure_check`, the submission stays pending
   and every later startup fails on it (`RecoveryAborts` in the core).
2. An optional input that comes late breaks a join that waits for its retry
   (`scheduler-service.ts:220-229`; `runtime-contract.md:40`). The poll selects it
   with the inputs of the execution. When the trigger stays the same, the set has another
   digest and the insert meets the unique trigger of the execution
   (`scheduler-service.ts:271-317`): that poll throws, and so does every poll that reaches
   the candidate before another it can lease. When the late input sorts first it is
   the trigger, a second execution takes the inputs, and the first is left running without
   an attempt that could end it, its reservation held. `FanIn` reaches both;
   `RunningIsResumable` and `PollFailsOnLateInput` say that nothing else has these effects.
3. With more pending results than one recovery batch of 100, recovery abandons attempts
   whose results are durable and undecided (`recovery-service.ts:95`).
4. A reservation that waits while a document replaces its budget finds
   none and is admitted without one, and units reserved from a replaced row are not
   counted against its successor (`resource-admission-service.ts:272`).
5. Once a network call has become usage, every later reservation under
   that budget throws (`resource-admission-service.ts:314`, against its own test at
   `resource-admission-service.test.ts:44`).
6. An uncertain action is looked up but never retried, so one that was
   never sent stays uncertain for ever (`external-action-service.ts:214`;
   `runtime-contract.md:95`).
7. A commit addresses the submission by attempt, not by digest: a request that waited may
   commit, and be answered with, the different result of another one
   (`execution-commit-service.ts:148`; `docs/reference/worker-protocol-v1.md:17`).
8. The Python runner submits a result although the task has learnt that its lease is lost
   (`runner.py:291`; `packages/worker-sdk-py/README.md:37`). The server refuses it.
9. A directory object whose removal was cut short by a crash makes the listing of staged
   objects throw, so every later orphan sweep fails (`artifact-store/src/index.ts:385`).
   `ListThrows` and `FailBatch` model it.
10. The executor bounds each stage by a timer (`apply-verify-service.ts:658`) and
   removes the worktree after the last one. The timer kills the direct child only. A detached descendant
   writes to the worktree during later stages and survives the removal and the answer; a
   descendant that holds the output of its stage keeps the answer back for as long as it
   runs. The patch is safe from the first (`PatchIsReviewed`), the answer is not from the
   second (`EveryTaskIsAnswered` excepts it).
11. `getRunTopology` may answer with an execution and its `execution_delivery` relation whose
   delivery is not in the answer: deliveries are read first, executions and relations
   in later statements (`run-scoped-operator-query-service.ts:83-131`, `745-751`), and a
   delivery that is routed and leased in between is in the later ones only.
   `AnswersLagOnlyWhileOpen` says when: the answer then shows another delivery of the run open.

Read in the code, without a counterexample:

- Expired attempts are abandoned at startup only, as the contract says
  (`runtime-contract.md:81`). `ReadyWorkIsTaken` therefore holds in
  `Pipeline`, where nothing else competes for the budget, but not in general: a silent
  worker may hold the last unit of the budget while the process stays up.
- The contract says "three maximum attempts" where
  `recovery-service.ts:27` has 4; it lets cancellation increment the epoch and
  propagate to descendants, where `cancelRun` does neither and settlement of a region
  does not visit descendants; `app.ts` builds the recovery service without external
  actions, so a production startup does not reconcile them.
- Artifacts: a reconciliation batch of committed artifacts has a limit and no cursor, so
  rows whose bytes are gone hide those behind them (`StartRepairs` is checked with a batch
  as large as the artifacts); marking a row abandoned races with a commit that links it;
  a row whose bytes are committed already stays `staged`, and its staged object is
  never removed; sweeping orphans is safe only if the grace is at least the lease.
- Worker SDKs: a claim is retried although it is not idempotent, so a lost answer orphans
  an attempt until the next start; the inner claim loop of the TypeScript runner ignores
  `stop()`; the recommended heartbeat interval of the envelope is ignored there.
- Templates: three concurrent callers can exhaust the single retry; two that seed in
  opposite orders deadlock, which is answered as an internal error; initial-state artifacts
  are unique by digest, so another schema for the same value is refused; `expected` of a
  fan-in counts the connections of the boundary, so an ingress on an input that a connection
  also feeds overfills it, and the scheduler then defers its group for ever; two boundary
  connections of one input count twice (`template-instantiation-service.ts:668`) where the
  command delivers once per ingress (`:634`), so that join waits for ever; several optional
  inputs can overfill joins behind them. `JoinsFill` says under which conditions none of
  this happens: its hypotheses (`Fed`, `AllRequired`) are checks the service does not make.
- Repository tasks: the full compiler refuses an output that the recipe resolver accepts
  as a no-op; an unsorted profile compiles and is refused by the executor; the planner counts
  only outputs that are not evidence as files (`normalize-repository-task-plan.mjs:192`) and
  the executor counts every operation (`apply-verify-service.ts:444`), so a plan that
  declares an output of the recipe as evidence compiles and may be refused with
  `executor.max-files-exceeded`; the content limit
  is checked at compile time and the patch limit only after the application; the snapshot
  is never compared with the base except at the targets of operations; stages may change
  the worktree after the patch is taken; an identity that changed after execution drops
  patch and evidence; a crash leaves a registered worktree.
- Operator queries: ids of events are ordered among commits and cancellations of a region, which
  hold it while an id is made, but not among commands accepted into one run (above).
  Readers over all regions (the console stream, `listEvents`, the rebuild of projections)
  have no such protection: an event of one region may become visible behind a cursor that
  another region's event has moved. `NoEventIsMissed` is about the events of one run.
  A replayed cancellation receipt counts the work of all cancellations of the run; two
  concurrent rebuilds of projections meet in a unique key, and the second fails.
- Activity sessions: in the last minute before the absolute expiry the idle expiry equals it, so the
  refresh delay is 0 and the browser refreshes in a tight loop (`session.ts:152`); leaving
  during a refresh revokes the old token and the rotated session lives until its idle
  expiry; a lost refresh answer ends the session, because the retry has the old token;
  the renewal of a binding uses the time its request began, so its expiry may go back;
  a view that found its session expired is set ready right after (`app.tsx:128`);
  nothing calls the closing of an instance.

## Proofs

`InductiveInvariant` of the core is the conjunction of `TypeOK`, `ExecutionRows`,
`LeaseCoherence`, `AttemptChain`, `ProcessedOnce`, `AdmissionFollowsExecution`,
`ScanIsCurrent` and `RecoveryLeavesNoExpiredLease`. No single one is inductive. A commit
updates rows by
id: that the deliveries it completes are not already completed by another execution
follows from lease coherence; that the attempt it inserts is the next one follows from
the attempt chain; that the reservation it releases is there follows from admission;
that an open attempt has a running execution and inputs of one run is `ExecutionRows`;
and that recovery misses no expired attempt needs `todo` to be current.

`ExecutionLifecycle_proofs` proves that `Init` establishes the invariant and that
every action preserves it, one lemma per conjunct and within it one step per action, and derives the
theorems `TypeCorrectness`, `LeasesCohere`, `AttemptsFollowEachOther`, `OutputsOnce`,
`BudgetFollowsExecutions`, `RecoveryIsThorough` and `TerminalRowsAreFinal`.
Its theorem `LedgerIsImplemented` is the refinement: initial states map to initial
states, and each action to `Accept`, `Publish`, `GiveUp` or a stutter.
Three more theorems of it have a hypothesis, without which the property is false:

- `HandedOffIsDecided`: `[]BatchSuffices`, the pending submissions never outnumber one
  recovery batch (number 3 under the disagreements is what happens otherwise). While recovery
  runs nobody hands off a result, so what it has not read is what it still has to decide, and
  it abandons only when that is nothing.
- `RunningResumes` and `PollsFailOnLateInputOnly`: the topology is finite, since counting needs
  finite sets. Ports may be optional. `DriveInvariant` says of a running execution that on
  each required port it has exactly as many inputs as the port expects, and on an
  optional one as many or none (`WholeJoin`); that its inputs have one status and one due
  time (`InStep`); that an active attempt holds all the inputs of an execution or none of them
  (`HoldsWhole`); and that there is an open attempt, unless the execution is outgrown
  (`Drivable`). Then a group that selects one of its inputs selects all of them, since there is
  no room for another delivery on a filled port; what it may select besides lies on optional
  ports the execution had nothing on.

`CoreConsumesOnce` and `CoreDecidesOnce` draw the conclusion: what the ledger promises holds of
the core. Their lemma `LedgerStep` is about the ledger's actions alone.

`ArtifactPublication_proofs` proves that neither kind of artifact loses its bytes. The
places obey `PlaceOK`: a row that an artifact is linked to has its bytes in the
committed store, or whole in a staged object whose row is still staged. Two things remove
a staged object. A promotion does after it has put the object into place, and committed
objects are never removed (`JobOK`). The batch does when it found no row for an object older
than the grace period; since `Lease <= Grace + 1` that object is older than the authorization it
was written under, so that nobody can register it any more (`Gone`), even if the
transaction that would is already open. What a process has read stays
true until it acts, because rows, links, committed digests and the clock only advance
(`Advance`): the frame lemmas say so for every process that does not move, and each step is
left with its own. Marking a row abandoned rests on `CheckRowStep`: a row read without a whole
object was linked and promoted in the meantime, so nothing is lost with it.

`ExternalActions_proofs` proves `InductiveInvariant` of `ExternalActions` and derives its
safety properties. `AtMostOneDraft` needs `OneDispatcher`: one call at most is between
the transaction that marks an action dispatching and its request, because the
transaction wants the action authorized (`NoTraceBeforeDispatch`) and nothing makes it authorized
again; a reconciliation never creates. `AcknowledgedIsDone` needs `DraftsAreReal`, that
an answer under way speaks of a draft that was made. `CallsWithinBudget` needs
`CallsAreCounted`, that the ledger is exactly the settled reservations.

`OperatorRuns_proofs` proves all four properties of `OperatorRuns` for any number of
deliveries, requests, artifacts, retries and any page length. The invariant of the
writers (`WritersInv`) says how the rows agree (`RowsAgree`), that one commit or one
cancellation holds the region and what its locks keep still (`LocksAreHeld`), and that an id
that is made and not visible is above everything visible (`IdsAreOrdered`).
`CancelReachesEverything` is part of it. The invariant of the client
(`ClientInv`) says that what a cursor has passed was received; a new event cannot appear below a
cursor because its id was made while the region was held. `AnswerInv` says, for each statement of
an answer, what later states may still change of it; statuses only
move forward, and a read that shows no open delivery (`Settled`) is final, so that the later
statements agree with it: an answer that lacks something shows that the run goes on.

`WorkerRunner_proofs` counts. An attempt the server leased to a worker that knows nothing
of it (an orphan) and a claim that may still be answered too late were each paid for by a
fault, so orphans and late claims together are at most `faults`. What was
sent for an attempt is at most the outcome of its one task (`ClaimsAreNew`: what a claim
brings has no task yet), and a task of the TypeScript SDK that has been
aborted waits for no answer and sends nothing.

`ActivitySession_proofs` rests on three things. A binding outlives its sessions, because
`BindingTtl >= SessionTtl + JoinDelay` and a request renews the binding before it makes
the session. A browser waits for one refresh at a time and one transaction holds a
session's row. A replacement under way is the token the database knows, and then no other
request of that browser can replace it again, since every other one has an older token. So an
active browser that waits for nothing has the token the database has. A request that is
waited for carries the controller's token, and a scrubbed controller has none, so no
answer gives it one.

`Systems_proofs` has three parts that share no state. Of `TemplateInstantiation` it shows what the unique keys and their waits amount to. Rows
inserted by open transactions are apart from the committed ones and from each other
(`DraftsApart`). Most keys are apart because an insert waits for them; payloads, states and
links are inserted without waiting, and are apart because each comes with a row or a lock
another transaction has to wait for: its artifact, its revision, its request
(`DraftGuarded`). What a call sees is `Whole` except for the one topology it is publishing,
of which it has every seed it has passed (`PartlyPublished`); the last seed makes the whole
whole again, and only then is there a commit. Commits of others only add
rows, which keeps all of this. An answer is the caller's own because a recorded request
with the same digest has its topology in the active revision of the region, and revisions
are never replaced.

Of `TopologyContract` it proves that every join of an accepted template fills. The three
readers of a template are the fan-in check, the routes and the scheduler. `Waiting` counts:
until an instance has run, each of its inputs holds one delivery for each connection whose
source has delivered (`DoneInto`), and when it has run, all of them had. So an input holds at most as
many deliveries as connections lead to it, and exactly so many once the sources are done.
`ExpectedDeliveries` says that this is what the scheduler expects: a fan-in rule that
`InvalidFanIn` accepts names the number of connections, and without a rule there is one. That
an execution runs once per instance follows from `AllRequired`: a group is taken when all its inputs are
complete, and then none of them gets another delivery.

Of `ResourceAdmission` it proves that every row of the tree is respected. A decision
compares a limit with the usage in the budget's subtree and the units reserved from the row;
`UnitsConserved` bounds what is charged to it. The two are connected by
`ChargesFollowThePath` (who is charged to a row belongs to its subtree) and
`UsageIsRecorded` (a reservation that is no longer counted as reserved is counted as
usage). A new row starts without charges, since charges are to rows that exist. That a document leaves one active
row per scope, linked to the one above, rests on `ApplyMoves` and `ChosenRows`, which
say what the rows are afterwards.

`RepositoryTask_proofs` proves the four safety properties of repository tasks. Most of it is about
the operators of the plan, for any plan, profile and snapshot. When a compilation reports
nothing, none of its checks failed (`NoneFailed`), so the recipe proposes all three of its operations
(`AllProposed`: an output without one would be reported), on different paths, and the
order of the graph has each of them once (`OrderedOperations`: among the operations that are
left one always has its dependencies placed). What the executor checks of such a graph can then fail for three
reasons only (`RefusalReasons`). A patch taken of an accepted graph in a tree that passed the
preflight is the operations (`PatchOfReviewed`): each path differs from the base, since a file
to create is absent and a file to update still has the bytes that the update changes. And
applied to its own output the recipe finds every file as it wants it
(`RecipeLeavesAlone`). `TaskInvariant` carries this along the steps of a task: a task that has not
answered has an accepted plan and a base revision, which stays because revisions are only
added; until its operations are applied its checkout is the tree of that revision; a patch is the
reviewed one; the stages recorded so far all succeeded. Stages and what they leave behind may write what they like:
nothing that an answer carries is read from the checkout after the patch.

The theorems hold for every value of the constants under the assumptions of each
module. `AdmissionAssumption`: finitely many requests, documents that declare a
resource of a child for the root too. `ExternalActionAssumption`: finitely many actions.
`ExecutionLifecycle` has three: deliveries are positive numbers; the topology maps are well typed; limits and
backoffs are natural numbers. `OperatorRuns` has two: finitely many positive delivery ids,
some of them routed; artifacts and bounds are numbers. `WorkerAssumption`: periods are
positive and attempts are not confused with the server's other answers.
`TimesAssumption` and `RequestAssumption` of `ActivitySession`: lifetimes are numbers and a binding lives longer than a
session and the time its request may take (2 h against 1 h, `activity-session-service.ts:37`). `ArtifactAssumption`: a lease outlives the
grace period by one unit at most. `SeedsAssumption`: a
topology has one initial state per instance; `RequestsAssumption`: what is
registered is a known content; `DatabasesAssumption`: the rows that are there before are
themselves whole. `TopologyAssumption`: a document has finitely many connections, its
fan-in rules are a list of numbers, and the boundary is no instance. `TaskAssumption`: the
trusted profiles are lists of time limits. `RequestAssumption` of `RepositoryTask` is what
the schemas of an input ensure, that outputs and the names in a file are finitely many, and
that trees map every path the compiled operations name. They do not assume the bounds of the runs.

Some theorems state properties that no run lists by name: `TypeOK`, the other conjuncts of the inductive
invariants, `TerminalIsFinal`, `FinalStays`, `CallsWithinBudget`,
`ReplacedBudgetsAreNotCharged`, the types of `ArtifactPublication`, `TopologyInvariant`,
`TasksInvariant` and the two promises of the ledger. TLC found them to hold
before they were proved.

Checked by TLC only:

- the liveness properties and whatever rests on fairness (the prover does not handle
  fairness and ENABLED): `ReadyWorkIsTaken`, `HandedOffResultSettles`,
  `StartRepairs`, `StopEnds`, `EveryCallIsAnswered`, `EveryTaskIsAnswered`, `DeadSessionIsNoticed`.

Every invariant and every action property of the runs has a theorem. Three of these
are conditional: `HandedOffIsDecided` assumes that one batch suffices, `RunningResumes` and
`PollsFailOnLateInputOnly` that the topology is finite. What is left to TLC are the seven
liveness properties.

## Not modelled

- Capability invocation: grants are checked and invocations recorded in one transaction
  per call; nothing another actor changes outlives it.
- Projections: rebuilt from all events in one transaction on request.
- Contracts: generated types and validators, canonical JSON, schemas: pure.
- The idempotency records of commands and decisions (one read and one unique key in one
  transaction), payload validation, sequence numbers of event streams.
- Service authentication, nonces, OAuth with PKCE, the Discord host: no state that
  the modelled parts read.
- The pages of the user interfaces and the CLI: they render answers; what they rely on
  of the answers is in `OperatorRuns`.
- Build, audit and evidence scripts.

## Plan

1. (done) `ExecutionLifecycle`, its ledger, its invariants and proofs; `ExternalActions`;
   `ResourceAdmission`.
2. (done) `ArtifactPublication`, `WorkerRunner`, `TopologyContract`,
   `TemplateInstantiation`, `RepositoryTask` with `RepositoryTaskPlan`, `OperatorRuns` with its
   proofs, `ActivitySession`.
3. Proofs. (done) `WorkerRunner`, `ActivitySession`, `TemplateInstantiation`;
   `HandedOffResultIsDecided`; `RunningIsResumable` and `PollFailsOnLateInput` in
   finite topologies; `CommittedBytesKept` and `RegisteredBytesKept` of `ArtifactPublication`;
   `JoinsFill` of `TopologyContract`; the invariants of `RepositoryTask`.
4. (left) Idempotency records of commands and decisions; event streams and projection
   checkpoints over several regions.
