# A verification project for temporal-common

`temporal-common` is a Go library for building financial workflows on Temporal: a
saga with compensations and a dead-letter queue, idempotent activities, human
approval gates, parallel activities, idempotent workflow starts, SLA monitoring,
and an engine that wires client, worker, health checks and observability together.
This directory holds TLA+ modules that model its core logic and the loan workflow that
composes it, TLC configurations that check them on small instances, and TLAPS proofs
that carry every safety property the passing runs check to instances of every size. Paths below are relative to the repository (`src/`).

Check a run with `tlc -config Saga.cfg Saga` (likewise for every other `.cfg`; `Saga_canceled.cfg` and
`Approval_canceled.cfg` belong to `Saga` and `Approval`), a proof module with
`tlapm SagaProofs.tla` (likewise for every `*Proofs.tla`). `PROJECT.json` lists every run, the
source lines behind every definition, the hazards, the findings and the theorems.

## 1. Inventory

| Component | Source | State | Operations | What is hard | What makes it correct |
|---|---|---|---|---|---|
| Saga | `workflow/saga.go` | compensations (stack), pivotIdx, completed, handler | NewSaga, AddCompensation, SetPivot, Complete, Compensate | cancellation while compensating, lost answers, one step of several failing for good, unlimited retries | LIFO undo, every step settled exactly once, Complete is final, rollback total when undisturbed, rollback ends |
| Compensation DLQ | `workflow/dlq.go` | sink activity name and options | OnCompensationFailed | sink fails, hangs, or runs on a cancelled context; handler panics | every failure handed over once, with its own step and error |
| Idempotency store | `activity/idempotency_store.go`, `activity/idempotency.go` | key → recorded result with TTL | Check, Record, Flush, ExecuteIdempotent, two key functions | overlapping attempts, crash between effect and record, lost answers, corrupted or expired entries | duplicates only through faults, replayed answers genuine, store trouble never fails a success |
| Approval gate | `workflow/approval.go` | one signal channel per execution, a timer per gate | WaitForApproval | signal and timer in one workflow task, early/duplicate/late signals, cancellation | no decision lost, invented or used twice; every gate is decided |
| Parallel execution | `workflow/parallel.go` | futures, selector, results | ExecuteParallel, ExecuteParallelBestEffort, combineErrors | completion order and batching, partial failure, cancellation | one result per call, under its own index; error tells the truth; returns |
| Start or attach | `client/start.go` | none of its own; the server's current run | StartOrAttach, StartOrAttachWithOptions | racing callers with different options, a run closing between two calls, lost answers | handles are fresh; nobody takes another's run for its own |
| SLA monitor | `client/sla.go` | per-monitor `alerted` map, ticker | runSLAMonitor, checkSLA | executions closing or restarting around a poll, page limit, boundaries | no false alarm, one alert, prompt detection |
| Engine lifecycle | `client/engine.go`, `client/shutdown.go`, `client/config.go` | client, worker, tracing provider, SLA entries | New, Register*, Start, Shutdown, ServeMetrics | failure half-way through construction; Shutdown racing Start, its shutdown and the monitors; tasks in flight | a running worker has a client; nothing is left undone when both have returned; a cancelled context or signal brings it down |
| Health check | `client/health.go` | none | HealthCheck | – | – |
| Retry presets, builder | `activity/options.go`, `activity/builder.go` | an options value | presets, With*, Build | timeouts that end an activity before its attempts are used up | schedules fit their windows |
| Error taxonomy, panic recovery | `activity/errors.go`, `activity/recover.go` | none | New*Error, Is*, WithRecover | classification through wrapping; panics of any value | business errors are never retried, infrastructure errors are |
| Workflow state, audit | `workflow/state.go`, `workflow/audit.go` | stage, metadata; the writer in the context | SetStage, SetMeta, query, Audit*, Write | queries during a blocked workflow; audit activity failing or slow | queries see what the code set; the audit trail keeps its order |
| Versioning | `workflow/versioning.go` | name → version | Define, IsEnabled, Version | replay of old histories by new code, roll-back of a deployment | a running execution never changes branch |
| Scheduler | `workflow/scheduler.go` | server-side schedules | CreateSchedule, DeleteSchedule | creating what exists, cron and interval both given | one schedule per ID |
| Observability | `observability/` | adapters | logging, metrics, tracing | – | – |
| Test toolkit | `testing/` | recorded activity names | TrackCompensations, assertions | – | records what it says it records |
| Examples | `examples/` | saga, approvals, versions composed | loan disbursement, payment saga | a forward step that times out after taking effect | money is never both moved and undone |
| Facade | root package | none | forwarding | – | – |

How they interact: a workflow function owns a Saga and defers `Compensate`; on a
permanent failure Compensate calls the DLQ handler inside the workflow coroutine,
which in turn runs an activity. Activities call ExecuteIdempotent and classify
errors; whether an error is retryable decides what the saga sees. Approval gates and
parallel calls run in the same coroutine as the saga, so cancelling the workflow
reaches all of them through one context. The engine starts workers and SLA
monitors; StartOrAttach and the monitors talk to the server concurrently with
everything else and identify executions by workflow ID alone.

## 2. Modules

| Module | Models | State ↔ code |
|---|---|---|
| `SagaContract` | what a saga promises: keep everything, or settle the steps one at a time, newest first, each exactly once | – |
| `Saga` | `saga.go` and `dlq.go` in one workflow execution | `compensations`, `pivotIdx`, `completed`, `dlqHandler` are the struct's fields; `idx` is the loop variable; `pc` says where the coroutine is blocked; `effect`, `outcome`, `executed`, `events`, `sink` record what the world and the handler saw |
| `Idempotency` | `ExecuteIdempotent`, both stores, both key functions; every attempt is a process | `entries` is the store; `at` is the program counter in each attempt; `activityID` is the ID the activity has in each run |
| `Approval` | `WaitForApproval`, called once per gate | `signalCh` is the channel's buffer; `readyBranch` the case the Selector will run |
| `Parallel` | `ExecuteParallel` and its best-effort variant | `ResultPtr` says of each call whether it has one and whether the activity's result decodes into it; `future`, `added`, `ready` are the futures and the Selector; `results`, `stored`, `retErr` what the caller gets |
| `StartOrAttach` | `start.go`, concurrent callers of one workflow ID | `RunID` and `AlreadyRunning` are the WorkflowHandle's fields; `onConflict` is what a caller's options ask for when a run is open; `answer` is what the server said; `current`, `open`, `creator` the server |
| `Engine` | `engine.go`, `shutdown.go` and the monitors' loop: one Engine, the goroutine that runs New and Start, one that calls Shutdown, the monitors, the metrics server, the tasks in flight | `client`, `worker`, `tracing`, `slaEntries` are the struct's fields, `tracing` with the provider behind its function; `pc` says where Start and Shutdown are |
| `SLAMonitor` | the polling goroutine of one workflow type | `alerted` is the goroutine's map; `page` the list call's answer; `nextTick` the ticker |
| `RetryPolicy` | `options.go`, `builder.go`, `errors.go`, `recover.go`, and the server's retry decision over what they produce | `opts` holds the builder's fields or a preset; `clock`, `attempts`, `delay`, `last` follow the activity |
| `AuditTrail` | `state.go` and `audit.go` in one workflow execution, with the pollers of its query | `snapshot` is the struct; `held` a copy that Snapshot handed out; `entries` what was audited, `sent` and `failed` what became of its activity, `trail` what the sink persisted; `seen` the latest answer to the query |
| `LoanDisbursement` | `examples/loan-disbursement`, with `versioning.go`: composes `Saga` (by INSTANCE; every saga step is an action of that module), the gate, the change set, the idempotency keys and a bank, over several runs of one workflow ID and several deployments | `at` is the statement the function has come to; `marker` the version in the history; `code` what is deployed; `activityID`, `attempt` are those of the last request to the bank; `requests`, `applied`, `paid` the bank |
| `SagaProofs`, `EngineProofs`, `ApprovalProofs`, `ParallelProofs`, `AuditTrailProofs`, `LoanDisbursementProofs` | the proofs about the module each is named after | – |
| `ClientProofs` | the proofs about `StartOrAttach` and `SLAMonitor` | – |
| `ActivityProofs` | the proofs about `Idempotency` and `RetryPolicy` | – |

`ClientProofs` and `ActivityProofs` extend two components each. That is why `SLAMonitor` and
`RetryPolicy` call their initial predicate, next-state relation and specification
`MonitorInit`, `RetryInit` and so on: the names of the two components must not clash.

Workflow code is a deterministic coroutine, so everything between two blocking calls
is one step. Replaying a workflow after a worker crash rebuilds the same state from
the history; a crash of the workflow worker is therefore a stuttering step in
`Saga`, `Approval`, `Parallel` and `AuditTrail`. That replay needs the same code: in
`LoanDisbursement`, where code is deployed under running workflows, `Replays` says
whether the deployed code follows the history, and the workflow is stuck while it does
not. Activity code has no such protection, and in `Idempotency` store calls, the effect
and the answer are separate steps between which a worker may die.

Operators marked *Mistake* are plausible bugs in the definition that follows them (a
dropped guard, an off-by-one, a missing reset). They are not part of the model;
`PROJECT.json` pairs each with the property that notices it.

### What is assumed of the Temporal SDK and server

The SDK is not in the repository. The models use only the behaviour the code relies
on (SDK v1.28):

- `ExecuteActivity` on a cancelled context returns a failed future and dispatches
  nothing; cancelling a context resolves pending activity and timer futures with
  CanceledError and does not stop attempts that are already running; a result that
  was recorded first is still delivered (`WaitForCancellation` is unset).
- A `Selector` runs the first ready case in the order the cases were added; when it
  had to block, the case whose event came first. Several events can be applied before
  the coroutine runs.
- A signal channel is one FIFO buffer per signal name and execution.
- An activity is retried after every error except one that carries the non-retryable
  flag or a type listed in the policy; a timed-out attempt may still be running.
- The server keeps at most one open run per workflow ID. What `ExecuteWorkflow` does with
  an open run is up to options that `start.go` passes on as they are: by default, and with
  conflict policy USE_EXISTING, it returns a handle to the run with a nil error; with
  `WorkflowExecutionErrorWhenAlreadyStarted` it returns the server's refusal; with
  TERMINATE_EXISTING the run is replaced.
- `worker.Stop` acts once and, with WorkerStopTimeout unset, does not wait for running
  activities; a stopped worker cannot be started; a task that ends after the client was
  closed cannot report its result.
- A tracing provider is flushed by the first call of its Shutdown, which may fail or run
  out of time; further calls return nil at once, also while the first is still at it.
- The list of open executions is ordered most recently started first.
- `GetVersion` records the highest version the code supports when it is first executed,
  and answers DefaultVersion for a history without a marker.
- An activity's ID is the ID of the event that schedules it. It is the same for all
  attempts of the activity, grows along a run, and depends on everything before it in the
  history: signals, failed workflow tasks, markers. Two runs may therefore give the same ID
  to the same activity, to different ones, or share none; `Idempotency` and
  `LoanDisbursement` allow all of it.
- The server decides about a retry as the header of `RetryPolicy` says.
- The bank behind the example's activities applies a request once per idempotency key
  and answers a repeated key with its recorded result; this is what the activities'
  comments ask of it.

## 3. Runs

Passing runs, one per component, each checking the component's safety properties and,
where it has them, its liveness properties and its refinement together:

| Run | Question | Bounds |
|---|---|---|
| `saga` | Is the rollback ordered and total, is Complete final, is each failure reported once and escalated? Does Saga implement SagaContract? Does every rollback end if activities answer, and a cancelled one even if they do not? Cancellation, termination, lost and late answers at any moment. | 3 steps, 2 activities |
| `idempotency` | Are duplicates paid for by faults, is a run answered with a result of the answering attempt's own key, are successes reported as such? | 2 runs × 2 attempts, of one activity ID or two, 2 faults |
| `approval` | Are decisions conserved, never invented, and is a waiting one taken? Do reported timeouts have a cause (an expired window, a cancellation, or a signal that says so), and is every gate decided if nobody answers? | 3 gates, 3 signals |
| `parallel` | Has each call its own result, is a ResultPtr filled exactly where a result was decoded, does the error tell the truth, does the call return? | 4 calls, each with a nil, a fitting or an ill-typed ResultPtr |
| `sla_monitor` | No false alarms, one alert per ID, prompt first alert | 2 IDs × 2 executions, 12 ticks |
| `start_or_attach` | Is every handle fresh? Does one caller at most take a run for its own, silently attached ones aside? Is `AlreadyRunning` true for a caller that asked for the refusal, also when its answer was lost and the request repeated? | 3 callers of any conflict option, 1 lost answer |
| `engine` | In every interleaving of Start and Shutdown, has a running worker its client, is the client closed when either returns, and are worker and provider down when both are done? Does a failed start leave nothing running? Does a cancelled context stop Start, monitors and metrics server, and a signal Start? | 2 monitors, 1 task |
| `loan` | Does money move only on a decision, and once per run? Is success backed by the bank, and what does a failed run leave there? Do deployments keep a run on its path? Does every run end? Cancellation, termination, late and unanswered requests at any moment. | 2 runs, 2 deployments, 2 attempts per activity, 1 event that shifts a run's IDs |
| `retry_policy` | Is a business error final, is a transient one retried while there is room, and do the presets' windows hold the attempts they promise? | 2 builder calls, 30 attempts, a worker that is free at once or after 20 s |
| `audit_trail` | Is metadata protected from writes to copies, does a poller miss no change, is what was audited persisted before the workflow goes on, and can its order be recovered? | 2 changes, 3 entries, 4 workflow tasks |

Three saga steps give the loop a first, a middle and a last iteration, so a failure
can precede and follow a success, and two failures can be separated by one. Two
activity functions are enough to report a wrong step name. Two runs of two attempts let
two attempts overlap and a second run meet the first one's entries; two faults allow a
fault during the recovery from another. Three gates with three signals allow a
leftover to pass over a gate. Four calls allow two batches with two completions each
in the wrong order. SLA thresholds of 2 and 4 ticks with a 2-tick poll put a breach on
and between polls, and 12 ticks leave room for a second execution to breach. Two runs of
the loan workflow let a late request of the first meet the second; one further event in a
run's history is enough for its IDs to agree or to disagree with the other run's, and for
its disbursement to have the ID of the other's reservation; two attempts let a late request
meet its own retry; two deployments are a change and its withdrawal. Two builder calls reach
every pair of options that contradict each other, and 30 attempts are three times what
any preset allows, so that an unlimited policy is followed well past the point where its
interval has stopped growing. Three audit entries and four
tasks let a late entry be overtaken by two others, and a cancellation fall between them.

Deadlock checking is off everywhere: workflows, calls and monitors close, and every
bound ends its behaviours. That nothing gets stuck before closing is what the
liveness properties are for. Symmetry over activities, IDs or callers is not used:
TLC's symmetry reduction is unsound for liveness, and the models are small enough.

Runs that refute a statement made in the repository (each has a finding in
`PROJECT.json` with the quotation):

| Run | What the code does |
|---|---|
| `saga_canceled_steps` | Compensations run on a context derived from the workflow's, so a cancelled workflow compensates nothing more; the comment promises that remaining steps still execute. |
| `approval_canceled` | Cancelling the workflow resolves the gate's timer, whose callback does not look at the error: the gate reports a timeout, with no error, while its window is open; the comments say that the window has expired. |

Smaller disagreements between documentation and code met on the way, which the models
reproduce but no run is devoted to:

- `pivotIdx` is written by SetPivot and never read (`workflow/saga.go:83`), so the pivot
  changes nothing; `Saga.SetPivot` is the only action that mentions it.
- A compensation that returns a non-retryable application error fails in an uncancelled
  workflow, which `workflow/saga.go:170` excludes ("The only way Get returns an error is
  workflow termination"); `UndisturbedRollbackIsTotal` has to name it.
- Compensate returns nothing, so a failed compensation is not "the workflow's terminal
  error" (`references/saga-pattern.md:51`).
- The DLQ handler waits for its sink activity (`workflow/dlq.go:93`) although its comment
  calls it fire-and-forget, and in a cancelled workflow the sink is never dispatched.
- A signal's payload is returned as it is, TimedOut included (`workflow/approval.go:82`,
  `:107`), so an answered gate may report a timeout: `TimedOutIsExplained` has to allow
  for it. The payload names no approval, so a signal decides whichever gate is open or
  opened next; the repository does not say otherwise.
- Completions of one workflow task are collected in input order after the first
  (`workflow/parallel.go:93`), not "in the order activities complete".
- The monitor reads one page of 1000 executions, newest first (`client/sla.go:137`):
  `FirstBreachIsAlertedInTime` holds only while they fit. `alerted` is keyed by workflow
  ID and never cleared (`client/sla.go:170`), so it holds only for an ID's first
  execution, too.
- New leaves the tracing provider running when Dial fails (`client/engine.go:94`), Start
  leaves client and tracing open when the worker does not start, and after a signal the
  monitors go on polling the closed client.
- A failed flush is logged and Start and Shutdown return nil (`client/shutdown.go:63`, `:81`);
  a second caller does not wait for the first one's flush. `ReturnedMeansReleased` says what
  is left of it.
- The run StartOrAttach describes may have closed after the refusal (`client/start.go:87`).
- `IdempotencyKey` contains the attempt, so a lost answer leads to a second execution,
  although `activity/idempotency.go:14` says "This prevents double-execution if the
  activity succeeds but the response is lost before Temporal records it":
  `DuplicatesAreBoundedByFaults` counts it.
- With default options an attached caller gets `AlreadyRunning = false`
  (`client/start.go:71`), which `client/start.go:20` says "is true when an existing
  execution was returned"; `AlreadyRunningWhenAsked` is restricted accordingly.
- ShutdownTimeout is "how long to wait for in-flight activities" (`client/config.go:39`),
  but shutdown closes the client as soon as the worker has stopped
  (`client/shutdown.go:57`), and WorkerStopTimeout is not set.
- `NoRetry` "configures unlimited retries" (`activity/builder.go:109`) but keeps the
  5-minute ScheduleToClose window; that StartToClose "must be less than ScheduleToClose"
  (`activity/builder.go:55`) is not enforced. `TransientErrorIsRetried` has to name the
  window.
- An activity wrapped by WithPanicRecovery is a function made by reflection, whose name
  is not the original's (`activity/recover.go:23` says it is preserved).
- AuditWriter "must not block" (`workflow/audit.go:57`), but the writer awaits its
  activity; `AuditedBeforeGoingOn` states what that buys. On a cancelled context nothing
  is written.
- UpdatedAt is "the time of the last SetStage call" (`workflow/state.go:21`), but SetMeta
  sets it, too; `UpdatedAtShowsChanges` depends on it.
- A loan whose approval gate is cancelled is reported as LoanRejected, like one that an
  approver refused.
- A transfer whose answer was lost fails the loan, and the rollback then releases the
  reservation behind a transfer that may have happened; `RollbackLeavesOnlyDoubt` says
  precisely what can be left.
- Keys name neither run nor activity type, and activity IDs are event IDs. What
  `PaidAtMostOnce` says holds within a run, over all its attempts. Across runs of a
  workflow ID the money can be paid twice (the second run's IDs differ from the first's),
  and a second run can report success without a transfer (its disbursement has the ID of
  the first one's reservation, and the bank answers from that record), which is the
  alternative `SuccessIsBacked` names. `references/testing.md:90` has "Duplicate execution
  (same workflowID) → idempotency key prevents double-processing".
- The monitor's interval is announced as "half the smaller threshold, minimum 30s"
  (`client/sla.go:95`), but starts at 30 seconds and only shrinks before the minimum is
  applied, so it is always 30 seconds, `MinPoll`; alerts are never later for it.

### Fairness

- *Coroutine* (`Saga.CoroutineFairness`, `SelectReturns` in `Approval`, the selector
  steps in `Parallel`): a workflow that can go on is given a workflow task by a live
  worker. Weak fairness is enough, since nothing else disables these steps for good.
- *Compensations* (`CompensationFairness`): MaximumAttempts is 0 and there is no
  ScheduleToClose limit, so only the activities' documented contract ("must eventually
  succeed") makes a rollback end. The assumption is therefore stated inside
  `RollbackTerminates`, and not in the specification: the run assumes coroutine
  fairness alone, which is all the second half of `RollbackTerminates`, about cancelled
  workflows, needs.
- *Sink* (`SinkFairness`, likewise inside `RollbackTerminates`): the default sink options
  have a one-minute ScheduleToCloseTimeout.
- *Engine*: goroutines that can go on do. A monitor's `select` picks at random among its
  ready cases, so noticing a done context is strongly fair although the ticker goes on.
- *Timers*: Temporal's timers are durable and fire. Approvers promise nothing.
- *Parallel activities* close because Temporal requires a StartToClose or
  ScheduleToClose timeout on each.
- *Loan*: forward activities have a ScheduleToCloseTimeout and the gate a 48-hour timer,
  so each returns; the release has unlimited attempts, and the bank is taken to accept it
  at last, which is the contract of a compensation again. All of it only while the
  deployed code can replay the run; `LoanEnds` makes that exception explicit.

No fairness is assumed of cancellation, termination, signals, faults or restarts.

## 4. Proofs

`SagaProofs` proves, for every set of activities and every `MaxSteps \in Nat` (the
only assumption, `MaxStepsAssumption`):

| Theorem | Says |
|---|---|
| `SagaTypeOK` | every variable keeps its type; inside the loop `i` is a registered step |
| `SagaUndoRespectsOrder` | no effect is undone before every later step's compensation has returned |
| `SagaCompleteKeepsEffects` | after Complete nothing is undone |
| `SagaClosedMeansSettled` | closing without Complete means every step was tried |
| `SagaRollbackIsTotal` | without cancellation and non-retryable errors every effect is undone |
| `SagaEventsMatchFailures` | the DLQ handler hears once, and in the order of the rollback, of exactly the compensations that failed |
| `SagaEscalationReachesSink` | when an uncancelled workflow with the activity handler closes, every failure was handed to the sink and its answer awaited |
| `SagaRollbackIsBounded` | a rollback takes at most three moves per registered step, and nothing sets it back |
| `SagaRefinesContract` | Saga implements SagaContract |

None of these is inductive alone. `UndoRespectsOrder`, for instance, must hold when a
late attempt of some compensation takes effect long after the loop has moved on, so one
has to know that the attempt was dispatched, and that at dispatch all later steps
were settled. The inductive invariant `IInv` adds exactly that: an effect is undone
only after dispatch, and dispatch implies that later steps are settled
(`DispatchOrder`); nothing is dispatched or settled before Compensate or after
Complete (`NothingUndoneYet`); the loop index separates settled from unsettled steps
(`Frontier`); and recorded outcomes are true of the world (`OutcomesAreTrue`).
`NextIInv` has one case per action and one step per conjunct the action disturbs. The
refinement maps `pc` and `completed` to the contract's phase and each recorded outcome
to "undone" or "escalated"; every action then either settles the frontier step, is
another contract action, or changes nothing the contract sees.

`EngineProofs` proves, for any monitors and tasks and from no assumption,
`EngineTypeOK`, `EngineRunningWorkerHasClient`, `EngineReturnedMeansReleased` and
`EngineFailureLeavesNothingRunning`. The invariant says that nobody but New touches an
engine that is not finished (`NewIsAlone`), that what one goroutine has stopped, closed or
flushed is not undone by the other (`Progress`), that the client is closed only behind the
worker (`ClientOutlivesWorker`), that what has begun to come down is being brought down by
one of the two (`SomebodyIsAtIt`), and that nothing runs before Start has got that far
(`QuietUntilStarted`); without the first, a tracing provider could come to life after a
Shutdown had returned.

The other proof modules follow the same plan: `Init => IInv`, one lemma or case per action,
and a corollary per property. What had to be added to make each property inductive:

| Module | Assumes | Proves | The strengthening |
|---|---|---|---|
| `ClientProofs` (StartOrAttach) | `MaxLost` a natural number, a value that is no caller | `StartTypeOK`, `StartHandleIsFresh`, `StartAlreadyRunning`, `StartOneStarterPerRun` | runs only advance since the call began (`SinceTheCall`), the server knows which call started the current run (`CreatorIsKnown`), an answer under way is true until it is used (`AnswerIsTrue`), and no two calls have started one run (`StartedOnce`) |
| `ClientProofs` (SLAMonitor) | a threshold is set, interval and page size are positive, finitely many IDs (`SLAAssumption`) | `SLAAlertsAreDueAndSingle`, `SLAFirstBreachIsAlertedInTime` | the ticker is never late (`Punctual`), an ID is marked only with its alert (`MarkedIsAlerted`), and a completed poll has seen everything that was due when its page was read (`PollsAreComplete`), which counts the page's entries against the IDs |
| `ApprovalProofs` | bounds are natural numbers | `ApprovalSignalsConserved`, `ApprovalOnlyBySignal`, `ApprovalTimedOutIsExplained` | the Selector's ready case has its event behind it, and a waiting decision makes it "receive" (`ReadyIsJustified`) |
| `ParallelProofs` | `N` a natural number | `ParallelResultsMatchCalls` | before the loop nothing is stored (`NothingYet`), a case that ran has stored what its own Get returned (`CasesAreRecorded`), the loop has run one case per round (`LoopCounts`), the error so far is true (`ErrorIsTrue`) |
| `AuditTrailProofs` | bounds, at least one task | `AuditMetaOnlyBySetMeta`, `AuditUpdatedAtShowsChanges`, `AuditedBeforeGoingOnHolds`, `AuditOccurredAtRecoversOrder` | no copy shares the map (`StateIsPrivate`), answers come from earlier tasks (`AnswersAreOlder`), only the newest entry can be missing (`OnlyTheLastIsMissing`), and dispatching an entry ends its task, so that times differ (`DispatchTakesATask`) |
| `LoanDisbursementProofs` | bounds are natural numbers, at least one run | `LoanNoMoneyWithoutDecision`, `LoanDeploymentsKeepThePath`, `LoanPaidAtMostOnce`, `LoanSuccessIsBacked`, `LoanRollbackLeavesOnlyDoubt` | the marker is supported unless it was withdrawn (`MarkerIsSupported`), a run past a check has passed it (`ScoreWasChecked`, `GateWasPassed`); within a run a key stands for one operation (`OneKeyPerActivity`); for payments, success and rollback, see below |
| `ActivityProofs` (Idempotency) | at least one run and one attempt | `IdempotencyTypeOK`, `IdempotencyAnswerIsGenuine`, `IdempotencySuccessIsNotReportedAsError`, `IdempotencyDuplicatesAreBoundedByFaults` | what was not started is idle (`LaterIsIdle`), an attempt executes once (`OnceEach`), entries and answers under way were produced under their key (`RecordsAreTrue`), and a completed run was answered by an attempt that is over (`AnswersAreTrue`); for duplicates, see below |
| `ActivityProofs` (RetryPolicy) | bounds and lags are natural numbers | `RetryBusinessErrorIsFinal`, `RetryTransientErrorIsRetried`, `RetryPromptFailuresUseAllAttempts`, `RetryOneCutAttemptIsSurvived` | window and attempts are not exceeded (`WithinLimits`), what was closed had a reason (`ClosedForAReason`); for the presets, see below |

*Saga events.* `EventsMatchFailures` relates a sequence to the recorded outcomes. It is
inductive once events are known to be about registered steps (`EInv`) and `Frontier` says
where the loop stands: the step that fails next is older than every step an event is
about, so it is new to the list and keeps it in order. For `EscalationReachesSink` the
invariant (`SInv`) must hold while the loop still runs: of all failures only the one whose
sink activity is being awaited may be without an answer.

*Duplicates.* That a key is executed once plus at most once per fault is not inductive: an
attempt that has missed in the store will execute, whatever happens. `Covered` therefore
counts, for each key, the executions *and* the attempts that may still execute
(`Pending`), and bounds them by the faults plus one free execution while the key is
recorded or the current attempt is at work under it. A timeout, a crash, an expiry or a
lost record each pays for what it makes possible at the moment it happens. An overtaken
attempt that finishes late only turns a pending execution into a real one.

*Presets.* `Backoff` is a function of the last wait, `delay`, which is part of the
activity's state as it is of the server's. So the waits of a preset need no induction:
`OnSchedule` lists, for each preset, where an activity whose attempts all fail at once
stands after each retry, and the last line of each list is inside the window.
`RetryOneCutAttemptIsSurvived` is stated for lags of at most 58 half seconds. That is an
assumption on the load of the workers, and exact: if a due attempt waits 29.5 seconds,
WithInternalServiceOptions (60 s, 30 s per attempt) has no room for a second one.

*What a loan leaves at the bank.* `LInv` ties three parties together. The saga inside the
loan stands where the workflow function left it (`SagaFollows`: the release is registered
exactly when the reservation was confirmed, and the loop runs only after an error behind
that point). Of the requests (`RInv`), a run has made those of the statements it has come
to, its activity IDs grow, and so within a run all attempts of an operation share a key
and no other operation has it; nothing is said about keys of different runs. Since the
bank applies a key once, a run has paid exactly if a transfer of it was applied
(`PaidIsCounted`), which is `PaidAtMostOnce`. Answers the function acts on are recorded at
the bank under the key it asked with (`AnswersWereTrue`); the record is the run's own, or
an earlier run's. In a first run it is its own, and the reservation is what the run has
made of it (`FirstRun`): a release is asked for only when its reservation is confirmed, so
it can never overtake it at the bank. From this, success implies a transfer and a
reservation that nobody asked to release; a failure that nobody cancelled implies that
what was confirmed has been released.

Only model-checked: the liveness properties (`RollbackTerminates`, `EveryGateIsDecided`,
`ParallelReturns`, `StopRequestsAreHonoured`, `LoanEnds`). They need fairness and ENABLED,
which the prover does not handle; of the saga's, the measure that decreases is proved
(`SagaRollbackIsBounded`), so that what is left to fairness is that each move is made. Every invariant and action property of a passing run,
and the refinement, is proved.

## 5. Not modelled

- Log lines, metrics, traces, formatting of messages and keys: no property depends on
  them. Keys are modelled by which attempts share one.
- Times inside retry schedules, outside `RetryPolicy`: in the other modules a retry may come
  at any moment, which includes every schedule.
- Compensate called twice, against the documented use of one deferred call.
- SLA warn-level logging and the derivation of workflow type names (the SLA monitor is
  therefore only partly modelled).
- Scheduler: `CreateSchedule` and `DeleteSchedule` are one server call each after a check
  for empty fields; uniqueness and overlap are the server's.
- Payment-saga example: the same saga calls as the loan example, without gate and versions.
- Health checks, facade: single stateless calls and forwarding functions.
- Observability: adapters to other libraries. Test toolkit: wrappers around the SDK's test
  environment that no production code uses.

## 6. Plan

Done, in order of importance: SagaContract, Saga with its DLQ, SagaProofs; Idempotency,
Approval, Parallel, SLAMonitor, StartOrAttach, Engine, EngineProofs; then
LoanDisbursement with versioning, RetryPolicy, AuditTrail, and the proofs about every
component.

Next proofs: the rank arguments behind the liveness properties, as far as they are safety
(as `SagaRollbackIsBounded` has it for the rollback: every round of a fan-in, every
statement of a loan brings it nearer to its end). Next model: the payment
saga, if it grows behaviour of its own.
