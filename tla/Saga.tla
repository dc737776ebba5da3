-------------------------------- MODULE Saga --------------------------------
(***************************************************************************)
(* workflow/saga.go and workflow/dlq.go: one workflow execution that owns  *)
(* one Saga and has deferred saga.Compensate().                            *)
(*                                                                         *)
(* The workflow runs in a single deterministic coroutine, so everything it *)
(* does between two blocking calls is one step; it blocks in Future.Get on *)
(* a forward activity, on a compensation activity and on the DLQ sink      *)
(* activity.  Replay after a worker crash rebuilds exactly this state from *)
(* the history, so a crash is a stuttering step here.                      *)
(*                                                                         *)
(* External to the repository and modelled from how saga.go uses it        *)
(* (go.temporal.io/sdk v1.28, WaitForCancellation unset): ExecuteActivity  *)
(* on a cancelled context fails at once without dispatching anything;      *)
(* cancelling a context resolves its pending futures with CanceledError    *)
(* and leaves the activity attempts that are already running alone; a      *)
(* result that reached the history before the cancellation is still        *)
(* delivered after it.                                                     *)
(***************************************************************************)
EXTENDS Integers, Sequences

CONSTANTS
  Activities,  \* the compensation activity functions, i.e. the step names
  MaxSteps     \* bound: steps one saga registers

ASSUME MaxStepsAssumption == MaxSteps \in Nat

VARIABLES
  \* fields of the Saga struct
  compensations,  \* stepName of each registered compensation, oldest first
  pivotIdx,       \* -1 means no pivot set
  completed,      \* set by Complete()
  dlqHandler,     \* which CompensationDLQHandler NewSaga was given
  \* the coroutine
  pc,             \* where the workflow is blocked or will continue
  idx,            \* loop variable i of Compensate, -1 outside the loop
  ctxCanceled,    \* s.ctx has been cancelled
  wfErr,          \* error the workflow function returned
  \* what the rest of the world sees (history variables)
  effect,         \* business effect of the forward step at each index
  outcome,        \* what Get returned for the compensation at each index
  executed,       \* indices whose compensation activity was dispatched
  events,         \* CompensationFailureEvents given to the handler, in order
  sink            \* what became of the DLQ sink activity for each index

sagaFields == <<compensations, pivotIdx, completed, dlqHandler>>
vars == <<compensations, pivotIdx, completed, dlqHandler, pc, idx,
          ctxCanceled, wfErr, effect, outcome, executed, events, sink>>

Indices == 0 .. MaxSteps - 1
Registered == 0 .. Len(compensations) - 1

Handlers == {"none", "activity", "custom"}
Locations == {"forward", "awaitForward", "compensating", "awaitComp",
              "awaitSink", "closed", "terminated"}
Errors == {"none", "forwardError", "canceled"}
Failures == {"canceled", "nonRetryable"}

FailureEvents == [StepName : Activities, StepIndex : Indices,
                  ErrorMessage : Failures]

\* Compensate has passed its two early returns and has not finished its loop.
RollingBack == pc \in {"compensating", "awaitComp", "awaitSink"}
Open == pc \notin {"closed", "terminated"}

-----------------------------------------------------------------------------
\* NewSaga, with no option or with WithDLQHandler.
NewSaga ==
  /\ compensations = <<>>
  /\ pivotIdx = -1
  /\ completed = FALSE
  /\ dlqHandler \in Handlers

Init ==
  /\ NewSaga
  /\ pc = "forward"
  /\ idx = -1
  /\ ctxCanceled = FALSE
  /\ wfErr = "none"
  /\ effect = [k \in Indices |-> "none"]
  /\ outcome = [k \in Indices |-> "none"]
  /\ executed = {}
  /\ events = <<>>
  /\ sink = [k \in Indices |-> "none"]

-----------------------------------------------------------------------------
(* The forward path, driven by the workflow code that uses the saga.       *)

\* The workflow blocks on a forward activity.  On a cancelled context the
\* call fails at once and nothing changes.
ExecuteForward ==
  /\ pc = "forward"
  /\ ~ctxCanceled
  /\ Len(compensations) < MaxSteps
  /\ pc' = "awaitForward"
  /\ UNCHANGED <<sagaFields, idx, ctxCanceled, wfErr, effect, outcome,
                 executed, events, sink>>

AddCompensation(activityFn) ==
  compensations' = Append(compensations, activityFn)

\* The step succeeded: its effect is in the world, and the coroutine
\* registers the rollback without blocking in between.
ForwardSucceeds(activityFn) ==
  /\ pc = "awaitForward"
  /\ AddCompensation(activityFn)
  /\ effect' = [effect EXCEPT ![Len(compensations)] = "applied"]
  /\ pc' = "forward"
  /\ UNCHANGED <<pivotIdx, completed, dlqHandler, idx, ctxCanceled, wfErr,
                 outcome, executed, events, sink>>

\* The step failed, was cancelled, or needs no rollback.
ForwardRegistersNothing ==
  /\ pc = "awaitForward"
  /\ pc' = "forward"
  /\ UNCHANGED <<sagaFields, idx, ctxCanceled, wfErr, effect, outcome,
                 executed, events, sink>>

SetPivot ==
  /\ pc = "forward"
  /\ pivotIdx' = Len(compensations)
  /\ UNCHANGED <<compensations, completed, dlqHandler, pc, idx, ctxCanceled,
                 wfErr, effect, outcome, executed, events, sink>>

Complete ==
  /\ pc = "forward"
  /\ completed' = TRUE
  /\ UNCHANGED <<compensations, pivotIdx, dlqHandler, pc, idx, ctxCanceled,
                 wfErr, effect, outcome, executed, events, sink>>

-----------------------------------------------------------------------------
(* Compensate.                                                             *)

\* Mistake: Compensate without its "if s.completed" early return.
CompensateIgnoringComplete ==
  IF compensations = <<>>
    THEN pc' = "closed" /\ UNCHANGED idx
    ELSE pc' = "compensating" /\ idx' = Len(compensations) - 1

\* Compensate up to the first iteration of its loop.
Compensate ==
  IF completed \/ compensations = <<>>
    THEN pc' = "closed" /\ UNCHANGED idx
    ELSE pc' = "compensating" /\ idx' = Len(compensations) - 1

\* The workflow function returns e, which runs the deferred Compensate.
Return(e) ==
  /\ pc = "forward"
  /\ wfErr' = e
  /\ Compensate
  /\ UNCHANGED <<sagaFields, ctxCanceled, effect, outcome, executed, events,
                 sink>>

\* i--, and the test i >= 0; after the loop the workflow function has returned.
LoopNext ==
  IF idx = 0 THEN pc' = "closed" /\ idx' = -1
             ELSE pc' = "compensating" /\ idx' = idx - 1

\* Mistake: the position is counted from 1.
FailureEventOneBased(i, err) ==
  [StepName |-> compensations[i + 1], StepIndex |-> i + 1, ErrorMessage |-> err]

\* SagaID, RunID and OccurredAt are constant or irrelevant here.
CompensationFailureEvent(i, err) ==
  [StepName |-> compensations[i + 1], StepIndex |-> i, ErrorMessage |-> err]

\* Mistake: the sink activity is not started once a failure was recorded.
OnCompensationFailedOnce ==
  IF ctxCanceled \/ events # <<>>
    THEN UNCHANGED sink /\ LoopNext
    ELSE sink' = [sink EXCEPT ![idx] = "dispatched"] /\ pc' = "awaitSink"
                                                     /\ UNCHANGED idx

\* ActivityDLQHandler.OnCompensationFailed: the sink activity runs on the
\* saga's own context and its result is awaited.
OnCompensationFailed ==
  IF ctxCanceled
    THEN UNCHANGED sink /\ LoopNext
    ELSE sink' = [sink EXCEPT ![idx] = "dispatched"] /\ pc' = "awaitSink"
                                                     /\ UNCHANGED idx

\* Mistake: the loop returns after the first failed step.
CompensationFailsAndReturns(err) ==
  /\ outcome' = [outcome EXCEPT ![idx] = err]
  /\ pc' = "closed"
  /\ idx' = -1
  /\ UNCHANGED <<events, sink>>

\* Mistake: a failed step is tried again, whatever its error.
CompensationFailsAndRepeats(err) ==
  /\ outcome' = [outcome EXCEPT ![idx] = err]
  /\ pc' = "compensating"
  /\ UNCHANGED <<idx, events, sink>>

\* Get returned err for step idx: the failure is routed to the handler and
\* the loop goes on.  A handler's panic is recovered, so a custom handler
\* cannot stop the loop either.
CompensationFails(err) ==
  /\ outcome' = [outcome EXCEPT ![idx] = err]
  /\ \/ /\ dlqHandler = "none"
        /\ LoopNext
        /\ UNCHANGED <<events, sink>>
     \/ /\ dlqHandler # "none"
        /\ events' = Append(events, CompensationFailureEvent(idx, err))
        /\ \/ dlqHandler = "custom" /\ LoopNext /\ UNCHANGED sink
           \/ dlqHandler = "activity" /\ OnCompensationFailed

\* Mistake: the activity is started and the loop goes on without Get.
ExecuteCompensationAsync ==
  /\ pc = "compensating"
  /\ executed' = executed \cup {idx}
  /\ LoopNext
  /\ UNCHANGED <<sagaFields, ctxCanceled, wfErr, effect, outcome, events, sink>>

\* workflow.ExecuteActivity(compensationCtx, ...): compensationCtx is derived
\* from s.ctx, so once the workflow is cancelled the call fails undispatched.
ExecuteCompensation ==
  /\ pc = "compensating"
  /\ \/ /\ ~ctxCanceled
        /\ executed' = executed \cup {idx}
        /\ pc' = "awaitComp"
        /\ UNCHANGED <<idx, outcome, events, sink>>
     \/ /\ ctxCanceled
        /\ CompensationFails("canceled")
        /\ UNCHANGED executed
  /\ UNCHANGED <<sagaFields, ctxCanceled, wfErr, effect>>

CompensationSucceeds ==
  /\ pc = "awaitComp"
  /\ effect' = [effect EXCEPT ![idx] = "undone"]
  /\ outcome' = [outcome EXCEPT ![idx] = "ok"]
  /\ LoopNext
  /\ UNCHANGED <<sagaFields, ctxCanceled, wfErr, executed, events, sink>>

\* Mistake: MaximumAttempts is set, so retries can be exhausted.
LimitedAttempts == {"nonRetryable", "exhausted"}

\* compensationActivityOptions: unlimited attempts, no ScheduleToClose limit
\* and no non-retryable types, so the one error the server does not retry is
\* an application error that carries the non-retryable flag itself
\* (activity.NewBusinessError).
PermanentErrors == {"nonRetryable"}

CompensationReturnsError ==
  /\ pc = "awaitComp"
  /\ \E err \in PermanentErrors : CompensationFails(err)
  /\ UNCHANGED <<sagaFields, ctxCanceled, wfErr, effect, executed>>

\* The pending future resolves with CanceledError.
CompensationCanceled ==
  /\ pc = "awaitComp"
  /\ ctxCanceled
  /\ CompensationFails("canceled")
  /\ UNCHANGED <<sagaFields, ctxCanceled, wfErr, effect, executed>>

\* The sink activity's error is only logged.
SinkReturns(v) ==
  /\ pc = "awaitSink"
  /\ sink' = [sink EXCEPT ![idx] = v]
  /\ LoopNext
  /\ UNCHANGED <<sagaFields, ctxCanceled, wfErr, effect, outcome, executed,
                 events>>

SinkCanceled ==
  /\ pc = "awaitSink"
  /\ ctxCanceled
  /\ LoopNext
  /\ UNCHANGED <<sagaFields, ctxCanceled, wfErr, effect, outcome, executed,
                 events, sink>>

-----------------------------------------------------------------------------
(* The server and the workers that run the activities.                     *)

CancelWorkflow ==
  /\ Open
  /\ ~ctxCanceled
  /\ ctxCanceled' = TRUE
  /\ UNCHANGED <<sagaFields, pc, idx, wfErr, effect, outcome, executed, events,
                 sink>>

\* Termination closes the execution without running any more of its code.
TerminateWorkflow ==
  /\ Open
  /\ pc' = "terminated"
  /\ UNCHANGED <<sagaFields, idx, ctxCanceled, wfErr, effect, outcome, executed,
                 events, sink>>

\* An attempt of a dispatched compensation takes effect although its answer
\* is lost or late: it will be retried, or nobody waits for it any more.
AttemptApplies(k) ==
  /\ k \in executed
  /\ effect[k] = "applied"
  /\ effect' = [effect EXCEPT ![k] = "undone"]
  /\ UNCHANGED <<sagaFields, pc, idx, ctxCanceled, wfErr, outcome, executed,
                 events, sink>>

Next ==
  \/ ExecuteForward
  \/ \E a \in Activities : ForwardSucceeds(a)
  \/ ForwardRegistersNothing
  \/ SetPivot
  \/ Complete
  \/ \E e \in Errors : Return(e)
  \/ ExecuteCompensation
  \/ CompensationSucceeds
  \/ CompensationReturnsError
  \/ CompensationCanceled
  \/ \E v \in {"saved", "lost"} : SinkReturns(v)
  \/ SinkCanceled
  \/ CancelWorkflow
  \/ TerminateWorkflow
  \/ \E k \in Indices : AttemptApplies(k)

Spec == Init /\ [][Next]_vars

-----------------------------------------------------------------------------
(* Fairness.                                                               *)

\* The coroutine is scheduled: it issues the next activity, and it sees the
\* cancellation of a future it is blocked on.
CoroutineFairness ==
  /\ WF_vars(ExecuteCompensation)
  /\ WF_vars(CompensationCanceled)
  /\ WF_vars(SinkCanceled)

\* Compensation activities honour their contract and return in the end.
CompensationFairness == WF_vars(CompensationSucceeds \/ CompensationReturnsError)

\* The sink activity has a ScheduleToCloseTimeout, so the server resolves it.
SinkFairness == WF_vars(\E v \in {"saved", "lost"} : SinkReturns(v))

CoroutineSpec == Spec /\ CoroutineFairness

-----------------------------------------------------------------------------
(* Properties.                                                             *)

Failed(k) == outcome[k] \in Failures

\* Every variable has its type, and in Compensate's loop the loop variable
\* is the index of a registered step.
TypeOK ==
  /\ compensations \in Seq(Activities) /\ Len(compensations) <= MaxSteps
  /\ pivotIdx \in -1 .. MaxSteps
  /\ completed \in BOOLEAN
  /\ dlqHandler \in Handlers
  /\ pc \in Locations
  /\ pc = "awaitForward" => Len(compensations) < MaxSteps
  /\ idx \in -1 .. MaxSteps - 1
  /\ RollingBack => idx \in Registered
  /\ ctxCanceled \in BOOLEAN
  /\ wfErr \in Errors
  /\ effect \in [Indices -> {"none", "applied", "undone"}]
  /\ outcome \in [Indices -> {"none", "ok"} \cup Failures]
  /\ executed \in SUBSET Indices
  /\ events \in Seq(FailureEvents)
  /\ sink \in [Indices -> {"none", "dispatched", "saved", "lost"}]

\* LIFO, seen from outside: no effect is undone before the compensation of
\* every later step has been given its chance and has returned, even when
\* lost answers make attempts take effect at odd moments.
UndoRespectsOrder ==
  \A j, k \in Registered :
    (j < k /\ effect[j] = "undone") => outcome[k] # "none"

\* After Complete the deferred Compensate is a no-op: no effect of the saga
\* is ever undone.
CompleteKeepsEffects ==
  completed => \A k \in Registered : effect[k] = "applied"

\* A saga that closes without Complete has tried every registered step,
\* whatever failed on the way ("Do NOT return - continue compensating").
ClosedMeansSettled ==
  (pc = "closed" /\ ~completed) => \A k \in Registered : outcome[k] # "none"

\* If nobody cancelled the workflow and no compensation returned a
\* non-retryable error, closing without Complete leaves no effect behind.
UndisturbedRollbackIsTotal ==
  (/\ pc = "closed"
   /\ ~completed
   /\ ~ctxCanceled
   /\ \A k \in Registered : outcome[k] # "nonRetryable")
  => \A k \in Registered : effect[k] = "undone"

\* The handler hears of every permanent failure exactly once, newest step
\* first, with the name and error of that very step; without a handler
\* nothing is recorded.
EventsMatchFailures ==
  IF dlqHandler = "none"
    THEN events = <<>>
    ELSE /\ \A n \in 1 .. Len(events) :
              /\ Failed(events[n].StepIndex)
              /\ events[n].StepName = compensations[events[n].StepIndex + 1]
              /\ events[n].ErrorMessage = outcome[events[n].StepIndex]
         /\ \A m, n \in 1 .. Len(events) :
              m < n => events[m].StepIndex > events[n].StepIndex
         /\ \A k \in Registered :
              Failed(k) => \E n \in 1 .. Len(events) : events[n].StepIndex = k

\* With the activity handler, every failure of an uncancelled rollback has
\* been handed to the sink activity and its answer awaited before closing.
EscalationReachesSink ==
  (pc = "closed" /\ dlqHandler = "activity" /\ ~ctxCanceled) =>
    \A k \in Registered : Failed(k) => sink[k] \in {"saved", "lost"}

\* A rollback, once begun, comes to an end, provided that compensations and the
\* sink activity return in the end; a cancelled one even if none ever does.
RollbackTerminates ==
  /\ (CompensationFairness /\ SinkFairness) => (RollingBack ~> ~Open)
  /\ (RollingBack /\ ctxCanceled) ~> ~Open

-----------------------------------------------------------------------------
(* What the repository says of the saga and the code does not do.          *)

\* saga.go: if a step fails because the context is cancelled, "remaining
\* steps still execute to maximise cleanup".
RemainingStepsExecute ==
  pc = "closed" =>
    \A j, k \in Registered :
      (j < k /\ outcome[k] = "canceled") => j \in executed

-----------------------------------------------------------------------------
(* Refinement of the contract.                                             *)

PhaseOf ==
  CASE pc = "terminated" -> "terminated"
    [] RollingBack -> "rollingBack"
    [] pc \in {"forward", "awaitForward"} -> "running"
    [] pc = "closed" -> IF completed THEN "committed" ELSE "rolledBack"

\* A compensation that failed for good has been escalated, by a log line at
\* least.
SettledAs(result) ==
  IF result = "none" THEN "none" ELSE IF result = "ok" THEN "undone" ELSE "escalated"

SettledSteps == [k \in Indices |-> SettledAs(outcome[k])]

Contract == INSTANCE SagaContract WITH
  phase <- PhaseOf, registered <- Len(compensations), settled <- SettledSteps

\* The saga keeps every step or settles them one by one, newest first.
RefinesContract == Contract!Spec
=============================================================================
