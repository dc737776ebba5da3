-------------------------- MODULE LoanDisbursement --------------------------
(***************************************************************************)
(* examples/loan-disbursement: the workflow that composes the library's    *)
(* saga, approval gate, change set and idempotency keys, together with the *)
(* bank its activities call, deployments of the workflow's code, and later *)
(* runs under the same workflow ID.                                        *)
(*                                                                         *)
(* The saga is module Saga itself: every action below that concerns it is  *)
(* one of Saga's actions conjoined with what the loan does around it.  The *)
(* approval gate is reduced to what module Approval shows of it: the first *)
(* decision in the channel, or "not approved" when the timer fires or the  *)
(* workflow is cancelled.                                                  *)
(*                                                                         *)
(* External: the bank applies a request at most once per idempotency key   *)
(* and answers a repeated key with its recorded result, whatever it was    *)
(* recorded for.  An attempt may reach the bank at any time after its      *)
(* dispatch, also when nobody waits for it any more.  The ID of an         *)
(* activity is the ID of the event that schedules it, so that it depends   *)
(* on all that is in the run's history before.                             *)
(***************************************************************************)
EXTENDS Integers, Sequences, FiniteSets

CONSTANTS
  MaxRuns,     \* bound: runs of the workflow ID
  MaxDeploys,  \* bound: deployments during them
  MaxAttempts, \* bound: attempts of an activity
  MaxEvents    \* bound: signals, failed workflow tasks, markers and the like that
               \* shift the IDs of a run's activities

ASSUME BoundsAssumption ==
  /\ MaxRuns \in Nat \ {0} /\ MaxDeploys \in Nat
  /\ MaxAttempts \in Nat /\ MaxEvents \in Nat

VARIABLES
  \* the saga of the current run, see module Saga
  compensations, pivotIdx, completed, dlqHandler, pc, idx, ctxCanceled, wfErr,
  effect, outcome, executed, events, sink,
  \* the current run
  run,            \* 1, 2, ...
  needsApproval,  \* input.RequiresApproval || input.Amount > 100_000
  at,             \* the statement the workflow function has come to
  kyc,            \* kycResult
  decision,       \* the first approval signal: "none", "approve", "reject"
  result,         \* what the workflow function returned
  \* versioning
  code,           \* deployed code: 0 predates the change, 1 declares it
  marker,         \* version recorded in the run's history, 0 if none
  \* the bank
  activityID,     \* info.ActivityID of the run's last request to the bank
  attempt,        \* info.Attempt of it
  requests,       \* every request dispatched: [run, op, key]
  applied,        \* requests that took effect
  reservation,    \* "none", "held" or "released"
  paid,           \* how often each run has transferred the money
  \* history
  failedAt,       \* the statement whose error the run returned
  deploys,
  rolledBack      \* did a deployment of older code fall into this run?

S == INSTANCE Saga WITH Activities <- {"ReleaseReservation"}, MaxSteps <- 2

sagaVars == <<compensations, pivotIdx, completed, dlqHandler, pc, idx,
              ctxCanceled, wfErr, effect, outcome, executed, events, sink>>
runVars == <<run, needsApproval, at, kyc, decision, result, failedAt>>
codeVars == <<code, marker, deploys, rolledBack>>
bankVars == <<activityID, attempt, requests, applied, reservation, paid>>
vars == <<sagaVars, runVars, codeVars, bankVars>>

Runs == 1 .. MaxRuns
BankOps == {"reserve", "disburse", "release"}

\* The workflow function begins: NewSaga without a DLQ handler.
Init ==
  /\ S!Init /\ dlqHandler = "none"
  /\ run = 1 /\ needsApproval \in BOOLEAN
  /\ at = "define"
  /\ kyc = "none" /\ decision = "none" /\ result = "none" /\ failedAt = "none"
  /\ code \in {0, 1} /\ marker = 0 /\ deploys = 0 /\ rolledBack = FALSE
  /\ activityID = 0 /\ attempt = 0
  /\ requests = {} /\ applied = {}
  /\ reservation = "none" /\ paid = [r \in Runs |-> 0]

-----------------------------------------------------------------------------
(* Versioning.                                                             *)

\* changes.Define, at the top of the workflow: GetVersion records the highest
\* version the code supports, once, when the statement is first executed.
Define ==
  /\ at = "define" /\ pc = "forward"
  /\ marker' = code
  /\ at' = "kyc"
  /\ UNCHANGED <<sagaVars, run, needsApproval, kyc, decision, result, failedAt,
                 code, deploys, rolledBack, bankVars>>

\* Mistake: the change is a switch of the deployed code, not of the execution.
IsEnabledByDeployment == code >= 1

\* changes.IsEnabled, as the deployed code computes it when it replays the
\* history: DefaultVersion where no marker was recorded, and code that predates
\* the change never asks.
IsEnabled == code >= 1 /\ marker >= 1

\* Replaying the history with the deployed code leads where the history says:
\* a borrower with a low score who was let pass is let pass again.
Replays ==
  (/\ kyc = "low"
   /\ at \notin {"define", "kyc", "score"}
   /\ failedAt # "score") => ~IsEnabled

Deploy(c) ==
  /\ deploys < MaxDeploys
  /\ c # code
  /\ code' = c
  /\ deploys' = deploys + 1
  /\ rolledBack' = (rolledBack \/ (c < code /\ S!Open))
  /\ UNCHANGED <<sagaVars, runVars, marker, bankVars>>

-----------------------------------------------------------------------------
(* Activities and their keys.                                              *)

\* Mistake: IdempotencyKey, which names the attempt too.
KeyOfAttempt(id, n) == <<id, n>>

\* IdempotencyKeyNoRetry: workflow ID and activity ID, and nothing else.
Key(id, n) == <<id>>

\* The request that attempt n of the activity makes.
Request(op, id, n) == [run |-> run, op |-> op, key |-> Key(id, n)]

\* How far the IDs of this run have been shifted.
Shift == activityID - Cardinality({q \in requests : q.run = run})

\* The server schedules the activity op, after n other events, and its first
\* attempt begins.
Schedule(op, n) ==
  /\ Shift + n <= MaxEvents
  /\ activityID' = activityID + 1 + n
  /\ attempt' = 1
  /\ requests' = requests \cup {Request(op, activityID + 1 + n, 1)}

\* ExecuteActivity at the current statement.  The KYC check and the notification
\* ask nothing of the bank, so that their IDs do not matter.
ExecuteActivity(n) ==
  /\ S!ExecuteForward
  /\ \/ at \in {"reserve", "disburse"} /\ Schedule(at, n)
     \/ at \in {"kyc", "notify"} /\ UNCHANGED <<activityID, attempt, requests>>
  /\ UNCHANGED <<runVars, codeVars, applied, reservation, paid>>

\* The operation the run waits for at the bank.
Awaited == CASE pc = "awaitComp" -> {"release"}
             [] pc = "awaitForward" -> {at} \cap BankOps
             [] OTHER -> {}

\* An attempt has failed or timed out, and the server starts the next one of the
\* same activity; the request of the last one may still be under way.
RetryActivity(op) ==
  /\ op \in Awaited
  /\ attempt < MaxAttempts
  /\ attempt' = attempt + 1
  /\ requests' = requests \cup {Request(op, activityID, attempt + 1)}
  /\ UNCHANGED <<sagaVars, runVars, codeVars, activityID, applied, reservation, paid>>

\* The bank has recorded the key of the last request, for whichever request.
Recorded == \E q \in applied : q.key = Key(activityID, attempt)

\* A request reaches the bank.
BankApplies(q) ==
  /\ q \in requests
  /\ \A p \in applied : p.key # q.key
  /\ applied' = applied \cup {q}
  /\ reservation' = CASE q.op = "reserve" -> "held"
                      [] q.op = "release" -> "released"
                      [] q.op = "disburse" -> reservation
  /\ paid' = IF q.op = "disburse" THEN [paid EXCEPT ![q.run] = @ + 1] ELSE paid
  /\ UNCHANGED <<sagaVars, runVars, codeVars, activityID, attempt, requests>>

\* "return LoanDisbursementResult{}, err" at the current statement.
ReturnError(err) ==
  /\ result' = err
  /\ failedAt' = at
  /\ at' = "return"
  /\ UNCHANGED <<run, needsApproval, decision>>

GoTo(stmt) ==
  /\ at' = stmt
  /\ UNCHANGED <<run, needsApproval, decision, result, failedAt>>

\* The activity's retries are exhausted, it failed with a business error, it
\* ran into its ScheduleToCloseTimeout, or the workflow is cancelled.  Whether
\* the bank has seen the request, or will, is open.  The notification's error
\* is ignored.
ActivityFails ==
  /\ S!ForwardRegistersNothing
  /\ \/ at = "notify" /\ GoTo("complete")
     \/ at \in {"kyc", "reserve", "disburse"} /\ ReturnError("failed")
  /\ UNCHANGED <<kyc, codeVars, bankVars>>

\* Mistake: a notification that was never sent is waited for.
ExecuteCanceledButNotify ==
  /\ pc = "forward" /\ ctxCanceled
  /\ at \in {"kyc", "reserve", "disburse"} /\ ReturnError("failed")
  /\ UNCHANGED <<sagaVars, kyc, codeVars, bankVars>>

\* On a cancelled context nothing is dispatched.
ExecuteCanceled ==
  /\ pc = "forward" /\ ctxCanceled
  /\ \/ at = "notify" /\ GoTo("complete")
     \/ at \in {"kyc", "reserve", "disburse"} /\ ReturnError("failed")
  /\ UNCHANGED <<sagaVars, kyc, codeVars, bankVars>>

-----------------------------------------------------------------------------
(* The workflow function.                                                  *)

\* KYCCheckActivity answers.
KYCReturns(r) ==
  /\ at = "kyc"
  /\ S!ForwardRegistersNothing
  /\ kyc' = r
  /\ GoTo("score")
  /\ UNCHANGED <<codeVars, bankVars>>

\* !kycResult.Approved, then the versioned check of the score.
CheckScore ==
  /\ at = "score" /\ pc = "forward"
  /\ \/ kyc = "rejected" /\ ReturnError("BorrowerBlacklisted")
     \/ kyc = "low" /\ IsEnabled /\ ReturnError("InsufficientCreditScore")
     \/ /\ kyc = "good" \/ (kyc = "low" /\ ~IsEnabled)
        /\ GoTo(IF needsApproval THEN "gate" ELSE "reserve")
  /\ UNCHANGED <<sagaVars, kyc, codeVars, bankVars>>

\* An approver signals the run; only the first signal is ever received.
SignalWorkflow(d) ==
  /\ S!Open /\ at \in {"define", "kyc", "score", "gate"}
  /\ needsApproval /\ decision = "none"
  /\ decision' = d
  /\ UNCHANGED <<sagaVars, run, needsApproval, at, kyc, result, failedAt,
                 codeVars, bankVars>>

\* Mistake: only the error of WaitForApproval is looked at.
PassesGateUnlessError == decision # "none" \/ ctxCanceled

\* approval.Approved
PassesGate == decision = "approve"

\* WaitForApproval returns: a decision is there, the 48 hours are over, or the
\* workflow was cancelled, which the gate reports as a timeout.  It returns an
\* error at once for a run whose LoanID is empty: an input, here any run's.
GateReturns ==
  /\ at = "gate" /\ pc = "forward"
  /\ \/ PassesGate /\ GoTo("reserve")
     \/ ~PassesGate /\ ReturnError("LoanRejected")
     \/ ReturnError("EmptyApprovalID")
  /\ UNCHANGED <<sagaVars, kyc, codeVars, bankVars>>

\* Mistake: the compensation is left for later.
ReserveReturnsUnregistered ==
  /\ at = "reserve" /\ Recorded
  /\ S!ForwardRegistersNothing
  /\ GoTo("disburse")
  /\ UNCHANGED <<kyc, codeVars, bankVars>>

\* The reservation is confirmed and its release registered, in one step.
ReserveReturns ==
  /\ at = "reserve" /\ Recorded
  /\ S!ForwardSucceeds("ReleaseReservation")
  /\ GoTo("pivot")
  /\ UNCHANGED <<kyc, codeVars, bankVars>>

SetPivot ==
  /\ at = "pivot"
  /\ S!SetPivot
  /\ GoTo("disburse")
  /\ UNCHANGED <<kyc, codeVars, bankVars>>

DisburseReturns ==
  /\ at = "disburse" /\ Recorded
  /\ S!ForwardRegistersNothing
  /\ GoTo("notify")
  /\ UNCHANGED <<kyc, codeVars, bankVars>>

\* Mistake: the saga is never told.
CompleteForgotten ==
  /\ at = "complete" /\ pc = "forward"
  /\ result' = "ok"
  /\ at' = "return"
  /\ UNCHANGED <<sagaVars, run, needsApproval, kyc, decision, failedAt,
                 codeVars, bankVars>>

\* saga.Complete() and the result.
Complete ==
  /\ at = "complete"
  /\ S!Complete
  /\ result' = "ok"
  /\ at' = "return"
  /\ UNCHANGED <<run, needsApproval, kyc, decision, failedAt, codeVars,
                 bankVars>>

\* The function returns and the deferred Compensate begins.
Return ==
  /\ at = "return"
  /\ S!Return(IF result = "ok" THEN "none" ELSE "forwardError")
  /\ UNCHANGED <<runVars, codeVars, bankVars>>

\* Compensate executes ReleaseReservationActivity ...
ExecuteRelease(n) ==
  /\ S!ExecuteCompensation
  /\ \/ ctxCanceled /\ UNCHANGED <<activityID, attempt, requests>>
     \/ ~ctxCanceled /\ Schedule("release", n)
  /\ UNCHANGED <<runVars, codeVars, applied, reservation, paid>>

\* ... which is retried until the bank has answered, or is cancelled.
ReleaseReturns ==
  /\ \/ Recorded /\ S!CompensationSucceeds
     \/ S!CompensationCanceled
  /\ UNCHANGED <<runVars, codeVars, bankVars>>

-----------------------------------------------------------------------------
CancelWorkflow == S!CancelWorkflow /\ UNCHANGED <<runVars, codeVars, bankVars>>

TerminateWorkflow ==
  S!TerminateWorkflow /\ UNCHANGED <<runVars, codeVars, bankVars>>

\* The workflow ID is started again after its run has closed: a new history, and
\* a new saga.
StartRun(needed) ==
  /\ ~S!Open
  /\ run < MaxRuns
  /\ compensations' = <<>> /\ pivotIdx' = -1 /\ completed' = FALSE
  /\ pc' = "forward" /\ idx' = -1 /\ ctxCanceled' = FALSE /\ wfErr' = "none"
  /\ effect' = [k \in S!Indices |-> "none"]
  /\ outcome' = [k \in S!Indices |-> "none"] /\ executed' = {}
  /\ run' = run + 1 /\ needsApproval' = needed
  /\ at' = "define"
  /\ kyc' = "none" /\ decision' = "none" /\ result' = "none" /\ failedAt' = "none"
  /\ marker' = 0 /\ rolledBack' = FALSE
  /\ activityID' = 0 /\ attempt' = 0
  /\ UNCHANGED <<dlqHandler, events, sink, code, deploys, requests, applied,
                 reservation, paid>>

\* What the coroutine does by itself ...
Coroutine ==
  \/ \E n \in 0 .. MaxEvents : ExecuteActivity(n) \/ ExecuteRelease(n)
  \/ Define \/ ExecuteCanceled \/ CheckScore \/ SetPivot \/ Complete \/ Return

\* ... and what it does when an answer comes, an attempt at the bank included.
ActivityReturns ==
  \/ \E r \in {"rejected", "low", "good"} : KYCReturns(r)
  \/ ReserveReturns \/ DisburseReturns \/ ActivityFails

Next ==
  \/ Replays /\ (Coroutine \/ ActivityReturns \/ GateReturns \/ ReleaseReturns)
  \/ \E op \in BankOps : RetryActivity(op)
  \/ \E q \in requests : BankApplies(q)
  \/ \E d \in {"approve", "reject"} : SignalWorkflow(d)
  \/ \E c \in {0, 1} : Deploy(c)
  \/ CancelWorkflow
  \/ TerminateWorkflow
  \/ \E needed \in BOOLEAN : StartRun(needed)

\* Workflow tasks are handed out; activities have a ScheduleToCloseTimeout and
\* the gate a timer, so each of them ends; the release is retried until the
\* bank takes it.
Fairness ==
  /\ WF_vars(Replays /\ Coroutine)
  /\ WF_vars(Replays /\ ActivityReturns)
  /\ WF_vars(Replays /\ GateReturns)
  /\ WF_vars(Replays /\ ReleaseReturns)
  /\ WF_vars(\E q \in requests : q.op = "release" /\ BankApplies(q))

Spec == Init /\ [][Next]_vars /\ Fairness

-----------------------------------------------------------------------------
(* Properties.                                                             *)

Sent(op) == \E q \in requests : q.run = run /\ q.op = op
Closed == pc = "closed"

\* No request of a run reaches the bank before its borrower has passed the KYC
\* check, a needed approval was given by a signal, and the score is high enough
\* or the run began before the check was introduced (or the code that has it
\* was withdrawn while the run was open).
NoMoneyWithoutDecision ==
  (Sent("reserve") \/ Sent("disburse")) =>
    /\ kyc = "good" \/ (kyc = "low" /\ (marker = 0 \/ rolledBack))
    /\ needsApproval => decision = "approve"

\* A run transfers the money at most once, however often its activity was
\* attempted, whatever answers were lost and however late its requests arrive,
\* during later runs too.
PaidAtMostOnce == \A r \in Runs : paid[r] <= 1

\* A successful run has transferred the money, or was told so under a key that
\* an earlier run had used before it; in a first run only the former, and the
\* rollback deferred at its beginning has not released the reservation behind
\* the transfer.
SuccessIsBacked ==
  (Closed /\ result = "ok") =>
    /\ \/ paid[run] = 1
       \/ \E p \in applied, q \in requests :
            /\ p.run < run /\ q.run = run /\ q.op = "disburse"
            /\ p.key = q.key
    /\ run = 1 => paid[1] = 1 /\ reservation = "held"

\* When an uncancelled first run fails, the only effect it leaves at the bank
\* is the one of the very activity whose failure it reports: a reservation only
\* if the reservation was in doubt, a transfer only if the transfer was.
RollbackLeavesOnlyDoubt ==
  (Closed /\ run = 1 /\ result # "ok" /\ ~ctxCanceled) =>
    /\ reservation = "held" => failedAt = "reserve"
    /\ paid[1] > 0 => failedAt = "disburse"

\* A deployment never changes the path of a run that is under way: whatever was
\* deployed when, the code now running replays the run's history, unless a
\* version the run had seen was withdrawn.
DeploymentsKeepThePath == ~rolledBack => Replays

\* Every run ends, unless the deployed code cannot replay it.
LoanEnds == S!Open ~> (~S!Open \/ ~Replays)
=============================================================================
