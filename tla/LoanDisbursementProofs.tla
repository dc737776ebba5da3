----------------------- MODULE LoanDisbursementProofs -----------------------
(***************************************************************************)
(* What module LoanDisbursement promises, for any number of runs and of    *)
(* deployments, of attempts and of events that shift activity IDs: money   *)
(* moves only on a decision and at most once in a run, a deployment never  *)
(* changes the path of a run, success is backed by a transfer, and a       *)
(* failed run leaves only what it could not know of.                       *)
(***************************************************************************)
EXTENDS LoanDisbursement, TLAPS

-----------------------------------------------------------------------------
(* Deployments keep the path, and no money without a decision.             *)

\* Where the run has not yet passed the gate, and where it has.
Early == {"define", "kyc", "score", "gate"}
Late == {"reserve", "pivot", "disburse", "notify", "complete"}

Moving == Sent("reserve") \/ Sent("disburse")

Types ==
  /\ run \in Nat /\ code \in {0, 1} /\ marker \in {0, 1}
  /\ at \in Early \cup Late \cup {"return"}
  /\ \A q \in requests : q.run \in Nat /\ q.run <= run

\* The marker is what the code supported when the run began, and the code still
\* supports it unless it was rolled back.
MarkerIsSupported ==
  /\ at = "define" => marker = 0
  /\ (S!Open /\ ~rolledBack /\ marker = 1) => code = 1

\* The KYC result is there when it is looked at, and the run has got past it
\* only with a score that is good enough for its version.
ScoreWasChecked ==
  /\ at \in {"define", "kyc"} => kyc = "none"
  /\ (at \in {"gate"} \cup Late \/ Moving) =>
       kyc = "good" \/ (kyc = "low" /\ (marker = 0 \/ rolledBack))
  /\ (kyc = "low" /\ at \notin {"define", "kyc", "score"} /\ failedAt # "score"
        /\ ~rolledBack) => marker = 0

\* Requests are made after the gate, and the gate is passed on an approval.
GateWasPassed ==
  /\ at \in Early => ~Moving
  /\ (at \in Late \/ Moving) => (needsApproval => decision = "approve")

VInv == Types /\ MarkerIsSupported /\ ScoreWasChecked /\ GateWasPassed

\* A run starts at its first statement with nothing decided or asked for.
LEMMA VInvInit == Init => VInv
PROOF
<1> SUFFICES ASSUME Init PROVE VInv
  OBVIOUS
<1>1. Types
  BY DEF Init, Types, Early
<1>2. MarkerIsSupported
  BY DEF Init, MarkerIsSupported
<1>3. ~Moving
  BY DEF Init, Moving, Sent
<1>4. ScoreWasChecked /\ GateWasPassed
  BY <1>3 DEF Init, ScoreWasChecked, GateWasPassed, Late
<1>. QED  BY <1>1, <1>2, <1>4 DEF VInv

\* Nothing moves the money but the requests of this run.
LEMMA MovingUnchanged ==
  ASSUME UNCHANGED <<run, requests>>
  PROVE  Moving' = Moving
PROOF
  BY DEF Moving, Sent

\* A step that changes none of the variables the invariant is about.
LEMMA PathUntouched ==
  ASSUME VInv, UNCHANGED <<run, at, kyc, decision, needsApproval, failedAt, code, marker,
                           rolledBack, requests>>,
         S!Open' => S!Open
  PROVE  VInv'
PROOF
<1>1. Moving' = Moving
  BY MovingUnchanged
<1>. QED  BY <1>1 DEF VInv, Types, MarkerIsSupported, ScoreWasChecked, GateWasPassed

\* "return ..., err" keeps the invariant, except where the score is checked.
LEMMA ReturnErrorStep ==
  ASSUME VInv, NEW err, ReturnError(err), at # "return", kyc' = kyc, UNCHANGED <<codeVars, bankVars>>,
         S!Open, S!Open' => S!Open
  PROVE  VInv'
PROOF
<1>1. Moving' = Moving
  BY MovingUnchanged DEF ReturnError, bankVars
<1>2. Types' /\ MarkerIsSupported'
  BY DEF VInv, Types, MarkerIsSupported, ReturnError, codeVars, bankVars
<1>3. ScoreWasChecked'
  BY <1>1 DEF VInv, Types, ScoreWasChecked, ReturnError, codeVars, Early, Late
<1>4. GateWasPassed'
  BY <1>1 DEF VInv, GateWasPassed, ReturnError, Early, Late
<1>. QED  BY <1>2, <1>3, <1>4 DEF VInv

\* After the gate the statements follow each other.
LEMMA GoToStep ==
  ASSUME VInv, NEW stmt \in Late, at \in Late, GoTo(stmt), kyc' = kyc, failedAt' = failedAt,
         UNCHANGED <<codeVars, bankVars>>, S!Open' => S!Open
  PROVE  VInv'
PROOF
<1>1. Moving' = Moving
  BY MovingUnchanged DEF GoTo, bankVars
<1>2. Types' /\ MarkerIsSupported'
  BY DEF VInv, Types, MarkerIsSupported, GoTo, codeVars, bankVars, Late
<1>3. ScoreWasChecked'
  BY <1>1 DEF VInv, ScoreWasChecked, GoTo, codeVars, Late
<1>4. GateWasPassed'
  BY <1>1 DEF VInv, GateWasPassed, GoTo, Early, Late
<1>. QED  BY <1>2, <1>3, <1>4 DEF VInv

\* A request is made by the run at a statement where it may be made.
LEMMA RequestStep ==
  ASSUME VInv, NEW op, NEW id, NEW n, at \in Late \/ op = "release",
         requests' = requests \cup {Request(op, id, n)},
         UNCHANGED <<run, at, kyc, decision, needsApproval, failedAt, codeVars>>,
         S!Open' => S!Open
  PROVE  VInv'
PROOF
<1>1. \A q \in requests' : q \in requests \/ (q.run = run /\ q.op = op)
  BY DEF Request
<1>2. Moving' => Moving \/ at \in Late
  BY <1>1 DEF Moving, Sent
<1>3. Moving => Moving'
  BY DEF Moving, Sent
<1>4. Types' /\ MarkerIsSupported'
  BY <1>1 DEF VInv, Types, MarkerIsSupported, codeVars
<1>5. ScoreWasChecked'
  BY <1>2 DEF VInv, ScoreWasChecked, codeVars
<1>6. GateWasPassed'
  BY <1>2 DEF VInv, GateWasPassed, Early, Late
<1>. QED  BY <1>4, <1>5, <1>6 DEF VInv

\* Every statement, answer, signal and deployment keeps a run where its checks
\* have let it pass.
LEMMA VInvStep == VInv /\ [Next]_vars => VInv'
PROOF
<1> SUFFICES ASSUME VInv, [Next]_vars PROVE VInv'
  OBVIOUS
<1>t. Types /\ MarkerIsSupported /\ ScoreWasChecked /\ GateWasPassed
  BY DEF VInv
<1>1. CASE Define
  <2>1. Moving' = Moving
    BY <1>1, MovingUnchanged DEF Define, bankVars
  <2>2. Types' /\ MarkerIsSupported'
    BY <1>1, <1>t DEF Define, Types, MarkerIsSupported, bankVars, Early
  <2>3. ScoreWasChecked' /\ GateWasPassed'
    BY <1>1, <1>t, <2>1 DEF Define, ScoreWasChecked, GateWasPassed, Early, Late
  <2>. QED  BY <2>2, <2>3 DEF VInv
<1>2. ASSUME NEW n \in 0 .. MaxEvents, ExecuteActivity(n) PROVE VInv'
  <2>1. S!Open /\ UNCHANGED <<runVars, codeVars>>
    BY <1>2 DEF ExecuteActivity, S!ExecuteForward, S!Open
  <2>2. CASE requests' = requests
    BY <2>1, <2>2, PathUntouched DEF runVars, codeVars
  <2>3. CASE at \in {"reserve", "disburse"} /\ Schedule(at, n)
    BY <2>1, <2>3, RequestStep DEF Schedule, runVars, Late
  <2>. QED  BY <1>2, <2>2, <2>3 DEF ExecuteActivity
<1>3. CASE ExecuteCanceled
  <2>1. S!Open /\ kyc' = kyc /\ UNCHANGED <<codeVars, bankVars>>
    BY <1>3 DEF ExecuteCanceled, S!Open
  <2>2. CASE at # "return" /\ \E err : ReturnError(err)
    BY <2>1, <2>2, ReturnErrorStep
  <2>3. CASE at = "notify" /\ GoTo("complete")
    BY <2>1, <2>3, GoToStep DEF GoTo, Late
  <2>. QED  BY <1>3, <2>2, <2>3 DEF ExecuteCanceled
<1>4. CASE CheckScore
  <2>1. at = "score" /\ S!Open /\ kyc' = kyc /\ UNCHANGED <<codeVars, bankVars>>
    BY <1>4 DEF CheckScore, S!Open
  <2>2. CASE at # "return" /\ \E err : ReturnError(err)
    BY <2>1, <2>2, ReturnErrorStep
  <2>3. CASE /\ kyc = "good" \/ (kyc = "low" /\ ~IsEnabled)
             /\ GoTo(IF needsApproval THEN "gate" ELSE "reserve")
    <3>1. at' \in {"gate", "reserve"} /\ (at' = "reserve" => ~needsApproval)
          /\ UNCHANGED <<run, needsApproval, decision, failedAt>>
      BY <2>3 DEF GoTo
    <3>2. kyc = "good" \/ (kyc = "low" /\ (marker = 0 \/ rolledBack))
      BY <1>t, <2>1, <2>3 DEF Types, MarkerIsSupported, IsEnabled
    <3>3. Moving' = Moving /\ ~Moving
      BY <1>t, <2>1, <3>1, MovingUnchanged DEF bankVars, GateWasPassed, Early
    <3>4. Types' /\ MarkerIsSupported'
      BY <1>t, <2>1, <3>1 DEF Types, MarkerIsSupported, codeVars, bankVars, Early, Late
    <3>5. ScoreWasChecked'
      BY <2>1, <3>1, <3>2, <3>3 DEF ScoreWasChecked, codeVars
    <3>6. GateWasPassed'
      BY <2>1, <3>1, <3>3 DEF GateWasPassed, Early, Late
    <3>. QED  BY <3>4, <3>5, <3>6 DEF VInv
  <2>. QED  BY <1>4, <2>1, <2>2, <2>3 DEF CheckScore
<1>5. CASE SetPivot \/ ReserveReturns \/ DisburseReturns
  <2>1. /\ S!Open /\ kyc' = kyc /\ UNCHANGED <<codeVars, bankVars>> /\ at \in Late
        /\ \E stmt \in Late : GoTo(stmt)
    BY <1>5 DEF SetPivot, ReserveReturns, DisburseReturns, S!SetPivot, S!ForwardSucceeds,
                S!ForwardRegistersNothing, S!Open, Late
  <2>. QED  BY <2>1, GoToStep DEF GoTo
<1>6. CASE Complete
  <2>1. /\ S!Open /\ at = "complete" /\ at' = "return"
        /\ UNCHANGED <<run, needsApproval, kyc, decision, failedAt, codeVars, bankVars>>
    BY <1>6 DEF Complete, S!Complete, S!Open
  <2>2. Moving' = Moving
    BY <2>1, MovingUnchanged DEF bankVars
  <2>3. Types' /\ MarkerIsSupported'
    BY <1>t, <2>1 DEF Types, MarkerIsSupported, codeVars, bankVars
  <2>4. ScoreWasChecked' /\ GateWasPassed'
    BY <1>t, <2>1, <2>2 DEF ScoreWasChecked, GateWasPassed, Early, Late, codeVars
  <2>. QED  BY <2>3, <2>4 DEF VInv
<1>7. CASE Return
  BY <1>7, PathUntouched DEF Return, S!Return, S!Open, runVars, codeVars, bankVars
<1>8. ASSUME NEW n \in 0 .. MaxEvents, ExecuteRelease(n) PROVE VInv'
  <2>1. S!Open /\ UNCHANGED <<runVars, codeVars>>
    BY <1>8 DEF ExecuteRelease, S!ExecuteCompensation, S!Open
  <2>2. CASE requests' = requests
    BY <2>1, <2>2, PathUntouched DEF runVars, codeVars
  <2>3. CASE Schedule("release", n)
    BY <2>1, <2>3, RequestStep DEF Schedule, runVars
  <2>. QED  BY <1>8, <2>2, <2>3 DEF ExecuteRelease
<1>9. ASSUME NEW r \in {"rejected", "low", "good"}, KYCReturns(r) PROVE VInv'
  <2>1. /\ S!Open /\ at = "kyc" /\ at' = "score"
        /\ UNCHANGED <<run, needsApproval, decision, failedAt, codeVars, bankVars>>
    BY <1>9 DEF KYCReturns, GoTo, S!ForwardRegistersNothing, S!Open
  <2>2. Moving' = Moving /\ ~Moving
    BY <1>t, <2>1, MovingUnchanged DEF bankVars, GateWasPassed, Early
  <2>3. Types' /\ MarkerIsSupported'
    BY <1>t, <2>1 DEF Types, MarkerIsSupported, codeVars, bankVars, Early
  <2>4. ScoreWasChecked' /\ GateWasPassed'
    BY <2>1, <2>2 DEF ScoreWasChecked, GateWasPassed, Early, Late
  <2>. QED  BY <2>3, <2>4 DEF VInv
<1>10. CASE ActivityFails
  <2>1. S!Open /\ kyc' = kyc /\ UNCHANGED <<codeVars, bankVars>>
    BY <1>10 DEF ActivityFails, S!ForwardRegistersNothing, S!Open
  <2>2. CASE at # "return" /\ \E err : ReturnError(err)
    BY <2>1, <2>2, ReturnErrorStep
  <2>3. CASE at = "notify" /\ GoTo("complete")
    BY <2>1, <2>3, GoToStep DEF GoTo, Late
  <2>. QED  BY <1>10, <2>2, <2>3 DEF ActivityFails
<1>11. CASE GateReturns
  <2>1. at = "gate" /\ S!Open /\ kyc' = kyc /\ UNCHANGED <<codeVars, bankVars>>
    BY <1>11 DEF GateReturns, S!Open
  <2>2. CASE at # "return" /\ \E err : ReturnError(err)
    BY <2>1, <2>2, ReturnErrorStep
  <2>3. CASE PassesGate /\ GoTo("reserve")
    <3>1. /\ decision' = "approve" /\ at' = "reserve"
          /\ UNCHANGED <<run, needsApproval, decision, failedAt>>
      BY <2>3 DEF PassesGate, GoTo
    <3>2. Moving' = Moving
      BY <2>1, <3>1, MovingUnchanged DEF bankVars
    <3>3. Types' /\ MarkerIsSupported'
      BY <1>t, <2>1, <3>1 DEF Types, MarkerIsSupported, codeVars, bankVars, Late
    <3>4. ScoreWasChecked' /\ GateWasPassed'
      BY <1>t, <2>1, <3>1, <3>2 DEF ScoreWasChecked, GateWasPassed, Early, Late, codeVars
    <3>. QED  BY <3>3, <3>4 DEF VInv
  <2>. QED  BY <1>11, <2>1, <2>2, <2>3 DEF GateReturns
<1>12. CASE ReleaseReturns
  BY <1>12, PathUntouched DEF ReleaseReturns, S!CompensationSucceeds, S!CompensationCanceled,
     S!Open, runVars, codeVars, bankVars
<1>13. ASSUME NEW q \in requests, BankApplies(q) PROVE VInv'
  BY <1>13, PathUntouched DEF BankApplies, sagaVars, runVars, codeVars, S!Open
<1>14. ASSUME NEW d \in {"approve", "reject"}, SignalWorkflow(d) PROVE VInv'
  <2>1. /\ at \in Early /\ S!Open
        /\ UNCHANGED <<pc, run, needsApproval, at, kyc, failedAt, codeVars, bankVars>>
    BY <1>14 DEF SignalWorkflow, Early, sagaVars
  <2>2. Moving' = Moving /\ ~Moving
    BY <1>t, <2>1, MovingUnchanged DEF bankVars, GateWasPassed
  <2>3. Types' /\ MarkerIsSupported'
    BY <1>t, <2>1 DEF Types, MarkerIsSupported, codeVars, bankVars, S!Open
  <2>4. ScoreWasChecked' /\ GateWasPassed'
    BY <1>t, <2>1, <2>2 DEF ScoreWasChecked, GateWasPassed, Early, Late, codeVars
  <2>. QED  BY <2>3, <2>4 DEF VInv
<1>15. ASSUME NEW c \in {0, 1}, Deploy(c) PROVE VInv'
  <2>1. /\ code' = c /\ rolledBack' = (rolledBack \/ (c < code /\ S!Open))
        /\ UNCHANGED <<sagaVars, runVars, marker, bankVars>>
    BY <1>15 DEF Deploy
  <2>2. Moving' = Moving
    BY <2>1, MovingUnchanged DEF bankVars, runVars
  <2>3. rolledBack => rolledBack'
    BY <2>1
  <2>4. Types' /\ MarkerIsSupported'
    <3>1. Types'
      BY <1>t, <2>1 DEF Types, runVars, bankVars
    <3>2. S!Open' = S!Open
      BY <2>1 DEF sagaVars, S!Open
    <3>3. (S!Open /\ ~rolledBack' /\ marker = 1) => c = 1
      <4>1. (c < code /\ S!Open) => rolledBack'
        BY <2>1, Zenon
      <4>2. code \in {0, 1} /\ c \in {0, 1}
        BY <1>t DEF Types
      <4>3. (S!Open /\ ~rolledBack /\ marker = 1) => code = 1
        BY <1>t DEF MarkerIsSupported
      <4>. QED  BY <2>3, <4>1, <4>2, <4>3
    <3>. QED  BY <1>t, <2>1, <3>1, <3>2, <3>3 DEF MarkerIsSupported, runVars
  <2>5. ScoreWasChecked' /\ GateWasPassed'
    BY <1>t, <2>1, <2>2, <2>3 DEF ScoreWasChecked, GateWasPassed, runVars
  <2>. QED  BY <2>4, <2>5 DEF VInv
<1>16. CASE CancelWorkflow \/ TerminateWorkflow
  BY <1>16, PathUntouched DEF CancelWorkflow, TerminateWorkflow, S!CancelWorkflow,
     S!TerminateWorkflow, S!Open, runVars, codeVars, bankVars
<1>17. ASSUME NEW needed \in BOOLEAN, StartRun(needed) PROVE VInv'
  <2>1. /\ run' = run + 1 /\ at' = "define" /\ kyc' = "none" /\ marker' = 0
        /\ UNCHANGED <<code, requests>>
    BY <1>17 DEF StartRun
  <2>2. ~Moving'
    BY <1>t, <2>1 DEF Moving, Sent, Types, bankVars
  <2>3. Types' /\ MarkerIsSupported'
    BY <1>t, <2>1 DEF Types, MarkerIsSupported, bankVars, Early
  <2>4. ScoreWasChecked' /\ GateWasPassed'
    BY <2>1, <2>2 DEF ScoreWasChecked, GateWasPassed, Late
  <2>. QED  BY <2>3, <2>4 DEF VInv
<1>18. ASSUME NEW op \in BankOps, RetryActivity(op) PROVE VInv'
  <2>1. at \in Late \/ op = "release"
    BY <1>18 DEF RetryActivity, Awaited, BankOps, Late
  <2>2. UNCHANGED <<pc, runVars, codeVars>>
    BY <1>18 DEF RetryActivity, sagaVars
  <2>. QED  BY <1>18, <2>1, <2>2, RequestStep DEF RetryActivity, runVars, S!Open
<1>19. CASE UNCHANGED vars
  BY <1>19, PathUntouched DEF vars, sagaVars, runVars, codeVars, bankVars, S!Open
<1>. QED  BY <1>1, <1>2, <1>3, <1>4, <1>5, <1>6, <1>7, <1>8, <1>9, <1>10, <1>11, <1>12,
             <1>13, <1>14, <1>15, <1>16, <1>17, <1>18, <1>19
             DEF Next, Coroutine, ActivityReturns

\* In every reachable state a recorded version is one the deployed code knows
\* unless it was withdrawn, and the workflow stands only where its checks have
\* let it pass: the inductive invariant of one run.
THEOREM LoanVInv == Spec => []VInv
PROOF
  BY VInvInit, VInvStep, PTL DEF Spec

\* No request of a run of LoanDisbursementWorkflow is sent before KYC, a needed
\* approval and the versioned check of the score, for any number of runs,
\* deployments and of requests that arrive late.
THEOREM LoanNoMoneyWithoutDecision == Spec => []NoMoneyWithoutDecision
PROOF
<1>1. VInv => NoMoneyWithoutDecision
  BY DEF VInv, ScoreWasChecked, GateWasPassed, Moving, NoMoneyWithoutDecision
<1>. QED  BY LoanVInv, <1>1, PTL

\* ChangeSet keeps a run on its path: the deployed code replays the history of
\* the run unless a version it had recorded was withdrawn.
THEOREM LoanDeploymentsKeepThePath == Spec => []DeploymentsKeepThePath
PROOF
<1>1. VInv => DeploymentsKeepThePath
  BY DEF VInv, ScoreWasChecked, DeploymentsKeepThePath, Replays, IsEnabled
<1>. QED  BY LoanVInv, <1>1, PTL

-----------------------------------------------------------------------------
(* The saga follows the workflow function.                                 *)

\* The statements after ReserveReturns.
Rest == {"pivot", "disburse", "notify", "complete"}

\* The reservation was confirmed to this run, so that its release is registered.
Committed == at \in Rest \/ (at = "return" /\ (result = "ok" \/ failedAt = "disburse"))

\* The saga stands where the workflow function has left it: the release is its
\* only step, it is registered when the reservation is confirmed, and Compensate
\* runs when the function has returned an error after that.
SagaFollows ==
  /\ dlqHandler = "none"
  /\ compensations = IF Committed THEN <<"ReleaseReservation">> ELSE <<>>
  /\ completed <=> result = "ok"
  /\ (pc = "closed" \/ S!RollingBack) => at = "return"
  /\ pc # "awaitSink"
  /\ at # "return" => result = "none" /\ failedAt = "none"
  /\ S!RollingBack => idx = 0 /\ ~completed /\ compensations # <<>>

\* The saga of a run that has just been started.
LEMMA SagaFollowsInit == Init => SagaFollows
PROOF
  BY DEF Init, SagaFollows, Committed, Rest, S!Init, S!NewSaga, S!RollingBack

\* The saga follows the workflow function through every statement of it, and
\* through cancellation and termination.
LEMMA SagaFollowsStep == SagaFollows /\ [Next]_vars => SagaFollows'
PROOF
<1> SUFFICES ASSUME SagaFollows, [Next]_vars PROVE SagaFollows'
  OBVIOUS
<1> USE DEF SagaFollows, Committed, Rest, S!RollingBack, sagaVars
<1>1. CASE Define \/ \E n \in 0 .. MaxEvents : ExecuteActivity(n)
  BY <1>1 DEF Define, ExecuteActivity, S!ExecuteForward, S!sagaFields, runVars
<1>2. CASE ExecuteCanceled
  BY <1>2 DEF ExecuteCanceled, ReturnError, GoTo
<1>3. CASE CheckScore
  BY <1>3 DEF CheckScore, ReturnError, GoTo
<1>4. CASE SetPivot
  BY <1>4 DEF SetPivot, S!SetPivot, GoTo
<1>5. CASE Complete
  BY <1>5 DEF Complete, S!Complete
<1>6. CASE Return
  BY <1>6 DEF Return, S!Return, S!Compensate, S!sagaFields, runVars
<1>7. ASSUME NEW n \in 0 .. MaxEvents, ExecuteRelease(n) PROVE SagaFollows'
  BY <1>7 DEF ExecuteRelease, S!ExecuteCompensation, S!CompensationFails, S!LoopNext,
     S!sagaFields, runVars
<1>8. ASSUME NEW r \in {"rejected", "low", "good"}, KYCReturns(r) PROVE SagaFollows'
  BY <1>8 DEF KYCReturns, S!ForwardRegistersNothing, S!sagaFields, GoTo
<1>9. CASE ReserveReturns
  BY <1>9 DEF ReserveReturns, S!ForwardSucceeds, S!AddCompensation, GoTo
<1>10. CASE DisburseReturns
  BY <1>10 DEF DisburseReturns, S!ForwardRegistersNothing, S!sagaFields, GoTo
<1>11. CASE ActivityFails
  BY <1>11 DEF ActivityFails, S!ForwardRegistersNothing, S!sagaFields, GoTo, ReturnError
<1>12. CASE GateReturns
  BY <1>12 DEF GateReturns, GoTo, ReturnError
<1>13. CASE ReleaseReturns
  BY <1>13 DEF ReleaseReturns, S!CompensationSucceeds, S!CompensationCanceled,
     S!CompensationFails, S!LoopNext, S!sagaFields, runVars
<1>14. ASSUME NEW q \in requests, BankApplies(q) PROVE SagaFollows'
  BY <1>14 DEF BankApplies, runVars
<1>15. ASSUME NEW d \in {"approve", "reject"}, SignalWorkflow(d) PROVE SagaFollows'
  BY <1>15 DEF SignalWorkflow
<1>16. ASSUME NEW c \in {0, 1}, Deploy(c) PROVE SagaFollows'
  BY <1>16 DEF Deploy, runVars
<1>17. CASE CancelWorkflow \/ TerminateWorkflow
  BY <1>17 DEF CancelWorkflow, TerminateWorkflow, S!CancelWorkflow, S!TerminateWorkflow,
     S!Open, S!sagaFields, runVars
<1>18. ASSUME NEW needed \in BOOLEAN, StartRun(needed) PROVE SagaFollows'
  BY <1>18 DEF StartRun
<1>19. ASSUME NEW op \in BankOps, RetryActivity(op) PROVE SagaFollows'
  BY <1>19 DEF RetryActivity, runVars
<1>20. CASE UNCHANGED vars
  BY <1>20 DEF vars, runVars
<1>. QED  BY <1>1, <1>2, <1>3, <1>4, <1>5, <1>6, <1>7, <1>8, <1>9, <1>10, <1>11, <1>12,
             <1>13, <1>14, <1>15, <1>16, <1>17, <1>18, <1>19, <1>20
             DEF Next, Coroutine, ActivityReturns

-----------------------------------------------------------------------------
(* The requests of a run and their keys.                                   *)

\* What the current run has asked of the bank, it has asked in the order of its
\* statements, and each of it by one activity.
RunRequests ==
  /\ Sent("reserve") =>
       Committed \/ (at = "reserve" /\ pc # "forward") \/ failedAt = "reserve"
  /\ Sent("disburse") => Committed /\ at # "pivot" /\ (at = "disburse" => pc # "forward")
  /\ Sent("release") => /\ compensations # <<>> /\ ~completed
                        /\ pc \notin {"forward", "awaitForward", "compensating"}

\* The bank acts on requests that were made, and the IDs of a run grow.
RequestTypes ==
  /\ run \in Runs /\ activityID \in Nat
  /\ applied \subseteq requests
  /\ \A q \in requests : q.run \in Runs /\ q.run <= run /\ q.op \in BankOps
  /\ \A q \in requests : q.run = run => \E id \in Nat : id <= activityID /\ q.key = <<id>>

\* Within a run a key stands for one operation, and all attempts share it.
OneKeyPerActivity ==
  \A p, q \in requests : p.run = q.run => (p.key = q.key <=> p.op = q.op)

\* The answer that is awaited is the one to the last request.
LastRequest == \A op \in Awaited : Request(op, activityID, attempt) \in requests

RInv == RunRequests /\ RequestTypes /\ OneKeyPerActivity /\ LastRequest

\* At first nothing was asked for.
LEMMA RInvInit == Init => RInv
PROOF
<1> SUFFICES ASSUME Init PROVE RInv
  OBVIOUS
<1>1. RunRequests /\ OneKeyPerActivity
  BY DEF Init, RunRequests, OneKeyPerActivity, Sent
<1>2. RequestTypes
  BY BoundsAssumption DEF Init, RequestTypes, Runs
<1>3. pc = "forward"
  BY DEF Init, S!Init
<1>4. LastRequest
  BY <1>3 DEF LastRequest, Awaited
<1>. QED  BY <1>1, <1>2, <1>4 DEF RInv

\* A step of the workflow function that asks nothing of the bank: it waits for
\* nothing at the bank afterwards, or for what it has waited for before.
LEMMA RInvUntouched ==
  ASSUME RInv, UNCHANGED <<run, activityID, attempt, requests, applied>>,
         (Sent("reserve") \/ Sent("disburse") \/ Sent("release")) /\ RunRequests =>
           RunRequests',
         \/ pc' \notin {"awaitForward", "awaitComp"}
         \/ pc' = pc /\ at' = at
         \/ pc' = "awaitForward" /\ at' \notin BankOps
  PROVE  RInv'
PROOF
<1>1. \A op : Sent(op)' = Sent(op)
  BY DEF Sent
<1>2. RunRequests'
  BY <1>1 DEF RInv, RunRequests
<1>3. RequestTypes' /\ OneKeyPerActivity'
  BY DEF RInv, RequestTypes, OneKeyPerActivity
<1>4. Awaited' \subseteq Awaited
  BY DEF Awaited
<1>5. \A op : Request(op, activityID, attempt)' = Request(op, activityID, attempt)
  BY DEF Request, Key
<1>6. LastRequest'
  BY <1>4, <1>5 DEF RInv, LastRequest
<1>. QED  BY <1>2, <1>3, <1>6 DEF RInv

\* The server schedules an activity of which this run has not asked before: its
\* ID is new in the run.
LEMMA RInvSchedules ==
  ASSUME RInv, NEW op \in BankOps, NEW n \in 0 .. MaxEvents, Schedule(op, n),
         UNCHANGED <<run, applied>>, ~Sent(op), RunRequests', Awaited' \subseteq {op}
  PROVE  RInv'
PROOF
<1> DEFINE id == activityID + 1 + n
           new == Request(op, id, 1)
<1>1. /\ activityID' = id /\ attempt' = 1 /\ requests' = requests \cup {new}
      /\ new = [run |-> run, op |-> op, key |-> <<id>>]
  BY DEF Schedule, Request, Key
<1>2. n \in Nat /\ activityID \in Nat /\ id \in Nat /\ activityID < id
  BY BoundsAssumption DEF RInv, RequestTypes
<1>3. new.run = run /\ new.op = op /\ new.key = <<id>>
  BY <1>1
<1>4. \A q \in requests : q.run = run => q.op # op /\ q.key # <<id>>
  <2> SUFFICES ASSUME NEW q \in requests, q.run = run PROVE q.op # op /\ q.key # <<id>>
    OBVIOUS
  <2>1. q.op # op
    BY DEF Sent
  <2>2. PICK k \in Nat : k <= activityID /\ q.key = <<k>>
    BY DEF RInv, RequestTypes
  <2>3. k # id
    BY <1>2, <2>2
  <2>. QED  BY <2>1, <2>2, <2>3
<1> HIDE DEF id, new
<1>5. RequestTypes'
  <2>1. \A q \in requests' :
          q.run = run' => \E k \in Nat : k <= activityID' /\ q.key = <<k>>
    <3> SUFFICES ASSUME NEW q \in requests', q.run = run
                 PROVE  \E k \in Nat : k <= id /\ q.key = <<k>>
      BY <1>1
    <3>1. CASE q = new
      BY <1>2, <1>3, <3>1
    <3>2. CASE q \in requests
      <4>1. PICK k \in Nat : k <= activityID /\ q.key = <<k>>
        BY <3>2 DEF RInv, RequestTypes
      <4>. QED  BY <1>2, <4>1
    <3>. QED  BY <1>1, <3>1, <3>2
  <2>2. run \in Runs /\ run <= run
    BY DEF RInv, RequestTypes, Runs
  <2>. QED  BY <1>1, <1>2, <1>3, <2>1, <2>2 DEF RInv, RequestTypes
<1>6. OneKeyPerActivity'
  BY <1>1, <1>3, <1>4 DEF RInv, OneKeyPerActivity
<1>7. LastRequest'
  <2>1. Request(op, activityID, attempt)' = new
    BY <1>1 DEF Request, Key
  <2>. QED  BY <1>1, <2>1 DEF LastRequest
<1>. QED  BY <1>5, <1>6, <1>7 DEF RInv

\* Another attempt of an activity repeats its request, key and all.
LEMMA RInvRetries ==
  ASSUME RInv, NEW op \in BankOps, RetryActivity(op)
  PROVE  RInv' /\ requests' = requests
PROOF
<1>1. Request(op, activityID, attempt + 1) = Request(op, activityID, attempt)
  BY DEF Request, Key
<1>2. requests' = requests
  BY <1>1 DEF RetryActivity, RInv, LastRequest
<1>3. /\ UNCHANGED <<run, activityID, applied, pc, at, compensations, completed, failedAt, result>>
  BY DEF RetryActivity, sagaVars, runVars
<1>4. RunRequests' /\ RequestTypes' /\ OneKeyPerActivity'
  BY <1>2, <1>3 DEF RInv, RunRequests, RequestTypes, OneKeyPerActivity, Sent, Committed
<1>5. Awaited' = Awaited
  BY <1>3 DEF Awaited
<1>6. \A o : Request(o, activityID, attempt)' = Request(o, activityID, attempt)
  BY <1>3 DEF Request, Key
<1>7. LastRequest'
  BY <1>2, <1>5, <1>6 DEF RInv, LastRequest
<1>. QED  BY <1>2, <1>4, <1>7 DEF RInv

\* The requests of a run keep to its statements and its keys to its activities.
LEMMA RInvStep == SagaFollows /\ RInv /\ [Next]_vars => RInv'
PROOF
<1> SUFFICES ASSUME SagaFollows, RInv, [Next]_vars PROVE RInv'
  OBVIOUS
<1> USE DEF SagaFollows, Committed, Rest, RunRequests, S!RollingBack, S!sagaFields, sagaVars,
            bankVars
<1>1. CASE Define
  BY <1>1, RInvUntouched DEF Define, Sent
<1>2. ASSUME NEW n \in 0 .. MaxEvents, ExecuteActivity(n) PROVE RInv'
  <2>1. /\ pc = "forward" /\ pc' = "awaitForward"
        /\ UNCHANGED <<run, applied, at, failedAt, result, compensations, completed>>
    BY <1>2 DEF ExecuteActivity, S!ExecuteForward, runVars
  <2>2. CASE at \in {"reserve", "disburse"} /\ Schedule(at, n)
    <3>1. ~Sent(at)
      BY <2>1, <2>2 DEF RInv
    <3>2. \A op : Sent(op)' => Sent(op) \/ op = at
      BY <2>1, <2>2 DEF Sent, Schedule, Request
    <3>3. RunRequests'
      BY <2>1, <2>2, <3>2 DEF RInv
    <3>4. Awaited' \subseteq {at}
      BY <2>1 DEF Awaited
    <3>. QED  BY <2>1, <2>2, <3>1, <3>3, <3>4, RInvSchedules DEF BankOps
  <2>3. CASE at \in {"kyc", "notify"} /\ UNCHANGED <<activityID, attempt, requests>>
    BY <2>1, <2>3, RInvUntouched DEF BankOps, Sent
  <2>. QED  BY <1>2, <2>2, <2>3 DEF ExecuteActivity
<1>3. CASE ExecuteCanceled
  BY <1>3, RInvUntouched DEF ExecuteCanceled, ReturnError, GoTo, Sent
<1>4. CASE CheckScore
  BY <1>4, RInvUntouched DEF CheckScore, ReturnError, GoTo, Sent
<1>5. CASE SetPivot
  BY <1>5, RInvUntouched DEF SetPivot, S!SetPivot, GoTo, Sent
<1>6. CASE Complete
  BY <1>6, RInvUntouched DEF Complete, S!Complete, Sent
<1>7. CASE Return
  BY <1>7, RInvUntouched DEF Return, S!Return, S!Compensate, runVars, Sent
<1>8. ASSUME NEW n \in 0 .. MaxEvents, ExecuteRelease(n) PROVE RInv'
  <2>1. /\ pc = "compensating" /\ idx = 0 /\ compensations # <<>> /\ ~completed
        /\ UNCHANGED <<run, applied, at, failedAt, result, compensations, completed>>
    BY <1>8 DEF ExecuteRelease, S!ExecuteCompensation, S!CompensationFails, runVars
  <2>2. CASE ctxCanceled /\ UNCHANGED <<activityID, attempt, requests>>
    <3>1. pc' = "closed"
      BY <1>8, <2>1, <2>2 DEF ExecuteRelease, S!ExecuteCompensation, S!CompensationFails,
         S!LoopNext
    <3>. QED  BY <2>1, <2>2, <3>1, RInvUntouched DEF Sent
  <2>3. CASE ~ctxCanceled /\ Schedule("release", n)
    <3>1. pc' = "awaitComp"
      BY <1>8, <2>3 DEF ExecuteRelease, S!ExecuteCompensation
    <3>2. ~Sent("release")
      BY <2>1 DEF RInv
    <3>3. \A op : Sent(op)' => Sent(op) \/ op = "release"
      BY <2>1, <2>3 DEF Sent, Schedule, Request
    <3>4. RunRequests'
      BY <2>1, <3>1, <3>3 DEF RInv
    <3>5. Awaited' \subseteq {"release"}
      BY <3>1 DEF Awaited
    <3>. QED  BY <2>1, <2>3, <3>2, <3>4, <3>5, RInvSchedules DEF BankOps
  <2>. QED  BY <1>8, <2>2, <2>3 DEF ExecuteRelease
<1>9. ASSUME NEW r \in {"rejected", "low", "good"}, KYCReturns(r) PROVE RInv'
  BY <1>9, RInvUntouched DEF KYCReturns, S!ForwardRegistersNothing, GoTo, Sent
<1>10. CASE ReserveReturns
  BY <1>10, RInvUntouched DEF ReserveReturns, S!ForwardSucceeds, S!AddCompensation, GoTo, Sent
<1>11. CASE DisburseReturns
  BY <1>11, RInvUntouched DEF DisburseReturns, S!ForwardRegistersNothing, GoTo, Sent
<1>12. CASE ActivityFails
  BY <1>12, RInvUntouched DEF ActivityFails, S!ForwardRegistersNothing, GoTo, ReturnError, Sent
<1>13. CASE GateReturns
  BY <1>13, RInvUntouched DEF GateReturns, GoTo, ReturnError, Sent
<1>14. CASE ReleaseReturns
  <2>1. /\ pc' = "closed" /\ compensations # <<>> /\ ~completed
        /\ UNCHANGED <<run, activityID, attempt, requests, applied, at, failedAt, result,
                       compensations, completed>>
    BY <1>14 DEF ReleaseReturns, S!CompensationSucceeds, S!CompensationCanceled,
       S!CompensationFails, S!LoopNext, runVars
  <2>. QED  BY <2>1, RInvUntouched DEF Sent
<1>15. ASSUME NEW q \in requests, BankApplies(q) PROVE RInv'
  <2>1. /\ applied' = applied \cup {q}
        /\ UNCHANGED <<requests, activityID, attempt, run, at, failedAt, result, pc,
                       compensations, completed>>
    BY <1>15 DEF BankApplies, runVars
  <2>2. RunRequests' /\ RequestTypes' /\ OneKeyPerActivity'
    BY <2>1 DEF RInv, RequestTypes, OneKeyPerActivity, Sent
  <2>3. Awaited' = Awaited
    BY <2>1 DEF Awaited
  <2>4. LastRequest'
    BY <2>1, <2>3 DEF RInv, LastRequest, Request, Key
  <2>. QED  BY <2>2, <2>4 DEF RInv
<1>16. ASSUME NEW d \in {"approve", "reject"}, SignalWorkflow(d) PROVE RInv'
  BY <1>16, RInvUntouched DEF SignalWorkflow, Sent
<1>17. ASSUME NEW c \in {0, 1}, Deploy(c) PROVE RInv'
  BY <1>17, RInvUntouched DEF Deploy, runVars, Sent
<1>18. CASE CancelWorkflow \/ TerminateWorkflow
  <2>1. /\ pc' \in {pc, "terminated"}
        /\ UNCHANGED <<run, activityID, attempt, requests, applied, at, failedAt, result,
                       compensations, completed>>
    BY <1>18 DEF CancelWorkflow, TerminateWorkflow, S!CancelWorkflow, S!TerminateWorkflow, runVars
  <2>. QED  BY <2>1, RInvUntouched DEF Sent
<1>19. ASSUME NEW needed \in BOOLEAN, StartRun(needed) PROVE RInv'
  <2>1. /\ run' = run + 1 /\ run < MaxRuns /\ activityID' = 0 /\ pc' = "forward"
        /\ UNCHANGED <<requests, applied>>
    BY <1>19 DEF StartRun
  <2>2. \A q \in requests' : q.run # run'
    BY <2>1 DEF RInv, RequestTypes, Runs
  <2>3. RunRequests'
    BY <2>1, <2>2 DEF Sent
  <2>4. RequestTypes'
    BY <2>1, <2>2, BoundsAssumption DEF RInv, RequestTypes, Runs
  <2>5. OneKeyPerActivity' /\ LastRequest'
    BY <2>1 DEF RInv, OneKeyPerActivity, LastRequest, Awaited
  <2>. QED  BY <2>3, <2>4, <2>5 DEF RInv
<1>20. ASSUME NEW op \in BankOps, RetryActivity(op) PROVE RInv'
  BY <1>20, RInvRetries
<1>21. CASE UNCHANGED vars
  BY <1>21, RInvUntouched DEF vars, runVars, Sent
<1>. QED  BY <1>1, <1>2, <1>3, <1>4, <1>5, <1>6, <1>7, <1>8, <1>9, <1>10, <1>11, <1>12,
             <1>13, <1>14, <1>15, <1>16, <1>17, <1>18, <1>19, <1>20, <1>21
             DEF Next, Coroutine, ActivityReturns

-----------------------------------------------------------------------------
(* What the bank has done.                                                 *)

Transferred(r) == \E q \in applied : q.run = r /\ q.op = "disburse"

\* A run has paid exactly when a transfer of it was applied.
PaidIsCounted ==
  /\ paid \in [Runs -> Nat]
  /\ \A r \in Runs : paid[r] = IF Transferred(r) THEN 1 ELSE 0

\* The bank holds the key of what the current run asked for as op.
Answered(op) ==
  \E q \in requests, p \in applied : q.run = run /\ q.op = op /\ p.key = q.key

\* What the workflow function was told, it was told by the bank: it has gone on,
\* or rolled back, only on a recorded answer.
AnswersWereTrue ==
  /\ compensations # <<>> => Answered("reserve")
  /\ (at \in {"notify", "complete"} \/ result = "ok") => Answered("disburse")
  /\ (pc = "closed" /\ compensations # <<>> /\ ~completed) =>
       ctxCanceled \/ Answered("release")

Done(op) == \E q \in applied : q.op = op

\* In the first run of a workflow ID the reservation is what this run made of it.
FirstRun ==
  run = 1 => reservation = IF Done("release") THEN "released"
                           ELSE IF Done("reserve") THEN "held" ELSE "none"

LInv == SagaFollows /\ RInv /\ PaidIsCounted /\ AnswersWereTrue /\ FirstRun

\* A run that has just been started, on an untouched bank.
LEMMA LInvInit == Init => LInv
PROOF
<1> SUFFICES ASSUME Init PROVE LInv
  OBVIOUS
<1>1. PaidIsCounted
  BY DEF Init, PaidIsCounted, Transferred
<1>2. AnswersWereTrue
  BY DEF Init, S!Init, S!NewSaga, AnswersWereTrue
<1>3. FirstRun
  BY DEF Init, FirstRun, Done
<1>. QED  BY <1>1, <1>2, <1>3, SagaFollowsInit, RInvInit DEF LInv

\* Only the bank changes what it has applied and paid.
LEMMA BankAlone ==
  ASSUME Next
  PROVE  \/ UNCHANGED <<applied, reservation, paid>>
         \/ \E q \in requests : BankApplies(q)
PROOF
<1>1. CASE Coroutine \/ ActivityReturns \/ GateReturns \/ ReleaseReturns
  BY <1>1 DEF Coroutine, ActivityReturns, Define, ExecuteActivity, ExecuteCanceled, CheckScore,
     SetPivot, Complete, Return, ExecuteRelease, KYCReturns, ReserveReturns, DisburseReturns,
     ActivityFails, GateReturns, ReleaseReturns, bankVars
<1>2. ASSUME NEW op \in BankOps, RetryActivity(op)
      PROVE  UNCHANGED <<applied, reservation, paid>>
  BY <1>2 DEF RetryActivity
<1>3. ASSUME NEW d, SignalWorkflow(d) PROVE UNCHANGED <<applied, reservation, paid>>
  BY <1>3 DEF SignalWorkflow, bankVars
<1>4. ASSUME NEW c, Deploy(c) PROVE UNCHANGED <<applied, reservation, paid>>
  BY <1>4 DEF Deploy, bankVars
<1>5. CASE CancelWorkflow \/ TerminateWorkflow
  BY <1>5 DEF CancelWorkflow, TerminateWorkflow, bankVars
<1>6. ASSUME NEW needed, StartRun(needed) PROVE UNCHANGED <<applied, reservation, paid>>
  BY <1>6 DEF StartRun
<1>. QED  BY <1>1, <1>2, <1>3, <1>4, <1>5, <1>6 DEF Next

\* A transfer that is applied is the first one of its run: another one would
\* have the same key.
LEMMA PaidIsCountedStep == RInv /\ PaidIsCounted /\ [Next]_vars => PaidIsCounted'
PROOF
<1> SUFFICES ASSUME RInv, PaidIsCounted, [Next]_vars PROVE PaidIsCounted'
  OBVIOUS
<1>1. CASE UNCHANGED <<applied, paid>>
  BY <1>1 DEF PaidIsCounted, Transferred
<1>2. ASSUME NEW q \in requests, BankApplies(q) PROVE PaidIsCounted'
  <2>1. /\ applied' = applied \cup {q} /\ \A p \in applied : p.key # q.key
        /\ paid' = IF q.op = "disburse" THEN [paid EXCEPT ![q.run] = @ + 1] ELSE paid
    BY <1>2 DEF BankApplies
  <2>2. q.run \in Runs /\ applied \subseteq requests
    BY DEF RInv, RequestTypes
  <2>3. \A r \in Runs :
          Transferred(r)' <=> Transferred(r) \/ (q.run = r /\ q.op = "disburse")
    BY <2>1 DEF Transferred
  <2>4. CASE q.op = "disburse"
    <3>1. ~Transferred(q.run)
      BY <2>1, <2>2, <2>4 DEF Transferred, RInv, OneKeyPerActivity
    <3>2. paid[q.run] = 0
      BY <2>2, <3>1 DEF PaidIsCounted
    <3>3. paid' = [paid EXCEPT ![q.run] = 1]
      BY <2>1, <2>2, <2>4, <3>2 DEF PaidIsCounted
    <3>. QED  BY <2>2, <2>3, <2>4, <3>3 DEF PaidIsCounted
  <2>5. CASE q.op # "disburse"
    BY <2>1, <2>3, <2>5 DEF PaidIsCounted
  <2>. QED  BY <2>4, <2>5
<1>3. CASE UNCHANGED vars
  BY <1>1, <1>3 DEF vars, bankVars
<1>. QED  BY <1>1, <1>2, <1>3, BankAlone

\* What the bank has answered to the current run stays answered.
LEMMA AnsweredStays ==
  ASSUME run' = run, requests \subseteq requests', applied \subseteq applied', NEW op, Answered(op)
  PROVE  Answered(op)'
PROOF
  BY DEF Answered

\* An answer that is awaited and recorded is the answer to this run's request.
LEMMA RecordedIsAnswered ==
  ASSUME RInv, Recorded, NEW op \in Awaited
  PROVE  Answered(op)
PROOF
<1> DEFINE q == Request(op, activityID, attempt)
<1>1. q \in requests
  BY DEF RInv, LastRequest
<1>2. q.run = run /\ q.op = op /\ q.key = Key(activityID, attempt)
  BY DEF Request
<1>3. PICK p \in applied : p.key = Key(activityID, attempt)
  BY DEF Recorded
<1> HIDE DEF q
<1>. QED  BY <1>1, <1>2, <1>3 DEF Answered

\* Every answer the workflow function acts on is one the bank has recorded.
LEMMA AnswersWereTrueStep ==
  SagaFollows /\ RInv /\ AnswersWereTrue /\ [Next]_vars => AnswersWereTrue'
PROOF
<1> SUFFICES ASSUME SagaFollows, RInv, AnswersWereTrue, [Next]_vars PROVE AnswersWereTrue'
  OBVIOUS
<1>0. ASSUME run' = run, requests \subseteq requests', applied \subseteq applied',
             compensations' # <<>> => compensations # <<>> \/ Answered("reserve"),
             at' \in {"notify", "complete"} \/ result' = "ok" =>
               at \in {"notify", "complete"} \/ result = "ok" \/ Answered("disburse"),
             pc' = "closed" /\ compensations' # <<>> /\ ~completed' =>
               \/ pc = "closed" /\ compensations # <<>> /\ ~completed /\ ctxCanceled = ctxCanceled'
               \/ ctxCanceled' \/ Answered("release")
      PROVE  AnswersWereTrue'
  BY <1>0, AnsweredStays DEF AnswersWereTrue
<1> USE DEF SagaFollows, S!RollingBack, S!sagaFields, sagaVars, bankVars
<1>1. CASE Define
  BY <1>0, <1>1 DEF Define
<1>2. ASSUME NEW n \in 0 .. MaxEvents, ExecuteActivity(n) PROVE AnswersWereTrue'
  BY <1>0, <1>2 DEF ExecuteActivity, Schedule, S!ExecuteForward, runVars
<1>3. CASE ExecuteCanceled
  BY <1>0, <1>3 DEF ExecuteCanceled, ReturnError, GoTo
<1>4. CASE CheckScore
  BY <1>0, <1>4 DEF CheckScore, ReturnError, GoTo
<1>5. CASE SetPivot
  BY <1>0, <1>5 DEF SetPivot, S!SetPivot, GoTo
<1>6. CASE Complete
  BY <1>0, <1>6 DEF Complete, S!Complete
<1>7. CASE Return
  BY <1>0, <1>7 DEF Return, S!Return, S!Compensate, runVars
<1>8. ASSUME NEW n \in 0 .. MaxEvents, ExecuteRelease(n) PROVE AnswersWereTrue'
  BY <1>0, <1>8 DEF ExecuteRelease, Schedule, S!ExecuteCompensation, S!CompensationFails,
     S!LoopNext, runVars
<1>9. ASSUME NEW r \in {"rejected", "low", "good"}, KYCReturns(r) PROVE AnswersWereTrue'
  BY <1>0, <1>9 DEF KYCReturns, S!ForwardRegistersNothing, GoTo
<1>10. CASE ReserveReturns
  <2>1. Answered("reserve")
    BY <1>10, RecordedIsAnswered DEF ReserveReturns, S!ForwardSucceeds, Awaited, BankOps
  <2>. QED  BY <1>0, <1>10, <2>1 DEF ReserveReturns, S!ForwardSucceeds, S!AddCompensation, GoTo
<1>11. CASE DisburseReturns
  <2>1. Answered("disburse")
    BY <1>11, RecordedIsAnswered DEF DisburseReturns, S!ForwardRegistersNothing, Awaited, BankOps
  <2>. QED  BY <1>0, <1>11, <2>1 DEF DisburseReturns, S!ForwardRegistersNothing, GoTo
<1>12. CASE ActivityFails
  BY <1>0, <1>12 DEF ActivityFails, S!ForwardRegistersNothing, GoTo, ReturnError
<1>13. CASE GateReturns
  BY <1>0, <1>13 DEF GateReturns, GoTo, ReturnError
<1>14. CASE ReleaseReturns
  <2>1. Recorded /\ S!CompensationSucceeds => Answered("release")
    BY RecordedIsAnswered DEF S!CompensationSucceeds, Awaited
  <2>. QED  BY <1>0, <1>14, <2>1 DEF ReleaseReturns, S!CompensationSucceeds,
            S!CompensationCanceled, S!CompensationFails, S!LoopNext, runVars
<1>15. ASSUME NEW q \in requests, BankApplies(q) PROVE AnswersWereTrue'
  BY <1>0, <1>15 DEF BankApplies, runVars
<1>16. ASSUME NEW d \in {"approve", "reject"}, SignalWorkflow(d) PROVE AnswersWereTrue'
  BY <1>0, <1>16 DEF SignalWorkflow
<1>17. ASSUME NEW c \in {0, 1}, Deploy(c) PROVE AnswersWereTrue'
  BY <1>0, <1>17 DEF Deploy, runVars
<1>18. CASE CancelWorkflow \/ TerminateWorkflow
  BY <1>0, <1>18 DEF CancelWorkflow, TerminateWorkflow, S!CancelWorkflow, S!TerminateWorkflow,
     runVars
<1>19. ASSUME NEW needed \in BOOLEAN, StartRun(needed) PROVE AnswersWereTrue'
  BY <1>19 DEF StartRun, AnswersWereTrue
<1>20. ASSUME NEW op \in BankOps, RetryActivity(op) PROVE AnswersWereTrue'
  BY <1>0, <1>20 DEF RetryActivity, runVars
<1>21. CASE UNCHANGED vars
  BY <1>0, <1>21 DEF vars, runVars
<1>. QED  BY <1>1, <1>2, <1>3, <1>4, <1>5, <1>6, <1>7, <1>8, <1>9, <1>10, <1>11, <1>12,
             <1>13, <1>14, <1>15, <1>16, <1>17, <1>18, <1>19, <1>20, <1>21
             DEF Next, Coroutine, ActivityReturns

\* In a first run there are no keys of other runs: what it was told is done was
\* done, and what was done it has asked for.
LEMMA FirstRunKnows ==
  ASSUME RInv, run = 1, NEW op \in BankOps
  PROVE  (Answered(op) => Done(op)) /\ (Done(op) => Sent(op))
PROOF
<1>1. \A q \in requests : q.run = 1
  BY DEF RInv, RequestTypes, Runs
<1>2. applied \subseteq requests
  BY DEF RInv, RequestTypes
<1>. QED  BY <1>1, <1>2 DEF RInv, OneKeyPerActivity, Answered, Done, Sent

\* A reservation comes before its release, because the release is asked for
\* when the reservation is confirmed.
LEMMA FirstRunStep == LInv /\ [Next]_vars => FirstRun'
PROOF
<1> SUFFICES ASSUME LInv, [Next]_vars PROVE FirstRun'
  OBVIOUS
<1>0. SagaFollows /\ RInv /\ AnswersWereTrue /\ FirstRun
  BY DEF LInv
<1>1. CASE UNCHANGED <<applied, reservation>> /\ (run' = 1 => run = 1)
  BY <1>0, <1>1 DEF FirstRun, Done
<1>2. ASSUME NEW q \in requests, BankApplies(q) PROVE FirstRun'
  <2>1. /\ applied' = applied \cup {q} /\ \A p \in applied : p.key # q.key
        /\ reservation' = (CASE q.op = "reserve" -> "held"
                             [] q.op = "release" -> "released"
                             [] q.op = "disburse" -> reservation)
        /\ run' = run
    BY <1>2 DEF BankApplies, runVars
  <2>2. \A op : Done(op)' <=> Done(op) \/ q.op = op
    BY <2>1 DEF Done
  <2>3. ASSUME run = 1, q.op = "reserve" PROVE ~Done("release")
    <3>1. Done("release") => Done("reserve")
      BY <1>0, <2>3, FirstRunKnows DEF AnswersWereTrue, RInv, RunRequests, BankOps
    <3>2. \A p \in applied : p.run = 1 /\ p \in requests
      BY <1>0, <2>3 DEF RInv, RequestTypes, Runs
    <3>3. q.run = 1
      BY <1>0, <2>3 DEF RInv, RequestTypes, Runs
    <3>4. ~Done("reserve")
      BY <1>0, <2>1, <2>3, <3>2, <3>3 DEF RInv, OneKeyPerActivity, Done
    <3>. QED  BY <3>1, <3>4
  <2>4. q.op \in {"reserve", "disburse", "release"}
    BY <1>0 DEF RInv, RequestTypes, BankOps
  <2>5. CASE q.op = "reserve"
    BY <2>1, <2>2, <2>3, <2>5 DEF FirstRun
  <2>6. CASE q.op = "release"
    BY <2>1, <2>2, <2>6 DEF FirstRun
  <2>7. CASE q.op = "disburse"
    BY <1>0, <2>1, <2>2, <2>7 DEF FirstRun
  <2>. QED  BY <2>4, <2>5, <2>6, <2>7
<1>3. CASE UNCHANGED vars
  BY <1>1, <1>3 DEF vars, bankVars, runVars
<1>4. ASSUME Next PROVE run' = run \/ run' = run + 1
  BY <1>4 DEF Next, Coroutine, ActivityReturns, Define, ExecuteActivity, ExecuteCanceled,
     CheckScore, SetPivot, Complete, Return, ExecuteRelease, KYCReturns, ReserveReturns,
     DisburseReturns, ActivityFails, GateReturns, ReleaseReturns, ReturnError, GoTo, BankApplies,
     RetryActivity, SignalWorkflow, Deploy, CancelWorkflow, TerminateWorkflow, StartRun, runVars
<1>5. run \in Nat /\ run >= 1
  BY <1>0 DEF RInv, RequestTypes, Runs
<1>. QED  BY <1>1, <1>2, <1>3, <1>4, <1>5, BankAlone

\* In every reachable state the saga stands where the workflow function left
\* it, a run's keys stand for its activities, answers acted upon are recorded at
\* the bank, and a first run accounts for everything the bank has done: the
\* inductive invariant behind the promises on payment, success and rollback.
THEOREM LoanLInv == Spec => []LInv
PROOF
<1>1. LInv /\ [Next]_vars => LInv'
  BY SagaFollowsStep, RInvStep, PaidIsCountedStep, AnswersWereTrueStep, FirstRunStep DEF LInv
<1>. QED  BY LInvInit, <1>1, PTL DEF Spec

\* IdempotencyKeyNoRetry: a run of LoanDisbursementWorkflow transfers the money
\* at most once, for any number of attempts, runs and deployments, whatever was
\* lost and however late it arrives.
THEOREM LoanPaidAtMostOnce == Spec => []PaidAtMostOnce
PROOF
<1>1. LInv => PaidAtMostOnce
  BY DEF LInv, PaidIsCounted, PaidAtMostOnce
<1>. QED  BY LoanLInv, <1>1, PTL

\* A run of LoanDisbursementWorkflow that reports success has transferred the
\* money, once, or was answered under a key of an earlier run; a first run has
\* transferred it, and its deferred Compensate has not released the reservation
\* behind it: for any number of runs, attempts and deployments.
THEOREM LoanSuccessIsBacked == Spec => []SuccessIsBacked
PROOF
<1>1. LInv => SuccessIsBacked
  <2> SUFFICES ASSUME LInv, Closed, result = "ok"
               PROVE  /\ \/ paid[run] = 1
                         \/ \E p \in applied, q \in requests :
                              /\ p.run < run /\ q.run = run /\ q.op = "disburse"
                              /\ p.key = q.key
                      /\ run = 1 => paid[1] = 1 /\ reservation = "held"
    BY DEF SuccessIsBacked
  <2>0. SagaFollows /\ RInv /\ PaidIsCounted /\ AnswersWereTrue /\ FirstRun
    BY DEF LInv
  <2>1. PICK q \in requests, p \in applied : q.run = run /\ q.op = "disburse" /\ p.key = q.key
    BY <2>0 DEF AnswersWereTrue, Answered
  <2>2. p \in requests /\ p.run \in Nat /\ run \in Runs /\ run \in Nat /\ p.run <= run
    BY <2>0 DEF RInv, RequestTypes, Runs
  <2>3. p.run = run => Transferred(run)
    BY <2>0, <2>1, <2>2 DEF RInv, OneKeyPerActivity, Transferred
  <2>4. paid[run] = 1 \/ p.run < run
    BY <2>0, <2>2, <2>3 DEF PaidIsCounted
  <2>5. run = 1 => Transferred(1)
    BY <2>0, <2>2, <2>3 DEF RInv, RequestTypes, Runs
  <2>6. run = 1 => paid[1] = 1
    BY <2>0, <2>2, <2>5 DEF PaidIsCounted
  <2>7. completed /\ compensations # <<>>
    BY <2>0 DEF SagaFollows, Committed, Closed
  <2>8. run = 1 => Done("reserve") /\ ~Done("release")
    BY <2>0, <2>7, FirstRunKnows DEF AnswersWereTrue, RInv, RunRequests, BankOps
  <2>9. run = 1 => reservation = "held"
    BY <2>0, <2>8 DEF FirstRun
  <2>. QED  BY <2>1, <2>4, <2>6, <2>9
<1>. QED  BY LoanLInv, <1>1, PTL

\* When an uncancelled first run fails, the saga has undone what was confirmed to
\* it: what remains at the bank is the effect of the very activity whose failure
\* the run reports, however late its requests arrive.
THEOREM LoanRollbackLeavesOnlyDoubt == Spec => []RollbackLeavesOnlyDoubt
PROOF
<1>1. LInv => RollbackLeavesOnlyDoubt
  <2> SUFFICES ASSUME LInv, Closed, run = 1, result # "ok", ~ctxCanceled
               PROVE  /\ reservation = "held" => failedAt = "reserve"
                      /\ paid[1] > 0 => failedAt = "disburse"
    BY DEF RollbackLeavesOnlyDoubt
  <2>0. SagaFollows /\ RInv /\ PaidIsCounted /\ AnswersWereTrue /\ FirstRun
    BY DEF LInv
  <2>1. at = "return" /\ ~completed
    BY <2>0 DEF SagaFollows, Closed
  <2>2. Committed => Done("release")
    BY <2>0, <2>1, FirstRunKnows DEF AnswersWereTrue, SagaFollows, Closed, BankOps
  <2>3. reservation = "held" => Done("reserve") /\ ~Done("release")
    BY <2>0 DEF FirstRun
  <2>4. \A op \in BankOps : Done(op) => Sent(op)
    BY <2>0, FirstRunKnows
  <2>5. reservation = "held" => failedAt = "reserve"
    BY <2>0, <2>1, <2>2, <2>3, <2>4 DEF RInv, RunRequests, BankOps
  <2>6. paid[1] > 0 => Done("disburse")
    BY <2>0 DEF PaidIsCounted, Transferred, Done, RInv, RequestTypes
  <2>7. paid[1] > 0 => Committed
    BY <2>0, <2>4, <2>6 DEF RInv, RunRequests, BankOps
  <2>8. paid[1] > 0 => failedAt = "disburse"
    BY <2>1, <2>7 DEF Committed, Rest
  <2>. QED  BY <2>5, <2>8
<1>. QED  BY LoanLInv, <1>1, PTL
=============================================================================
