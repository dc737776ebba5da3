----------------------------- MODULE SagaProofs -----------------------------
(***************************************************************************)
(* Proofs about Saga, for every set of activities and every number of      *)
(* steps: type correctness, the order and totality of the rollback, that   *)
(* every failed compensation is heard of and escalated, that a rollback    *)
(* is bounded, and that Saga implements SagaContract.                      *)
(***************************************************************************)
EXTENDS Saga, TLAPS

\* An activity takes effect only after it was dispatched, and it is
\* dispatched only once every later step has settled.
DispatchOrder ==
  /\ executed \subseteq Registered
  /\ \A k \in Indices : effect[k] = "undone" => k \in executed
  /\ \A k \in Registered : effect[k] # "none"
  /\ \A j, k \in Registered : (j < k /\ j \in executed) => outcome[k] # "none"

\* Before Compensate starts, nothing has been dispatched or settled; a
\* completed saga stays that way.
NothingUndoneYet ==
  /\ pc \in {"forward", "awaitForward"} =>
       executed = {} /\ \A k \in Indices : outcome[k] = "none"
  /\ completed => executed = {} /\ ~RollingBack

\* The loop's frontier: above idx everything is settled, below it nothing.
Frontier ==
  /\ RollingBack => \A k \in Registered : k > idx => outcome[k] # "none"
  /\ RollingBack => \A k \in Registered : k < idx => outcome[k] = "none"
  /\ pc \in {"compensating", "awaitComp"} => outcome[idx] = "none"
  /\ pc = "awaitComp" => idx \in executed
  /\ pc = "awaitSink" => outcome[idx] # "none"

\* What a recorded outcome says about the world.
OutcomesAreTrue ==
  /\ \A k \in Indices : outcome[k] = "ok" => effect[k] = "undone"
  /\ \A k \in Indices : outcome[k] = "canceled" => ctxCanceled

IInv ==
  /\ TypeOK
  /\ DispatchOrder
  /\ NothingUndoneYet
  /\ Frontier
  /\ OutcomesAreTrue
  /\ ClosedMeansSettled

-----------------------------------------------------------------------------
\* What CompensationFails does to the loop and to the handler's record, for a
\* step that is in the loop: used for every way a compensation can fail.
LEMMA CompensationFailsTypes ==
  ASSUME TypeOK, RollingBack, NEW err \in Failures, CompensationFails(err),
         UNCHANGED compensations
  PROVE  /\ pc' \in {"compensating", "awaitSink", "closed"}
         /\ idx' \in -1 .. MaxSteps - 1
         /\ pc' # "closed" => idx' \in Registered
         /\ outcome' \in [Indices -> {"none", "ok"} \cup Failures]
         /\ events' \in Seq(FailureEvents)
         /\ sink' \in [Indices -> {"none", "dispatched", "saved", "lost"}]
<1>1. idx \in Indices /\ idx \in Registered /\ Len(compensations) \in Nat
      /\ MaxSteps \in Nat
  BY MaxStepsAssumption DEF TypeOK, Registered, Indices
<1>2. LoopNext => /\ pc' \in {"compensating", "closed"}
                  /\ idx' \in -1 .. MaxSteps - 1
                  /\ pc' # "closed" => idx' \in Registered
  BY <1>1 DEF LoopNext, Indices, Registered
<1>3. CompensationFailureEvent(idx, err) \in FailureEvents
  <2>1. compensations[idx + 1] \in Activities
    BY <1>1 DEF TypeOK, Registered
  <2> QED BY <1>1, <2>1 DEF CompensationFailureEvent, FailureEvents
<1>4. outcome' \in [Indices -> {"none", "ok"} \cup Failures]
  BY <1>1 DEF CompensationFails, TypeOK
<1>5. ASSUME dlqHandler # "none" PROVE events' \in Seq(FailureEvents)
  <2>1. events \in Seq(FailureEvents)
    BY DEF TypeOK
  <2>2. events' = Append(events, CompensationFailureEvent(idx, err))
    BY <1>5 DEF CompensationFails
  <2> QED BY <1>3, <2>1, <2>2
<1>6. CASE dlqHandler = "none"
  BY <1>2, <1>4, <1>6 DEF CompensationFails, TypeOK
<1>7. CASE dlqHandler = "custom"
  <2>1. LoopNext /\ UNCHANGED sink
    BY <1>7 DEF CompensationFails
  <2> QED BY <1>2, <1>4, <1>5, <1>7, <2>1 DEF TypeOK
<1>8. CASE dlqHandler = "activity"
  <2>1. OnCompensationFailed
    BY <1>8 DEF CompensationFails
  <2> QED BY <1>1, <1>2, <1>4, <1>5, <1>8, <2>1 DEF OnCompensationFailed, TypeOK
<1> QED BY <1>6, <1>7, <1>8 DEF TypeOK, Handlers

\* A fresh saga, with no step registered (NewSaga), is well typed.
LEMMA InitTypeOK == Init => TypeOK
<1> SUFFICES ASSUME Init PROVE TypeOK
  OBVIOUS
<1>1. compensations \in Seq(Activities) /\ Len(compensations) = 0
      /\ events \in Seq(FailureEvents)
  BY DEF Init, NewSaga
<1>2. pc \in Locations /\ ~RollingBack /\ wfErr \in Errors
  BY DEF Init, RollingBack, Locations, Errors
<1>3. pivotIdx \in -1 .. MaxSteps /\ idx \in -1 .. MaxSteps - 1
  BY MaxStepsAssumption DEF Init, NewSaga
<1>4. /\ effect \in [Indices -> {"none", "applied", "undone"}]
      /\ outcome \in [Indices -> {"none", "ok"} \cup Failures]
      /\ sink \in [Indices -> {"none", "dispatched", "saved", "lost"}]
  BY DEF Init
<1>5. pc # "awaitForward" /\ Len(compensations) <= MaxSteps
  BY <1>1, MaxStepsAssumption DEF Init
<1> QED BY <1>1, <1>2, <1>3, <1>4, <1>5 DEF Init, NewSaga, TypeOK

\* Every action keeps every variable in its type.
LEMMA NextTypeOK == TypeOK /\ [Next]_vars => TypeOK'
<1> SUFFICES ASSUME TypeOK, [Next]_vars PROVE TypeOK'
  OBVIOUS
<1>0. MaxSteps \in Nat /\ Len(compensations) \in Nat
  BY MaxStepsAssumption DEF TypeOK
<1>1. CASE ExecuteForward
  BY <1>1 DEF ExecuteForward, TypeOK, RollingBack, Locations, sagaFields
<1>2. ASSUME NEW a \in Activities, ForwardSucceeds(a) PROVE TypeOK'
  <2>1. /\ compensations' \in Seq(Activities)
        /\ Len(compensations') = Len(compensations) + 1
    BY <1>2 DEF ForwardSucceeds, AddCompensation, TypeOK
  <2>2. Len(compensations) < MaxSteps /\ Len(compensations) \in Indices
    BY <1>0, <1>2 DEF ForwardSucceeds, TypeOK, Indices
  <2> QED BY <1>0, <1>2, <2>1, <2>2
         DEF ForwardSucceeds, TypeOK, RollingBack, Locations
<1>3. CASE ForwardRegistersNothing
  BY <1>3 DEF ForwardRegistersNothing, TypeOK, RollingBack, Locations, sagaFields
<1>4. CASE SetPivot
  BY <1>0, <1>4 DEF SetPivot, TypeOK, RollingBack, Registered
<1>5. CASE Complete
  BY <1>5 DEF Complete, TypeOK, RollingBack, Registered
<1>6. ASSUME NEW e \in Errors, Return(e) PROVE TypeOK'
  BY <1>0, <1>6
  DEF Return, Compensate, TypeOK, RollingBack, Registered, Locations, sagaFields
<1>7. CASE ExecuteCompensation
  <2>1. RollingBack /\ idx \in Indices
    BY <1>0, <1>7 DEF ExecuteCompensation, RollingBack, TypeOK, Registered, Indices
  <2>2. CASE ~ctxCanceled
    BY <1>7, <2>1, <2>2
    DEF ExecuteCompensation, TypeOK, RollingBack, Locations, Registered, sagaFields
  <2>3. CASE ctxCanceled
    <3>1. CompensationFails("canceled") /\ UNCHANGED compensations
      BY <1>7, <2>3 DEF ExecuteCompensation, sagaFields
    <3> QED BY <1>7, <2>1, <2>3, <3>1, CompensationFailsTypes
           DEF ExecuteCompensation, TypeOK, RollingBack, Locations, Registered,
               sagaFields, Failures
  <2> QED BY <2>2, <2>3
<1>8. CASE CompensationSucceeds
  <2>1. RollingBack /\ idx \in Indices /\ idx \in Registered
    BY <1>0, <1>8 DEF CompensationSucceeds, RollingBack, TypeOK, Registered, Indices
  <2> QED BY <1>0, <1>8, <2>1
         DEF CompensationSucceeds, LoopNext, TypeOK, RollingBack, Locations,
             Registered, Indices, sagaFields
<1>9. CASE CompensationReturnsError
  <2>1. RollingBack
    BY <1>9 DEF CompensationReturnsError, RollingBack
  <2>2. CompensationFails("nonRetryable") /\ UNCHANGED compensations
    BY <1>9 DEF CompensationReturnsError, PermanentErrors, sagaFields
  <2> QED BY <1>9, <2>1, <2>2, CompensationFailsTypes
         DEF CompensationReturnsError, TypeOK, RollingBack, Locations, Registered,
             sagaFields, Failures
<1>10. CASE CompensationCanceled
  <2>1. RollingBack
    BY <1>10 DEF CompensationCanceled, RollingBack
  <2>2. CompensationFails("canceled") /\ UNCHANGED compensations
    BY <1>10 DEF CompensationCanceled, sagaFields
  <2> QED BY <1>10, <2>1, <2>2, CompensationFailsTypes
         DEF CompensationCanceled, TypeOK, RollingBack, Locations, Registered,
             sagaFields, Failures
<1>11. ASSUME NEW v \in {"saved", "lost"}, SinkReturns(v) PROVE TypeOK'
  <2>1. RollingBack /\ idx \in Indices /\ idx \in Registered
    BY <1>0, <1>11 DEF SinkReturns, RollingBack, TypeOK, Registered, Indices
  <2> QED BY <1>0, <1>11, <2>1
         DEF SinkReturns, LoopNext, TypeOK, RollingBack, Locations, Registered,
             Indices, sagaFields
<1>12. CASE SinkCanceled
  <2>1. RollingBack /\ idx \in Indices /\ idx \in Registered
    BY <1>0, <1>12 DEF SinkCanceled, RollingBack, TypeOK, Registered, Indices
  <2> QED BY <1>0, <1>12, <2>1
         DEF SinkCanceled, LoopNext, TypeOK, RollingBack, Locations, Registered,
             Indices, sagaFields
<1>13. CASE CancelWorkflow
  BY <1>13 DEF CancelWorkflow, TypeOK, RollingBack, Registered, sagaFields
<1>14. CASE TerminateWorkflow
  BY <1>14 DEF TerminateWorkflow, TypeOK, RollingBack, Registered, Locations,
               sagaFields
<1>15. ASSUME NEW k \in Indices, AttemptApplies(k) PROVE TypeOK'
  BY <1>15 DEF AttemptApplies, TypeOK, RollingBack, Registered, sagaFields
<1>16. CASE UNCHANGED vars
  BY <1>16 DEF vars, TypeOK, RollingBack, Registered
<1> QED BY <1>1, <1>2, <1>3, <1>4, <1>5, <1>6, <1>7, <1>8, <1>9, <1>10, <1>11,
           <1>12, <1>13, <1>14, <1>15, <1>16 DEF Next

\* In every behaviour of a saga every variable keeps its type, and the loop
\* of Compensate only ever touches a registered step.
THEOREM SagaTypeOK == Spec => []TypeOK
BY InitTypeOK, NextTypeOK, PTL DEF Spec

-----------------------------------------------------------------------------
\* Moving on to the next index keeps the frontier, provided step idx has
\* settled and no step below it has; the loop ends only when all are settled.
LEMMA LoopNextKeepsFrontier ==
  ASSUME TypeOK, idx \in Registered, ~completed, LoopNext,
         UNCHANGED <<compensations, completed>>,
         \A k \in Registered : k >= idx => outcome'[k] # "none",
         \A k \in Registered : k < idx => outcome'[k] = "none"
  PROVE  Frontier' /\ ClosedMeansSettled'
<1>1. Len(compensations) \in Nat /\ idx \in Int /\ Registered' = Registered
  BY DEF TypeOK, Registered
<1>2. CASE idx = 0
  <2>1. pc' = "closed"
    BY <1>2 DEF LoopNext
  <2> QED BY <1>1, <1>2, <2>1
         DEF Frontier, ClosedMeansSettled, RollingBack, Registered
<1>3. CASE idx # 0
  <2>1. pc' = "compensating" /\ idx' = idx - 1
    BY <1>3 DEF LoopNext
  <2>2. idx' \in Registered
    BY <1>1, <1>3, <2>1 DEF Registered
  <2> QED BY <1>1, <2>1, <2>2
         DEF Frontier, ClosedMeansSettled, RollingBack, Registered
<1> QED BY <1>2, <1>3

\* However a compensation fails and whatever handler there is, the failed
\* step is settled and the loop goes on.
LEMMA CompensationFailsKeepsFrontier ==
  ASSUME IInv, pc \in {"compensating", "awaitComp"}, NEW err \in Failures,
         CompensationFails(err), UNCHANGED <<compensations, completed, executed>>
  PROVE  /\ Frontier' /\ ClosedMeansSettled' /\ NothingUndoneYet'
         /\ outcome' = [outcome EXCEPT ![idx] = err]
<1>1. /\ RollingBack /\ ~completed /\ TypeOK /\ Frontier
      /\ idx \in Registered /\ idx \in Indices
      /\ Len(compensations) \in Nat /\ Registered \subseteq Indices
      /\ Registered' = Registered
  BY MaxStepsAssumption
  DEF IInv, NothingUndoneYet, RollingBack, TypeOK, Registered, Indices
<1>2. outcome' = [outcome EXCEPT ![idx] = err] /\ err # "none"
  BY DEF CompensationFails, Failures
<1>3. /\ \A k \in Registered : k >= idx => outcome'[k] # "none"
      /\ \A k \in Registered : k < idx => outcome'[k] = "none"
  BY <1>1, <1>2 DEF Frontier, TypeOK, Registered
<1>4. CASE LoopNext
  <2>1. pc' \in {"closed", "compensating"}
    BY <1>4 DEF LoopNext
  <2> QED BY <1>1, <1>2, <1>3, <1>4, <2>1, LoopNextKeepsFrontier
         DEF NothingUndoneYet
<1>5. CASE pc' = "awaitSink" /\ idx' = idx
  BY <1>1, <1>2, <1>3, <1>5
  DEF Frontier, ClosedMeansSettled, NothingUndoneYet, RollingBack, Registered
<1>6. LoopNext \/ (pc' = "awaitSink" /\ idx' = idx)
  BY DEF CompensationFails, OnCompensationFailed
<1> QED BY <1>2, <1>4, <1>5, <1>6

\* A fresh saga satisfies the inductive invariant: nothing registered, nothing
\* settled.
LEMMA InitIInv == Init => IInv
<1> SUFFICES ASSUME Init PROVE IInv
  OBVIOUS
<1>1. TypeOK /\ Registered = {}
  BY InitTypeOK DEF Init, NewSaga, Registered
<1> QED BY <1>1
       DEF Init, NewSaga, IInv, DispatchOrder, NothingUndoneYet, Frontier,
           OutcomesAreTrue, ClosedMeansSettled, RollingBack

\* The step that carries the induction: one case per action.
LEMMA NextIInv == IInv /\ [Next]_vars => IInv'
<1> SUFFICES ASSUME IInv, [Next]_vars PROVE IInv'
  OBVIOUS
<1>0. /\ TypeOK /\ TypeOK' /\ Len(compensations) \in Nat
      /\ Registered \subseteq Indices
  BY NextTypeOK, MaxStepsAssumption DEF IInv, TypeOK, Registered, Indices
<1>1. CASE ExecuteForward
  BY <1>0, <1>1
  DEF ExecuteForward, sagaFields, IInv, DispatchOrder, NothingUndoneYet, Frontier,
      OutcomesAreTrue, ClosedMeansSettled, RollingBack, Registered
<1>2. ASSUME NEW a \in Activities, ForwardSucceeds(a) PROVE IInv'
  <2>1. /\ pc = "awaitForward" /\ pc' = "forward"
        /\ executed = {} /\ executed' = {} /\ outcome' = outcome
        /\ \A k \in Indices : outcome[k] = "none"
    BY <1>2 DEF ForwardSucceeds, IInv, NothingUndoneYet
  <2>2. /\ Len(compensations') = Len(compensations) + 1
        /\ Len(compensations) \in Indices
        /\ effect' = [effect EXCEPT ![Len(compensations)] = "applied"]
    BY <1>0, <1>2, MaxStepsAssumption
    DEF ForwardSucceeds, AddCompensation, TypeOK, Indices
  <2>3. Registered' = Registered \cup {Len(compensations)}
    BY <1>0, <2>2 DEF Registered
  <2>4. DispatchOrder'
    BY <1>0, <2>1, <2>2, <2>3 DEF IInv, DispatchOrder, TypeOK
  <2> QED BY <1>0, <1>2, <2>1, <2>4
         DEF ForwardSucceeds, IInv, NothingUndoneYet, Frontier, OutcomesAreTrue,
             ClosedMeansSettled, RollingBack
<1>3. CASE ForwardRegistersNothing
  BY <1>0, <1>3
  DEF ForwardRegistersNothing, sagaFields, IInv, DispatchOrder, NothingUndoneYet,
      Frontier, OutcomesAreTrue, ClosedMeansSettled, RollingBack, Registered
<1>4. CASE SetPivot
  BY <1>0, <1>4
  DEF SetPivot, IInv, DispatchOrder, NothingUndoneYet, Frontier, OutcomesAreTrue,
      ClosedMeansSettled, RollingBack, Registered
<1>5. CASE Complete
  BY <1>0, <1>5
  DEF Complete, IInv, DispatchOrder, NothingUndoneYet, Frontier, OutcomesAreTrue,
      ClosedMeansSettled, RollingBack, Registered
<1>6. ASSUME NEW e \in Errors, Return(e) PROVE IInv'
  <2>1. /\ pc = "forward" /\ UNCHANGED <<compensations, completed, executed,
                                         outcome, effect, ctxCanceled>>
        /\ Registered' = Registered
    BY <1>6 DEF Return, sagaFields, Registered
  <2>2. CASE completed \/ compensations = <<>>
    <3>1. pc' = "closed" /\ (~completed => Registered = {})
      BY <1>6, <2>2 DEF Return, Compensate, Registered
    <3> QED BY <1>0, <2>1, <3>1
           DEF IInv, DispatchOrder, NothingUndoneYet, Frontier, OutcomesAreTrue,
               ClosedMeansSettled, RollingBack
  <2>3. CASE ~(completed \/ compensations = <<>>)
    <3>1. pc' = "compensating" /\ idx' = Len(compensations) - 1
      BY <1>6, <2>3 DEF Return, Compensate
    <3>2. idx' \in Registered /\ \A k \in Registered : ~(k > idx')
      BY <1>0, <2>1, <3>1 DEF TypeOK, RollingBack, Registered
    <3> QED BY <1>0, <2>1, <2>3, <3>1, <3>2
           DEF IInv, DispatchOrder, NothingUndoneYet, Frontier, OutcomesAreTrue,
               ClosedMeansSettled, RollingBack
  <2> QED BY <2>2, <2>3
<1>7. ASSUME RollingBack
      PROVE  idx \in Registered /\ idx \in Indices /\ ~completed
  BY <1>0, <1>7 DEF TypeOK, IInv, NothingUndoneYet
<1>8. ASSUME NEW err \in Failures, CompensationFails(err),
             pc \in {"compensating", "awaitComp"},
             UNCHANGED <<sagaFields, ctxCanceled, effect, executed>>,
             err = "canceled" => ctxCanceled
      PROVE  IInv'
  <2>1. /\ Frontier' /\ ClosedMeansSettled' /\ NothingUndoneYet'
        /\ outcome' = [outcome EXCEPT ![idx] = err]
    BY <1>8, CompensationFailsKeepsFrontier DEF sagaFields
  <2>2. Registered' = Registered /\ err # "none" /\ err # "ok"
    BY <1>8 DEF sagaFields, Registered, Failures
  <2>3. idx \in Registered /\ idx \in Indices
    BY <1>7, <1>8 DEF RollingBack
  <2>4. DispatchOrder' /\ OutcomesAreTrue'
    BY <1>0, <1>8, <2>1, <2>2, <2>3 DEF IInv, DispatchOrder, OutcomesAreTrue, TypeOK
  <2> QED BY <1>0, <2>1, <2>4 DEF IInv
<1>9. CASE ExecuteCompensation
  <2>1. CASE ~ctxCanceled
    <3>1. /\ pc = "compensating" /\ pc' = "awaitComp" /\ RollingBack
          /\ executed' = executed \cup {idx}
          /\ UNCHANGED <<compensations, completed, idx, outcome, effect, ctxCanceled>>
          /\ Registered' = Registered
      BY <1>9, <2>1 DEF ExecuteCompensation, sagaFields, RollingBack, Registered
    <3>2. DispatchOrder'
      BY <1>0, <1>7, <3>1 DEF IInv, DispatchOrder, Frontier, RollingBack, Registered
    <3> QED BY <1>0, <1>7, <3>1, <3>2
           DEF IInv, NothingUndoneYet, Frontier, OutcomesAreTrue,
               ClosedMeansSettled, RollingBack
  <2>2. CASE ctxCanceled
    BY <1>8, <1>9, <2>2 DEF ExecuteCompensation, Failures
  <2> QED BY <2>1, <2>2
<1>10. CASE CompensationSucceeds
  <2>1. /\ pc = "awaitComp" /\ LoopNext /\ RollingBack
        /\ outcome' = [outcome EXCEPT ![idx] = "ok"]
        /\ effect' = [effect EXCEPT ![idx] = "undone"]
        /\ UNCHANGED <<compensations, completed, ctxCanceled, executed>>
        /\ Registered' = Registered
    BY <1>10 DEF CompensationSucceeds, sagaFields, RollingBack, Registered
  <2>2. /\ \A k \in Registered : k >= idx => outcome'[k] # "none"
        /\ \A k \in Registered : k < idx => outcome'[k] = "none"
    BY <1>0, <1>7, <2>1 DEF IInv, Frontier, TypeOK, Registered
  <2>3. Frontier' /\ ClosedMeansSettled'
    BY <1>0, <1>7, <2>1, <2>2, LoopNextKeepsFrontier
  <2>4. DispatchOrder' /\ OutcomesAreTrue'
    BY <1>0, <1>7, <2>1 DEF IInv, DispatchOrder, Frontier, OutcomesAreTrue, TypeOK
  <2>5. NothingUndoneYet'
    BY <1>7, <2>1 DEF NothingUndoneYet, LoopNext
  <2> QED BY <1>0, <2>3, <2>4, <2>5 DEF IInv
<1>11. CASE CompensationReturnsError
  BY <1>8, <1>11 DEF CompensationReturnsError, PermanentErrors, Failures
<1>12. CASE CompensationCanceled
  BY <1>8, <1>12 DEF CompensationCanceled, Failures
<1>13. ASSUME pc = "awaitSink", LoopNext,
              UNCHANGED <<sagaFields, ctxCanceled, effect, outcome, executed>>
       PROVE  IInv'
  <2>1. /\ RollingBack /\ Registered' = Registered
        /\ UNCHANGED <<compensations, completed, outcome>>
    BY <1>13 DEF RollingBack, sagaFields, Registered
  <2>2. /\ \A k \in Registered : k >= idx => outcome'[k] # "none"
        /\ \A k \in Registered : k < idx => outcome'[k] = "none"
    BY <1>0, <1>7, <1>13, <2>1 DEF IInv, Frontier, Registered
  <2>3. Frontier' /\ ClosedMeansSettled'
    BY <1>0, <1>7, <1>13, <2>1, <2>2, LoopNextKeepsFrontier
  <2>4. NothingUndoneYet'
    BY <1>7, <1>13, <2>1 DEF NothingUndoneYet, LoopNext
  <2> QED BY <1>0, <1>13, <2>1, <2>3, <2>4 DEF IInv, DispatchOrder, OutcomesAreTrue
<1>14. ASSUME NEW v \in {"saved", "lost"}, SinkReturns(v) PROVE IInv'
  BY <1>13, <1>14 DEF SinkReturns
<1>15. CASE SinkCanceled
  BY <1>13, <1>15 DEF SinkCanceled
<1>16. CASE CancelWorkflow
  BY <1>0, <1>16
  DEF CancelWorkflow, sagaFields, IInv, DispatchOrder, NothingUndoneYet, Frontier,
      OutcomesAreTrue, ClosedMeansSettled, RollingBack, Registered
<1>17. CASE TerminateWorkflow
  BY <1>0, <1>17
  DEF TerminateWorkflow, sagaFields, IInv, DispatchOrder, NothingUndoneYet,
      Frontier, OutcomesAreTrue, ClosedMeansSettled, RollingBack, Registered
<1>18. ASSUME NEW k \in Indices, AttemptApplies(k) PROVE IInv'
  <2>1. /\ k \in executed /\ effect' = [effect EXCEPT ![k] = "undone"]
        /\ UNCHANGED <<compensations, completed, pc, idx, ctxCanceled, outcome,
                       executed>>
        /\ Registered' = Registered
    BY <1>18 DEF AttemptApplies, sagaFields, Registered
  <2> QED BY <1>0, <2>1
         DEF IInv, DispatchOrder, NothingUndoneYet, Frontier, OutcomesAreTrue,
             ClosedMeansSettled, RollingBack, TypeOK
<1>19. CASE UNCHANGED vars
  BY <1>0, <1>19
  DEF vars, IInv, DispatchOrder, NothingUndoneYet, Frontier, OutcomesAreTrue,
      ClosedMeansSettled, RollingBack, Registered
<1> QED BY <1>1, <1>2, <1>3, <1>4, <1>5, <1>6, <1>9, <1>10, <1>11, <1>12, <1>14,
           <1>15, <1>16, <1>17, <1>18, <1>19 DEF Next

\* The inductive invariant holds in every reachable state: steps settle from
\* the newest down, their recorded outcomes are true, and Compensate leaves its
\* loop only when all of them are settled.
THEOREM SagaIInv == Spec => []IInv
BY InitIInv, NextIInv, PTL DEF Spec

\* No effect is undone before every later step's compensation has returned.
THEOREM SagaUndoRespectsOrder == Spec => []UndoRespectsOrder
<1>1. IInv => UndoRespectsOrder
  BY MaxStepsAssumption
  DEF IInv, DispatchOrder, UndoRespectsOrder, TypeOK, Registered, Indices
<1> QED BY <1>1, SagaIInv, PTL

\* A completed saga's effects are never undone.
THEOREM SagaCompleteKeepsEffects == Spec => []CompleteKeepsEffects
<1>1. IInv => CompleteKeepsEffects
  <2> SUFFICES ASSUME IInv, completed, NEW k \in Registered
               PROVE  effect[k] = "applied"
    BY DEF CompleteKeepsEffects
  <2>1. k \in Indices
    BY MaxStepsAssumption DEF IInv, TypeOK, Registered, Indices
  <2> QED BY <2>1 DEF IInv, DispatchOrder, NothingUndoneYet, TypeOK
<1> QED BY <1>1, SagaIInv, PTL

\* A saga that closes without Complete has settled every registered step.
THEOREM SagaClosedMeansSettled == Spec => []ClosedMeansSettled
<1>1. IInv => ClosedMeansSettled
  BY DEF IInv
<1> QED BY <1>1, SagaIInv, PTL

\* Without cancellation and non-retryable errors the rollback is total.
THEOREM SagaRollbackIsTotal == Spec => []UndisturbedRollbackIsTotal
<1>1. IInv => UndisturbedRollbackIsTotal
  <2> SUFFICES ASSUME IInv, pc = "closed", ~completed, ~ctxCanceled,
                      \A k \in Registered : outcome[k] # "nonRetryable",
                      NEW k \in Registered
               PROVE  effect[k] = "undone"
    BY DEF UndisturbedRollbackIsTotal
  <2>1. k \in Indices
    BY MaxStepsAssumption DEF IInv, TypeOK, Registered, Indices
  <2>2. outcome[k] # "none" /\ outcome[k] # "canceled"
    BY <2>1 DEF IInv, ClosedMeansSettled, OutcomesAreTrue
  <2> QED BY <2>1, <2>2 DEF IInv, OutcomesAreTrue, TypeOK, Failures
<1> QED BY <1>1, SagaIInv, PTL

-----------------------------------------------------------------------------
(* What the handler hears of, and what reaches the sink.                   *)

\* An event is about a registered step; with the rest of EventsMatchFailures
\* this is inductive, since the frontier of the loop says that the step that
\* fails next is older than every step an event is about.
EInv ==
  /\ \A n \in 1 .. Len(events) : events[n].StepIndex \in Registered
  /\ EventsMatchFailures

\* With the activity handler, of all failures of an uncancelled workflow only
\* the one whose sink activity is being awaited is not settled with the sink.
SInv ==
  (dlqHandler = "activity" /\ ~ctxCanceled /\ pc # "terminated") =>
    \A k \in Registered :
      Failed(k) => sink[k] \in {"saved", "lost"} \/ (pc = "awaitSink" /\ k = idx)

\* Steps that neither settle nor register anything keep the record.
LEMMA EventsUntouched ==
  ASSUME EInv, UNCHANGED <<compensations, dlqHandler, outcome, events>>
  PROVE  EInv'
BY DEF EInv, EventsMatchFailures, Failed, Registered

\* Before the rollback there is nothing to report.
LEMMA NoEventsYet ==
  ASSUME IInv, EInv, pc \in {"forward", "awaitForward"}
  PROVE  events = <<>>
<1>1. events \in Seq(FailureEvents)
  BY DEF IInv, TypeOK
<1>2. ASSUME NEW n \in 1 .. Len(events), dlqHandler # "none" PROVE FALSE
  <2>1. events[n].StepIndex \in Indices
    BY MaxStepsAssumption DEF EInv, IInv, TypeOK, Registered, Indices
  <2>2. outcome[events[n].StepIndex] = "none"
    BY <2>1 DEF IInv, NothingUndoneYet
  <2>3. outcome[events[n].StepIndex] \in Failures
    BY <1>2 DEF EInv, EventsMatchFailures, Failed
  <2> QED BY <2>2, <2>3 DEF Failures
<1>3. CASE dlqHandler = "none"
  BY <1>3 DEF EInv, EventsMatchFailures
<1>4. CASE dlqHandler # "none"
  <2>1. Len(events) \in Nat
    BY <1>1
  <2>2. Len(events) = 0
    BY <1>2, <1>4, <2>1
  <2> QED BY <1>1, <2>2
<1> QED BY <1>3, <1>4

\* In the loop every event is about a step above the loop variable, and that
\* step keeps its outcome when the step at the loop variable settles.
LEMMA EventsAreAbove ==
  ASSUME IInv, EInv, pc \in {"compensating", "awaitComp"}, dlqHandler # "none",
         NEW n \in 1 .. Len(events), NEW o,
         outcome' = [outcome EXCEPT ![idx] = o]
  PROVE  /\ events[n].StepIndex > idx
         /\ events[n].StepIndex \in Registered
         /\ outcome'[events[n].StepIndex] = outcome[events[n].StepIndex]
<1>1. /\ RollingBack /\ idx \in Registered /\ Registered \subseteq Indices
      /\ Len(compensations) \in Nat /\ Registered \subseteq Int
  BY MaxStepsAssumption DEF IInv, TypeOK, RollingBack, Registered, Indices
<1>2. events[n].StepIndex \in Registered /\ outcome[events[n].StepIndex] \in Failures
  BY DEF EInv, EventsMatchFailures, Failed
<1>3. outcome[events[n].StepIndex] # "none"
  BY <1>2 DEF Failures
<1>4. ~(events[n].StepIndex < idx) /\ events[n].StepIndex # idx
  BY <1>1, <1>2, <1>3 DEF IInv, Frontier
<1>5. events[n].StepIndex \in Int /\ idx \in Int /\ events[n].StepIndex \in Indices
  BY <1>1, <1>2
<1>6. outcome'[events[n].StepIndex] = outcome[events[n].StepIndex]
  BY <1>4, <1>5 DEF IInv, TypeOK
<1> QED BY <1>2, <1>4, <1>5, <1>6

\* A compensation that succeeds adds nothing to the record.
LEMMA SuccessKeepsEvents ==
  ASSUME IInv, EInv, CompensationSucceeds
  PROVE  EInv'
<1>1. /\ pc = "awaitComp" /\ UNCHANGED <<compensations, dlqHandler, events>>
      /\ outcome' = [outcome EXCEPT ![idx] = "ok"] /\ Registered' = Registered
  BY DEF CompensationSucceeds, sagaFields, Registered
<1>2. CASE dlqHandler = "none"
  BY <1>1, <1>2 DEF EInv, EventsMatchFailures
<1>3. CASE dlqHandler # "none"
  <2>1. \A n \in 1 .. Len(events) :
          /\ events[n].StepIndex \in Registered
          /\ outcome'[events[n].StepIndex] = outcome[events[n].StepIndex]
    BY <1>1, <1>3, EventsAreAbove
  <2>2. \A k \in Registered : Failed(k)' => Failed(k)
    <3>1. outcome \in [Indices -> {"none", "ok"} \cup Failures]
          /\ Registered \subseteq Indices
      BY MaxStepsAssumption DEF IInv, TypeOK, Registered, Indices
    <3> QED BY <1>1, <3>1 DEF Failed, Failures
  <2> QED BY <1>1, <1>3, <2>1, <2>2 DEF EInv, EventsMatchFailures, Failed
<1> QED BY <1>2, <1>3

\* A compensation that fails is reported, once and after all newer ones.
LEMMA FailureIsHandedOver ==
  ASSUME IInv, EInv, pc \in {"compensating", "awaitComp"}, NEW err \in Failures,
         CompensationFails(err), UNCHANGED <<compensations, dlqHandler>>
  PROVE  EInv'
<1>1. /\ outcome' = [outcome EXCEPT ![idx] = err] /\ Registered' = Registered
      /\ events \in Seq(FailureEvents) /\ Len(events) \in Nat
      /\ idx \in Registered /\ Registered \subseteq Indices
      /\ outcome \in [Indices -> {"none", "ok"} \cup Failures]
  BY MaxStepsAssumption
  DEF CompensationFails, Registered, IInv, TypeOK, RollingBack, Indices
<1>2. CASE dlqHandler = "none"
  <2>1. events = <<>> /\ events' = events
    BY <1>2 DEF EInv, EventsMatchFailures, CompensationFails
  <2> QED BY <1>1, <1>2, <2>1 DEF EInv, EventsMatchFailures
<1>3. CASE dlqHandler # "none"
  <2> DEFINE e == CompensationFailureEvent(idx, err)
  <2>1. events' = Append(events, e)
    BY <1>3 DEF CompensationFails
  <2>2. /\ e.StepIndex = idx /\ e.ErrorMessage = err
        /\ e.StepName = compensations[idx + 1]
    BY DEF CompensationFailureEvent
  <2>3. /\ Len(events') = Len(events) + 1 /\ events'[Len(events) + 1] = e
        /\ \A n \in 1 .. Len(events) : events'[n] = events[n]
    BY <1>1, <2>1
  <2>4. \A n \in 1 .. Len(events) :
          /\ events[n].StepIndex > idx
          /\ events[n].StepIndex \in Registered
          /\ outcome'[events[n].StepIndex] = outcome[events[n].StepIndex]
    BY <1>1, <1>3, EventsAreAbove
  <2>5. outcome'[idx] = err
    BY <1>1
  <2> HIDE DEF e
  <2>6. \A n \in 1 .. Len(events') :
          n \in 1 .. Len(events) \/ n = Len(events) + 1
    BY <1>1, <2>3
  <2>7. \A n \in 1 .. Len(events') : events'[n].StepIndex \in Registered
    BY <1>1, <2>2, <2>3, <2>4, <2>6
  <2>8. ASSUME NEW n \in 1 .. Len(events')
        PROVE  /\ outcome'[events'[n].StepIndex] \in Failures
               /\ events'[n].StepName = compensations[events'[n].StepIndex + 1]
               /\ events'[n].ErrorMessage = outcome'[events'[n].StepIndex]
    <3>1. CASE n \in 1 .. Len(events)
      BY <1>3, <2>3, <2>4, <3>1 DEF EInv, EventsMatchFailures, Failed
    <3>2. CASE n = Len(events) + 1
      BY <2>2, <2>3, <2>5, <3>2
    <3> QED BY <2>6, <3>1, <3>2
  <2>9. ASSUME NEW m \in 1 .. Len(events'), NEW n \in 1 .. Len(events'), m < n
        PROVE  events'[m].StepIndex > events'[n].StepIndex
    <3>1. m \in 1 .. Len(events)
      BY <1>1, <2>3, <2>9
    <3>2. CASE n \in 1 .. Len(events)
      BY <1>3, <2>3, <2>9, <3>1, <3>2 DEF EInv, EventsMatchFailures
    <3>3. CASE n = Len(events) + 1
      BY <2>2, <2>3, <2>4, <3>1, <3>3
    <3> QED BY <2>6, <3>2, <3>3
  <2>10. ASSUME NEW k \in Registered, outcome'[k] \in Failures
         PROVE  \E n \in 1 .. Len(events') : events'[n].StepIndex = k
    <3>1. CASE k = idx
      <4>1. Len(events) + 1 \in 1 .. Len(events')
        BY <1>1, <2>3
      <4> QED BY <2>2, <2>3, <3>1, <4>1
    <3>2. CASE k # idx
      <4>1. outcome[k] \in Failures
        BY <1>1, <2>10, <3>2
      <4>2. PICK n \in 1 .. Len(events) : events[n].StepIndex = k
        BY <1>3, <4>1 DEF EInv, EventsMatchFailures, Failed
      <4>3. n \in 1 .. Len(events')
        BY <1>1, <2>3
      <4> QED BY <2>3, <4>2, <4>3
    <3> QED BY <3>1, <3>2
  <2> QED BY <1>1, <1>3, <2>7, <2>8, <2>9, <2>10 DEF EInv, EventsMatchFailures, Failed
<1> QED BY <1>2, <1>3

\* One case per kind of step: register, settle, or neither.
LEMMA NextEInv == IInv /\ EInv /\ [Next]_vars => EInv'
<1> SUFFICES ASSUME IInv, EInv, [Next]_vars PROVE EInv'
  OBVIOUS
<1>1. ASSUME NEW a \in Activities, ForwardSucceeds(a) PROVE EInv'
  <2>1. /\ pc = "awaitForward" /\ UNCHANGED <<dlqHandler, events, outcome>>
        /\ Len(compensations') = Len(compensations) + 1
        /\ Len(compensations) \in Nat /\ Len(compensations) < MaxSteps
    BY <1>1 DEF ForwardSucceeds, AddCompensation, IInv, TypeOK
  <2>2. events = <<>> /\ events' = <<>>
    BY <2>1, NoEventsYet
  <2>3. \A k \in Registered' : k \in Indices
    BY <2>1, MaxStepsAssumption DEF Registered, Indices
  <2>4. \A k \in Registered' : ~Failed(k)'
    BY <2>1, <2>3 DEF IInv, NothingUndoneYet, Failed, Failures
  <2> QED BY <2>1, <2>2, <2>4 DEF EInv, EventsMatchFailures
<1>2. CASE ExecuteCompensation
  <2>1. CASE ctxCanceled
    BY <1>2, <2>1, FailureIsHandedOver DEF ExecuteCompensation, sagaFields, Failures
  <2>2. CASE ~ctxCanceled
    BY <1>2, <2>2, EventsUntouched DEF ExecuteCompensation, sagaFields
  <2> QED BY <2>1, <2>2
<1>3. CASE CompensationSucceeds
  BY <1>3, SuccessKeepsEvents
<1>4. CASE CompensationReturnsError
  BY <1>4, FailureIsHandedOver
  DEF CompensationReturnsError, PermanentErrors, sagaFields, Failures
<1>5. CASE CompensationCanceled
  BY <1>5, FailureIsHandedOver DEF CompensationCanceled, sagaFields, Failures
<1>6. CASE \/ ExecuteForward \/ ForwardRegistersNothing \/ SetPivot \/ Complete
           \/ SinkCanceled \/ CancelWorkflow \/ TerminateWorkflow
           \/ UNCHANGED vars
  BY <1>6, EventsUntouched
  DEF ExecuteForward, ForwardRegistersNothing, SetPivot, Complete, SinkCanceled,
      CancelWorkflow, TerminateWorkflow, vars, sagaFields
<1>7. CASE \/ \E e \in Errors : Return(e)
           \/ \E v \in {"saved", "lost"} : SinkReturns(v)
           \/ \E k \in Indices : AttemptApplies(k)
  BY <1>7, EventsUntouched DEF Return, SinkReturns, AttemptApplies, sagaFields
<1> QED BY <1>1, <1>2, <1>3, <1>4, <1>5, <1>6, <1>7 DEF Next

\* The handler hears of every permanent failure exactly once, newest first,
\* with the step's own name and error, for any number of steps: the DLQ branch
\* of Compensate's loop.
THEOREM SagaEventsMatchFailures == Spec => []EventsMatchFailures
<1>1. Init => EInv
  BY DEF Init, NewSaga, EInv, EventsMatchFailures, Registered, Failed
<1>2. EInv => EventsMatchFailures
  BY DEF EInv
<1> QED BY <1>1, <1>2, SagaIInv, NextEInv, PTL DEF Spec

\* The loop moves on only from a step that is settled with the sink, or that
\* did not fail.
LEMMA LoopNextKeepsSInv ==
  ASSUME LoopNext, UNCHANGED <<compensations, dlqHandler>>,
         dlqHandler = "activity" /\ ~ctxCanceled' =>
           \A k \in Registered : Failed(k)' => sink'[k] \in {"saved", "lost"}
  PROVE  SInv'
BY DEF LoopNext, SInv, Registered

\* A failed compensation's event is dispatched to the sink and awaited.
LEMMA FailureIsEscalated ==
  ASSUME IInv, SInv, pc \in {"compensating", "awaitComp"}, NEW err \in Failures,
         CompensationFails(err), UNCHANGED <<compensations, dlqHandler, ctxCanceled>>
  PROVE  SInv'
<1> SUFFICES ASSUME dlqHandler = "activity", ~ctxCanceled
             PROVE  SInv'
  BY DEF SInv
<1>1. /\ outcome' = [outcome EXCEPT ![idx] = err]
      /\ sink' = [sink EXCEPT ![idx] = "dispatched"]
      /\ pc' = "awaitSink" /\ idx' = idx /\ Registered' = Registered
  BY DEF CompensationFails, OnCompensationFailed, Registered
<1>2. /\ Registered \subseteq Indices
      /\ outcome \in [Indices -> {"none", "ok"} \cup Failures]
      /\ sink \in [Indices -> {"none", "dispatched", "saved", "lost"}]
  BY MaxStepsAssumption DEF IInv, TypeOK, Registered, Indices
<1> QED BY <1>1, <1>2 DEF SInv, Failed

\* One case per action that settles a step or hears from the sink.
LEMMA NextSInv == IInv /\ SInv /\ [Next]_vars => SInv'
<1> SUFFICES ASSUME IInv, SInv, [Next]_vars PROVE SInv'
  OBVIOUS
<1>0. /\ Registered \subseteq Indices
      /\ outcome \in [Indices -> {"none", "ok"} \cup Failures]
      /\ sink \in [Indices -> {"none", "dispatched", "saved", "lost"}]
  BY MaxStepsAssumption DEF IInv, TypeOK, Registered, Indices
<1>1. ASSUME NEW a \in Activities, ForwardSucceeds(a) PROVE SInv'
  <2>1. /\ pc = "awaitForward" /\ outcome' = outcome
        /\ Len(compensations') = Len(compensations) + 1
        /\ Len(compensations) \in Nat /\ Len(compensations) < MaxSteps
    BY <1>1 DEF ForwardSucceeds, AddCompensation, IInv, TypeOK
  <2>2. \A k \in Registered' : k \in Indices
    BY <2>1, MaxStepsAssumption DEF Registered, Indices
  <2> QED BY <2>1, <2>2 DEF IInv, NothingUndoneYet, SInv, Failed, Failures
<1>2. CASE ExecuteCompensation
  <2>1. CASE ctxCanceled
    BY <1>2, <2>1, FailureIsEscalated DEF ExecuteCompensation, sagaFields, Failures
  <2>2. CASE ~ctxCanceled
    BY <1>2, <2>2 DEF ExecuteCompensation, sagaFields, SInv, Failed, Registered
  <2> QED BY <2>1, <2>2
<1>3. CASE CompensationSucceeds
  <2>1. /\ pc = "awaitComp" /\ outcome' = [outcome EXCEPT ![idx] = "ok"]
        /\ UNCHANGED <<compensations, dlqHandler, ctxCanceled, sink>> /\ LoopNext
    BY <1>3 DEF CompensationSucceeds, sagaFields
  <2>2. \A k \in Registered : Failed(k)' => Failed(k)
    BY <1>0, <2>1 DEF Failed, Failures
  <2> QED BY <2>1, <2>2, LoopNextKeepsSInv DEF SInv
<1>4. CASE CompensationReturnsError
  BY <1>4, FailureIsEscalated
  DEF CompensationReturnsError, PermanentErrors, sagaFields, Failures
<1>5. CASE CompensationCanceled
  BY <1>5, FailureIsEscalated DEF CompensationCanceled, sagaFields, Failures
<1>6. ASSUME NEW v \in {"saved", "lost"}, SinkReturns(v) PROVE SInv'
  <2>1. /\ pc = "awaitSink" /\ sink' = [sink EXCEPT ![idx] = v] /\ LoopNext
        /\ UNCHANGED <<compensations, dlqHandler, ctxCanceled, outcome>>
    BY <1>6 DEF SinkReturns, sagaFields
  <2>2. \A k \in Registered : Failed(k)' = Failed(k)
    BY <2>1 DEF Failed
  <2> QED BY <1>0, <2>1, <2>2, LoopNextKeepsSInv DEF SInv
<1>7. CASE SinkCanceled
  BY <1>7, LoopNextKeepsSInv DEF SinkCanceled, sagaFields
<1>8. ASSUME NEW e \in Errors, Return(e) PROVE SInv'
  <2>1. \A k \in Registered : ~Failed(k)
    BY <1>0, <1>8 DEF Return, IInv, NothingUndoneYet, Failed, Failures
  <2> QED BY <1>8, <2>1 DEF Return, sagaFields, SInv, Failed, Registered
<1>9. CASE \/ ExecuteForward \/ ForwardRegistersNothing \/ SetPivot \/ Complete
           \/ CancelWorkflow \/ TerminateWorkflow \/ UNCHANGED vars
  BY <1>9
  DEF ExecuteForward, ForwardRegistersNothing, SetPivot, Complete, CancelWorkflow,
      TerminateWorkflow, vars, sagaFields, SInv, Failed, Registered
<1>10. ASSUME NEW k \in Indices, AttemptApplies(k) PROVE SInv'
  BY <1>10 DEF AttemptApplies, sagaFields, SInv, Failed, Registered
<1> QED BY <1>1, <1>2, <1>3, <1>4, <1>5, <1>6, <1>7, <1>8, <1>9, <1>10 DEF Next

\* A rollback under ActivityDLQHandler that was not cancelled closes only when
\* every failure was given to the sink activity and its answer awaited.
THEOREM SagaEscalationReachesSink == Spec => []EscalationReachesSink
<1>1. Init => SInv
  BY DEF Init, NewSaga, SInv, Registered
<1>2. SInv => EscalationReachesSink
  BY DEF SInv, EscalationReachesSink
<1> QED BY <1>1, <1>2, SagaIInv, NextSInv, PTL DEF Spec

-----------------------------------------------------------------------------
(* How far a rollback is from its end.                                     *)

\* Each step left costs at most three moves of the coroutine: its activity is
\* executed, it fails, and its sink activity returns.
RollbackRank ==
  CASE pc = "compensating" -> 3 * idx + 3
    [] pc = "awaitComp"    -> 3 * idx + 2
    [] pc = "awaitSink"    -> 3 * idx + 1
    [] OTHER               -> 0

\* A step either leaves the coroutine where it is, or brings the rollback nearer
\* to its end.
RankFalls == RollingBack => UNCHANGED <<pc, idx>> \/ RollbackRank' < RollbackRank

\* While it rolls back, a saga is one to three moves away for each step left.
LEMMA RankIsBounded ==
  ASSUME TypeOK
  PROVE  /\ RollbackRank \in 0 .. 3 * MaxSteps
         /\ RollingBack <=> RollbackRank > 0
         /\ RollingBack => idx \in Nat
BY MaxStepsAssumption DEF TypeOK, RollingBack, Registered, RollbackRank, Locations

\* i-- and the loop's test.
LEMMA LoopNextRankFalls ==
  ASSUME TypeOK, RollingBack, LoopNext
  PROVE  RollbackRank' < RollbackRank
<1>1. idx \in Nat
  BY RankIsBounded
<1>2. RollbackRank > 3 * idx
  BY <1>1 DEF RollingBack, RollbackRank
<1>3. CASE idx = 0
  BY <1>1, <1>2, <1>3 DEF LoopNext, RollbackRank
<1>4. CASE idx # 0
  BY <1>1, <1>2, <1>4 DEF LoopNext, RollbackRank
<1> QED BY <1>3, <1>4

\* A failure moves on to the sink or to the next step.
LEMMA FailureRankFalls ==
  ASSUME TypeOK, pc \in {"compensating", "awaitComp"}, NEW err, CompensationFails(err)
  PROVE  RollbackRank' < RollbackRank
<1>1. idx \in Nat /\ RollingBack
  BY RankIsBounded DEF RollingBack
<1>2. CASE LoopNext
  BY <1>1, <1>2, LoopNextRankFalls
<1>3. CASE pc' = "awaitSink" /\ idx' = idx
  BY <1>1, <1>3 DEF RollbackRank
<1> QED BY <1>2, <1>3 DEF CompensationFails, OnCompensationFailed

\* A rollback needs at most three moves of the coroutine for each registered
\* step, whatever fails, is lost or is cancelled: it never waits twice for the
\* same step, and no event sets it back.  Compensate's loop is therefore as
\* finite as the activities it waits for.
THEOREM SagaRollbackIsBounded ==
  Spec => [](RollbackRank <= 3 * MaxSteps) /\ [][RankFalls]_vars
<1>1. TypeOK => RollbackRank <= 3 * MaxSteps
  BY RankIsBounded, MaxStepsAssumption
<1>2. TypeOK /\ [Next]_vars => [RankFalls]_vars
  <2> SUFFICES ASSUME TypeOK, [Next]_vars, RollingBack
               PROVE  UNCHANGED <<pc, idx>> \/ RollbackRank' < RollbackRank
    BY DEF RankFalls
  <2>1. CASE ExecuteCompensation
    <3>1. CASE pc' = "awaitComp" /\ idx' = idx
      BY <2>1, <3>1, RankIsBounded DEF ExecuteCompensation, RollbackRank
    <3> QED BY <2>1, <3>1, FailureRankFalls DEF ExecuteCompensation
  <2>2. CASE CompensationSucceeds
    BY <2>2, LoopNextRankFalls DEF CompensationSucceeds
  <2>3. CASE CompensationReturnsError \/ CompensationCanceled
    BY <2>3, FailureRankFalls DEF CompensationReturnsError, CompensationCanceled
  <2>4. CASE SinkCanceled \/ \E v \in {"saved", "lost"} : SinkReturns(v)
    BY <2>4, LoopNextRankFalls DEF SinkCanceled, SinkReturns
  <2>5. CASE TerminateWorkflow
    <3>1. RollbackRank' = 0
      BY <2>5 DEF TerminateWorkflow, RollbackRank
    <3> QED BY <3>1, RankIsBounded, MaxStepsAssumption
  <2>6. CASE CancelWorkflow \/ (\E k \in Indices : AttemptApplies(k)) \/ UNCHANGED vars
    BY <2>6 DEF CancelWorkflow, AttemptApplies, vars
  <2>7. CASE \/ ExecuteForward \/ (\E a \in Activities : ForwardSucceeds(a))
             \/ ForwardRegistersNothing \/ SetPivot \/ Complete \/ (\E e \in Errors : Return(e))
    BY <2>7 DEF ExecuteForward, ForwardSucceeds, ForwardRegistersNothing, SetPivot, Complete,
       Return, RollingBack
  <2> QED BY <2>1, <2>2, <2>3, <2>4, <2>5, <2>6, <2>7 DEF Next
<1> QED BY <1>1, <1>2, SagaTypeOK, PTL DEF Spec

-----------------------------------------------------------------------------
(* Saga implements SagaContract.                                           *)

\* A fresh saga maps to the contract's initial state.
LEMMA InitContract == Init => Contract!Init
<1> SUFFICES ASSUME Init PROVE Contract!Init
  OBVIOUS
<1>1. PhaseOf = "running"
  BY DEF Init, PhaseOf, RollingBack
<1>2. SettledSteps = [k \in 0 .. MaxSteps - 1 |-> "none"]
  BY DEF Init, SettledSteps, SettledAs, Indices
<1>3. Len(compensations) = 0
  BY DEF Init, NewSaga
<1> QED BY <1>1, <1>2, <1>3 DEF Contract!Init

\* Settling step idx in the saga is settling it in the contract.
LEMMA SettleImplementsContract ==
  ASSUME IInv, pc \in {"compensating", "awaitComp"},
         NEW result \in {"ok"} \cup Failures,
         outcome' = [outcome EXCEPT ![idx] = result],
         UNCHANGED <<compensations, completed>>,
         LoopNext \/ pc' = "awaitSink"
  PROVE  Contract!Next
<1>1. /\ RollingBack /\ ~completed /\ TypeOK
      /\ idx \in Registered /\ idx \in Indices
      /\ Len(compensations) \in Nat /\ Registered \subseteq Indices
  BY MaxStepsAssumption
  DEF IInv, NothingUndoneYet, RollingBack, TypeOK, Registered, Indices
<1>2. PhaseOf = "rollingBack"
  BY <1>1 DEF PhaseOf, RollingBack
<1>3. PhaseOf' \in IF idx = 0 THEN {"rollingBack", "rolledBack"} ELSE {"rollingBack"}
  BY <1>1 DEF PhaseOf, RollingBack, LoopNext
<1>4. /\ SettledSteps[idx] = "none"
      /\ \A j \in Registered : j > idx => SettledSteps[j] # "none"
  BY <1>1 DEF IInv, Frontier, SettledSteps, SettledAs, Registered
<1>5. SettledAs(result) \in {"undone", "escalated"}
  BY DEF SettledAs, Failures
<1>6. SettledSteps' = [SettledSteps EXCEPT ![idx] = SettledAs(result)]
  <2>1. outcome \in [Indices -> {"none", "ok"} \cup Failures]
    BY <1>1 DEF TypeOK
  <2> QED BY <1>1, <2>1 DEF SettledSteps
<1>7. Contract!Settle(idx)
  <2>1. \A j \in idx + 1 .. Len(compensations) - 1 : SettledSteps[j] # "none"
    BY <1>1, <1>4 DEF Registered
  <2>2. idx \in 0 .. Len(compensations) - 1
    BY <1>1 DEF Registered
  <2>3. UNCHANGED Len(compensations)
    OBVIOUS
  <2> QED BY <1>2, <1>3, <1>4, <1>5, <1>6, <2>1, <2>2, <2>3 DEF Contract!Settle
<1> QED BY <1>1, <1>7 DEF Contract!Next, Indices

\* Every other step of the loop, and every step outside it, is a contract step
\* or changes nothing the contract sees.
LEMMA NextContract ==
  IInv /\ [Next]_vars => [Contract!Next]_(Contract!contractVars)
<1> SUFFICES ASSUME IInv, [Next]_vars
             PROVE  Contract!Next \/ UNCHANGED Contract!contractVars
  OBVIOUS
<1>0. /\ TypeOK /\ Len(compensations) \in Nat /\ MaxSteps \in Nat
      /\ Registered \subseteq Indices
  BY MaxStepsAssumption DEF IInv, TypeOK, Registered, Indices
<1>1. ASSUME UNCHANGED <<Len(compensations), outcome, PhaseOf>>
      PROVE  UNCHANGED Contract!contractVars
  BY <1>1 DEF Contract!contractVars, SettledSteps
<1>2. CASE ExecuteForward \/ ForwardRegistersNothing \/ SetPivot \/ Complete
  BY <1>1, <1>2
  DEF ExecuteForward, ForwardRegistersNothing, SetPivot, Complete, sagaFields,
      PhaseOf, RollingBack
<1>3. ASSUME NEW a \in Activities, ForwardSucceeds(a) PROVE Contract!Next
  <2>1. /\ Len(compensations') = Len(compensations) + 1
        /\ Len(compensations) < MaxSteps
    BY <1>0, <1>3 DEF ForwardSucceeds, AddCompensation, TypeOK
  <2>2. PhaseOf = "running" /\ PhaseOf' = "running" /\ UNCHANGED SettledSteps
    BY <1>3 DEF ForwardSucceeds, PhaseOf, RollingBack, SettledSteps
  <2> QED BY <2>1, <2>2 DEF Contract!Next, Contract!Register
<1>4. ASSUME NEW e \in Errors, Return(e) PROVE Contract!Next
  <2>1. /\ PhaseOf = "running" /\ UNCHANGED SettledSteps
        /\ UNCHANGED Len(compensations)
    BY <1>4 DEF Return, PhaseOf, RollingBack, SettledSteps, sagaFields
  <2>2. Len(compensations) = 0 <=> compensations = <<>>
    BY <1>0 DEF TypeOK
  <2>3. PhaseOf' \in IF Len(compensations) = 0 THEN {"committed", "rolledBack"}
                                               ELSE {"committed", "rollingBack"}
    BY <1>4, <2>2 DEF Return, Compensate, PhaseOf, RollingBack, sagaFields
  <2> QED BY <2>1, <2>3 DEF Contract!Next, Contract!Return
<1>5. ASSUME NEW err \in Failures, CompensationFails(err),
             pc \in {"compensating", "awaitComp"}, UNCHANGED sagaFields
      PROVE  Contract!Next
  <2>1. LoopNext \/ pc' = "awaitSink"
    BY <1>5 DEF CompensationFails, OnCompensationFailed
  <2>2. outcome' = [outcome EXCEPT ![idx] = err]
    BY <1>5 DEF CompensationFails
  <2> QED BY <1>5, <2>1, <2>2, SettleImplementsContract DEF sagaFields
<1>6. CASE ExecuteCompensation
  <2>1. CASE ctxCanceled
    BY <1>5, <1>6, <2>1 DEF ExecuteCompensation, Failures
  <2>2. CASE ~ctxCanceled
    BY <1>1, <1>6, <2>2 DEF ExecuteCompensation, sagaFields, PhaseOf, RollingBack
  <2> QED BY <2>1, <2>2
<1>7. CASE CompensationSucceeds
  BY <1>7, SettleImplementsContract DEF CompensationSucceeds, sagaFields
<1>8. CASE CompensationReturnsError
  BY <1>5, <1>8 DEF CompensationReturnsError, PermanentErrors, Failures
<1>9. CASE CompensationCanceled
  BY <1>5, <1>9 DEF CompensationCanceled, Failures
<1>10. ASSUME pc = "awaitSink", LoopNext, UNCHANGED <<sagaFields, outcome>>
       PROVE  Contract!Next \/ UNCHANGED Contract!contractVars
  <2>1. /\ idx \in Registered /\ ~completed /\ UNCHANGED completed
        /\ UNCHANGED Len(compensations)
    BY <1>0, <1>10 DEF TypeOK, RollingBack, IInv, NothingUndoneYet, sagaFields
  <2>2. CASE idx # 0
    BY <1>1, <1>10, <2>1, <2>2 DEF LoopNext, PhaseOf, RollingBack
  <2>3. CASE idx = 0
    <3>1. PhaseOf = "rollingBack" /\ PhaseOf' = "rolledBack"
      BY <1>10, <2>1, <2>3 DEF LoopNext, PhaseOf, RollingBack
    <3>2. \A k \in 0 .. Len(compensations) - 1 : SettledSteps[k] # "none"
      BY <1>0, <1>10, <2>1, <2>3
      DEF IInv, Frontier, RollingBack, Registered, SettledSteps, SettledAs
    <3>3. UNCHANGED SettledSteps
      BY <1>10 DEF SettledSteps
    <3> QED BY <2>1, <3>1, <3>2, <3>3 DEF Contract!Next, Contract!Finish
  <2> QED BY <2>2, <2>3
<1>11. ASSUME NEW v \in {"saved", "lost"}, SinkReturns(v)
       PROVE  Contract!Next \/ UNCHANGED Contract!contractVars
  BY <1>10, <1>11 DEF SinkReturns
<1>12. CASE SinkCanceled
  BY <1>10, <1>12 DEF SinkCanceled
<1>13. CASE CancelWorkflow
  BY <1>1, <1>13 DEF CancelWorkflow, sagaFields, PhaseOf, RollingBack
<1>14. CASE TerminateWorkflow
  <2>1. PhaseOf \in {"running", "rollingBack"} /\ PhaseOf' = "terminated"
    BY <1>0, <1>14
    DEF TerminateWorkflow, Open, TypeOK, Locations, PhaseOf, RollingBack
  <2>2. UNCHANGED SettledSteps /\ UNCHANGED Len(compensations)
    BY <1>14 DEF TerminateWorkflow, sagaFields, SettledSteps
  <2> QED BY <2>1, <2>2 DEF Contract!Next, Contract!Terminate
<1>15. ASSUME NEW k \in Indices, AttemptApplies(k)
       PROVE  UNCHANGED Contract!contractVars
  BY <1>1, <1>15 DEF AttemptApplies, sagaFields, PhaseOf, RollingBack
<1>16. CASE UNCHANGED vars
  BY <1>1, <1>16 DEF vars, PhaseOf, RollingBack
<1> QED BY <1>2, <1>3, <1>4, <1>6, <1>7, <1>8, <1>9, <1>11, <1>12, <1>13, <1>14,
           <1>15, <1>16 DEF Next

\* The saga implements its contract: every registered step is kept, or they
\* are settled one at a time, newest first, each exactly once.
THEOREM SagaRefinesContract == Spec => RefinesContract
<1>1. Init /\ [][Next]_vars /\ []IInv => Contract!Init /\ [][Contract!Next]_(Contract!contractVars)
  BY InitContract, NextContract, PTL
<1> QED BY <1>1, SagaIInv, PTL DEF Spec, RefinesContract, Contract!Spec
=============================================================================
