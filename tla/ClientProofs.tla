---------------------------- MODULE ClientProofs ----------------------------
(***************************************************************************)
(* Proofs about the client package.                                        *)
(*                                                                         *)
(* StartOrAttach, for any number of concurrent callers and lost answers:   *)
(* handles are fresh, AlreadyRunning can be relied on as far as its caller *)
(* asked for it, and a run has at most one caller that was told it is its  *)
(* starter.                                                                *)
(*                                                                         *)
(* SLAMonitor, for any workflow IDs, thresholds, page size and history of  *)
(* executions: an alert is due and raised once, and while polls work and   *)
(* reach every execution a first breach is alerted about in time.          *)
(***************************************************************************)
EXTENDS StartOrAttach, SLAMonitor, FiniteSetTheorems, TLAPS

-----------------------------------------------------------------------------
(* StartOrAttach.                                                          *)

\* Runs only advance and never reopen, since the moment of each call.
SinceTheCall(c) ==
  pc[c] \notin {"idle", "failed"} =>
    /\ before[c] <= current
    /\ (before[c] = current /\ c \notin foundOpen) => ~open

\* The server remembers which call started the current run; a call that has
\* not been made has started nothing.
CreatorIsKnown(c) ==
  /\ creator = c => pc[c] # "idle" /\ before[c] < current
  /\ creator = c <=> current \in startedRuns[c]
  /\ pc[c] = "idle" => c \notin foundOpen \cup AlreadyRunning
  /\ \A r \in startedRuns[c] : 0 < r /\ r <= current

\* Run r was current at some moment of call c.
Fresh(c, r) ==
  /\ r \in 1 .. current
  /\ r >= before[c]
  /\ c \notin foundOpen => r > before[c]

\* What an answer tells a call is true, and stays so until it is used.
AnswerIsTrue(c) ==
  /\ pc[c] \in {"started", "exists", "describing"} => Fresh(c, answer[c])
  /\ pc[c] = "started" => answer[c] \in startedRuns[c]
  /\ pc[c] \in {"exists", "describing"} =>
       answer[c] \notin startedRuns[c] /\ creator # c /\ onConflict[c] # "terminate"
  /\ c \in AlreadyRunning => pc[c] = "done"

\* A handle is as fresh and as true as the answer it was made from.
HandleIsTrue(c) ==
  pc[c] = "done" =>
    /\ Fresh(c, RunID[c])
    /\ c \in AlreadyRunning => RunID[c] \notin startedRuns[c]
    /\ (onConflict[c] # "attach" /\ RunID[c] \notin startedRuns[c]) => c \in AlreadyRunning

CallerInv(c) == SinceTheCall(c) /\ CreatorIsKnown(c) /\ AnswerIsTrue(c) /\ HandleIsTrue(c)

IInv == TypeOK /\ \A c \in Callers : CallerInv(c)

\* No run was started by two calls.
StartedOnce == \A c, d \in Callers : c # d => startedRuns[c] \cap startedRuns[d] = {}

-----------------------------------------------------------------------------
\* Before the first call the inductive invariant holds.
LEMMA InitIInv == Init => IInv
<1> SUFFICES ASSUME Init PROVE IInv
  OBVIOUS
<1> USE MaxLostAssumption, NoCallerAssumption DEF Init, NoCaller
<1>1. TypeOK
  <2>1. pc \in [Callers -> Locations] /\ lost \in 0 .. MaxLost
    BY DEF Locations
  <2> QED BY <2>1 DEF TypeOK
<1>2. ASSUME NEW d \in Callers PROVE CallerInv(d)
  BY DEF CallerInv, SinceTheCall, CreatorIsKnown, AnswerIsTrue, HandleIsTrue
<1> QED BY <1>1, <1>2 DEF IInv

\* A new call has seen the current run and started nothing.
LEMMA CallKeepsIInv ==
  ASSUME IInv, NEW c \in Callers, Call(c)
  PROVE  IInv'
<1> USE MaxLostAssumption, NoCallerAssumption
    DEF Call, Goto, serverVars, handleVars, callVars, NoCaller
<1>1. TypeOK'
  BY DEF IInv, TypeOK, Locations
<1>2. ASSUME NEW d \in Callers PROVE CallerInv(d)'
  <2> USE DEF IInv, TypeOK, CallerInv
  <2>1. SinceTheCall(d)'
    BY DEF SinceTheCall
  <2>2. CreatorIsKnown(d)'
    BY DEF CreatorIsKnown, SinceTheCall, AnswerIsTrue
  <2>3. AnswerIsTrue(d)'
    BY DEF AnswerIsTrue, CreatorIsKnown, SinceTheCall, Fresh
  <2>4. HandleIsTrue(d)'
    BY DEF HandleIsTrue, AnswerIsTrue, CreatorIsKnown, SinceTheCall, Fresh
  <2> QED BY <2>1, <2>2, <2>3, <2>4
<1> QED BY <1>1, <1>2 DEF IInv

\* A refused call returns an error and no handle.
LEMMA RefuseEmptyIDKeepsIInv ==
  ASSUME IInv, NEW c \in Callers, RefuseEmptyID(c)
  PROVE  IInv'
<1> USE MaxLostAssumption, NoCallerAssumption
    DEF RefuseEmptyID, Goto, serverVars, handleVars, callVars, NoCaller
<1>1. TypeOK'
  BY DEF IInv, TypeOK, Locations
<1>2. ASSUME NEW d \in Callers PROVE CallerInv(d)'
  <2> USE DEF IInv, TypeOK, CallerInv
  <2>1. SinceTheCall(d)'
    BY DEF SinceTheCall
  <2>2. CreatorIsKnown(d)'
    BY DEF CreatorIsKnown, SinceTheCall, AnswerIsTrue
  <2>3. AnswerIsTrue(d)'
    BY DEF AnswerIsTrue, CreatorIsKnown, SinceTheCall, Fresh
  <2>4. HandleIsTrue(d)'
    BY DEF HandleIsTrue, AnswerIsTrue, CreatorIsKnown, SinceTheCall, Fresh
  <2> QED BY <2>1, <2>2, <2>3, <2>4
<1> QED BY <1>1, <1>2 DEF IInv

\* A new run is newer than every run anybody has seen.
LEMMA ServerStartsKeepsIInv ==
  ASSUME IInv, NEW c \in Callers, ServerStarts(c)
  PROVE  IInv'
<1> USE MaxLostAssumption, NoCallerAssumption
    DEF ServerStarts, Goto, serverVars, handleVars, callVars, NoCaller, MayStart, ReusePolicy
<1>1. TypeOK'
  BY DEF IInv, TypeOK, Locations
<1>2. ASSUME NEW d \in Callers PROVE CallerInv(d)'
  <2> USE DEF IInv, TypeOK, CallerInv
  <2>1. SinceTheCall(d)'
    BY DEF SinceTheCall
  <2>2. CreatorIsKnown(d)'
    BY DEF CreatorIsKnown, SinceTheCall, AnswerIsTrue
  <2>3. AnswerIsTrue(d)'
    BY DEF AnswerIsTrue, CreatorIsKnown, SinceTheCall, Fresh
  <2>4. HandleIsTrue(d)'
    BY DEF HandleIsTrue, AnswerIsTrue, CreatorIsKnown, SinceTheCall, Fresh
  <2> QED BY <2>1, <2>2, <2>3, <2>4
<1> QED BY <1>1, <1>2 DEF IInv

\* An open run is not the closed one the call may have found, and whoever is
\* told that it exists has not started it.
LEMMA ServerAnswersKeepsIInv ==
  ASSUME IInv, NEW c \in Callers, ServerAnswers(c)
  PROVE  IInv'
<1> USE MaxLostAssumption, NoCallerAssumption
    DEF ServerAnswers, Goto, serverVars, handleVars, callVars, NoCaller, MayStart, ReusePolicy
<1>1. TypeOK'
  BY DEF IInv, TypeOK, Locations
<1>2. ASSUME NEW d \in Callers PROVE CallerInv(d)'
  <2> USE DEF IInv, TypeOK, CallerInv
  <2>1. SinceTheCall(d)'
    BY DEF SinceTheCall
  <2>2. CreatorIsKnown(d)'
    BY DEF CreatorIsKnown, SinceTheCall, AnswerIsTrue
  <2>3. AnswerIsTrue(d)'
    BY DEF AnswerIsTrue, CreatorIsKnown, SinceTheCall, Fresh
  <2>4. HandleIsTrue(d)'
    BY DEF HandleIsTrue, AnswerIsTrue, CreatorIsKnown, SinceTheCall, Fresh
  <2> QED BY <2>1, <2>2, <2>3, <2>4
<1> QED BY <1>1, <1>2 DEF IInv

\* A lost answer leaves the run, and who started it, as they are.
LEMMA AnswerLostKeepsIInv ==
  ASSUME IInv, NEW c \in Callers, AnswerLost(c)
  PROVE  IInv'
<1> USE MaxLostAssumption, NoCallerAssumption
    DEF AnswerLost, Goto, serverVars, handleVars, callVars, NoCaller
<1>1. TypeOK'
  BY DEF IInv, TypeOK, Locations
<1>2. ASSUME NEW d \in Callers PROVE CallerInv(d)'
  <2> USE DEF IInv, TypeOK, CallerInv
  <2>1. SinceTheCall(d)'
    BY DEF SinceTheCall
  <2>2. CreatorIsKnown(d)'
    BY DEF CreatorIsKnown, SinceTheCall, AnswerIsTrue
  <2>3. AnswerIsTrue(d)'
    BY DEF AnswerIsTrue, CreatorIsKnown, SinceTheCall, Fresh
  <2>4. HandleIsTrue(d)'
    BY DEF HandleIsTrue, AnswerIsTrue, CreatorIsKnown, SinceTheCall, Fresh
  <2> QED BY <2>1, <2>2, <2>3, <2>4
<1> QED BY <1>1, <1>2 DEF IInv

\* ExecuteWorkflow's answer becomes a handle.
LEMMA ReturnsKeepsIInv ==
  ASSUME IInv, NEW c \in Callers, ExecuteWorkflowReturns(c)
  PROVE  IInv'
<1> USE MaxLostAssumption, NoCallerAssumption
    DEF ExecuteWorkflowReturns, Goto, serverVars, handleVars, callVars, NoCaller
<1>1. TypeOK'
  BY DEF IInv, TypeOK, Locations
<1>2. ASSUME NEW d \in Callers PROVE CallerInv(d)'
  <2> USE DEF IInv, TypeOK, CallerInv
  <2>1. SinceTheCall(d)'
    BY DEF SinceTheCall
  <2>2. CreatorIsKnown(d)'
    BY DEF CreatorIsKnown, SinceTheCall, AnswerIsTrue
  <2>3. AnswerIsTrue(d)'
    BY DEF AnswerIsTrue, CreatorIsKnown, SinceTheCall, Fresh
  <2>4. HandleIsTrue(d)'
    BY DEF HandleIsTrue, AnswerIsTrue, CreatorIsKnown, SinceTheCall, Fresh, ConflictOptions
  <2> QED BY <2>1, <2>2, <2>3, <2>4
<1> QED BY <1>1, <1>2 DEF IInv

\* A refused call has not started the current run.
LEMMA RefusedKeepsIInv ==
  ASSUME IInv, NEW c \in Callers, ExecuteWorkflowRefused(c)
  PROVE  IInv'
<1> USE MaxLostAssumption, NoCallerAssumption
    DEF ExecuteWorkflowRefused, Goto, serverVars, handleVars, callVars, NoCaller
<1>1. TypeOK'
  BY DEF IInv, TypeOK, Locations
<1>2. ASSUME NEW d \in Callers PROVE CallerInv(d)'
  <2> USE DEF IInv, TypeOK, CallerInv
  <2>1. SinceTheCall(d)'
    BY DEF SinceTheCall
  <2>2. CreatorIsKnown(d)'
    BY DEF CreatorIsKnown, SinceTheCall, AnswerIsTrue
  <2>3. AnswerIsTrue(d)'
    BY DEF AnswerIsTrue, CreatorIsKnown, SinceTheCall, Fresh
  <2>4. HandleIsTrue(d)'
    BY DEF HandleIsTrue, AnswerIsTrue, CreatorIsKnown, SinceTheCall, Fresh
  <2> QED BY <2>1, <2>2, <2>3, <2>4
<1> QED BY <1>1, <1>2 DEF IInv

\* A failed call returns no handle.
LEMMA CallFailsKeepsIInv ==
  ASSUME IInv, NEW c \in Callers, CallFails(c)
  PROVE  IInv'
<1> USE MaxLostAssumption, NoCallerAssumption
    DEF CallFails, Goto, serverVars, handleVars, callVars, NoCaller
<1>1. TypeOK'
  BY DEF IInv, TypeOK, Locations
<1>2. ASSUME NEW d \in Callers PROVE CallerInv(d)'
  <2> USE DEF IInv, TypeOK, CallerInv
  <2>1. SinceTheCall(d)'
    BY DEF SinceTheCall
  <2>2. CreatorIsKnown(d)'
    BY DEF CreatorIsKnown, SinceTheCall, AnswerIsTrue
  <2>3. AnswerIsTrue(d)'
    BY DEF AnswerIsTrue, CreatorIsKnown, SinceTheCall, Fresh
  <2>4. HandleIsTrue(d)'
    BY DEF HandleIsTrue, AnswerIsTrue, CreatorIsKnown, SinceTheCall, Fresh
  <2> QED BY <2>1, <2>2, <2>3, <2>4
<1> QED BY <1>1, <1>2 DEF IInv

\* The run that is described is at least as new as the one that refused.
LEMMA DescribeKeepsIInv ==
  ASSUME IInv, NEW c \in Callers, Describe(c)
  PROVE  IInv'
<1> USE MaxLostAssumption, NoCallerAssumption
    DEF Describe, Goto, serverVars, handleVars, callVars, NoCaller
<1>1. TypeOK'
  BY DEF IInv, TypeOK, Locations
<1>2. ASSUME NEW d \in Callers PROVE CallerInv(d)'
  <2> USE DEF IInv, TypeOK, CallerInv
  <2>1. SinceTheCall(d)'
    BY DEF SinceTheCall
  <2>2. CreatorIsKnown(d)'
    BY DEF CreatorIsKnown, SinceTheCall, AnswerIsTrue
  <2>3. AnswerIsTrue(d)'
    BY DEF AnswerIsTrue, CreatorIsKnown, SinceTheCall, Fresh
  <2>4. HandleIsTrue(d)'
    BY DEF HandleIsTrue, AnswerIsTrue, CreatorIsKnown, SinceTheCall, Fresh
  <2> QED BY <2>1, <2>2, <2>3, <2>4
<1> QED BY <1>1, <1>2 DEF IInv

\* Every step of the specification keeps the inductive invariant.
LEMMA NextIInv == IInv /\ [Next]_vars => IInv'
<1> SUFFICES ASSUME IInv, [Next]_vars PROVE IInv'
  OBVIOUS
<1>1. CASE CloseRun
  BY <1>1 DEF CloseRun, IInv, TypeOK, CallerInv, SinceTheCall, CreatorIsKnown,
              AnswerIsTrue, HandleIsTrue, Fresh, handleVars, callVars
<1>2. CASE UNCHANGED vars
  BY <1>2 DEF vars, serverVars, handleVars, callVars, IInv, TypeOK, CallerInv,
              SinceTheCall, CreatorIsKnown, AnswerIsTrue, HandleIsTrue, Fresh
<1> QED
  BY <1>1, <1>2, CallKeepsIInv, RefuseEmptyIDKeepsIInv, ServerStartsKeepsIInv,
     ServerAnswersKeepsIInv, AnswerLostKeepsIInv, ReturnsKeepsIInv,
     RefusedKeepsIInv, CallFailsKeepsIInv, DescribeKeepsIInv DEF Next

\* The inductive invariant holds in every reachable state.
THEOREM StartIInv == Spec => []IInv
BY InitIInv, NextIInv, PTL DEF Spec

\* Every variable keeps its type, for any callers.
THEOREM StartTypeOK == Spec => []TypeOK
<1>1. IInv => TypeOK
  BY DEF IInv
<1> QED BY StartIInv, <1>1, PTL

\* A handle is to a run that was current during its call.
THEOREM StartHandleIsFresh == Spec => []HandleIsFresh
<1>1. IInv => HandleIsFresh
  BY DEF IInv, CallerInv, HandleIsTrue, Fresh, HandleIsFresh
<1> QED BY StartIInv, <1>1, PTL

\* AlreadyRunning is never wrong, and complete for callers that asked for the
\* refusal, however many requests raced or were repeated.
THEOREM StartAlreadyRunning == Spec => []AlreadyRunningWhenAsked
<1>1. IInv => AlreadyRunningWhenAsked
  BY DEF IInv, CallerInv, HandleIsTrue, AlreadyRunningWhenAsked
<1> QED BY StartIInv, <1>1, PTL

\* A new run is in nobody's set of started runs but its starter's.
LEMMA StartedOnceStep == IInv /\ StartedOnce /\ [Next]_vars => StartedOnce'
<1> SUFFICES ASSUME IInv, StartedOnce, [Next]_vars PROVE StartedOnce'
  OBVIOUS
<1>1. CASE startedRuns' = startedRuns
  BY <1>1 DEF StartedOnce
<1>2. ASSUME NEW c \in Callers, ServerStarts(c) PROVE StartedOnce'
  <2>1. startedRuns' = [startedRuns EXCEPT ![c] = startedRuns[c] \cup {current + 1}]
    BY <1>2 DEF ServerStarts
  <2>2. startedRuns \in [Callers -> SUBSET Nat] /\ current \in Nat
    BY DEF IInv, TypeOK
  <2>3. \A d \in Callers : current + 1 \notin startedRuns[d]
    BY <2>2 DEF IInv, CallerInv, CreatorIsKnown
  <2> QED BY <2>1, <2>2, <2>3 DEF StartedOnce
<1> QED
  BY <1>1, <1>2 DEF Next, vars, serverVars, Call, RefuseEmptyID, ServerAnswers, AnswerLost,
     ExecuteWorkflowReturns, ExecuteWorkflowRefused, CallFails, Describe, CloseRun

\* StartOrAttach against double execution: of the callers that do not silently
\* attach, at most one holds a handle that says it has started the run, for any
\* number of racing callers, closing runs and repeated requests.
THEOREM StartOneStarterPerRun == Spec => []OneStarterPerRun
<1>1. Init => StartedOnce
  BY DEF Init, StartedOnce
<1>2. IInv /\ StartedOnce => OneStarterPerRun
  BY DEF IInv, CallerInv, HandleIsTrue, StartedOnce, OneStarterPerRun
<1> QED BY StartIInv, StartedOnceStep, <1>1, <1>2, PTL DEF Spec

-----------------------------------------------------------------------------
(* SLAMonitor: the poll interval.                                          *)

\* runSLAMonitor never polls less often than its comment says.
LEMMA IntervalIsShort ==
  /\ Interval \in Nat \ {0}
  /\ DocumentedInterval \in Nat
  /\ Interval <= DocumentedInterval
PROOF
<1> DEFINE warn == WarnAfter \div 2
           alert == AlertAfter \div 2
<1>1. warn \in Nat /\ alert \in Nat
  BY SLAAssumption
<1>2. Interval = MinPoll
  <2>1. Shorten(MinPoll, WarnAfter) \in Nat /\ Shorten(MinPoll, WarnAfter) <= MinPoll
    BY <1>1, SLAAssumption DEF Shorten
  <2>2. Shorten(Shorten(MinPoll, WarnAfter), AlertAfter) <= MinPoll
    BY <1>1, <2>1, SLAAssumption DEF Shorten
  <2>3. Shorten(Shorten(MinPoll, WarnAfter), AlertAfter) \in Nat
    BY <1>1, <2>1, SLAAssumption DEF Shorten
  <2>. HIDE DEF warn, alert
  <2>. QED  BY <2>2, <2>3, SLAAssumption DEF Interval
<1>3. DocumentedInterval \in Nat /\ DocumentedInterval >= MinPoll
  BY <1>1, SLAAssumption DEF DocumentedInterval
<1>. QED  BY <1>2, <1>3, SLAAssumption

-----------------------------------------------------------------------------
(* Alerts are due and single.                                              *)

\* An execution that is open has been started.
OpenRunsExist == \A w \in WorkflowIDs : started[w] # Closed => runs[w] >= 1

\* The loop meets each workflow ID once, and marks whom it alerts about.
AlertBookkeeping ==
  /\ \A d, e \in page : d.id = e.id => d = e
  /\ \A a \in alerts : a.id \in alerted

AInv == MonitorTypeOK /\ OpenRunsExist /\ AlertBookkeeping /\ AlertsAreDueAndSingle

\* A monitor starts with no alert raised.
LEMMA AInvInit == MonitorInit => AInv
PROOF
<1> SUFFICES ASSUME MonitorInit PROVE AInv
  OBVIOUS
<1>1. MonitorTypeOK
  <2>1. /\ now \in 0 .. MaxTime /\ nextTick \in 1 .. MaxTime + Interval
        /\ runs \in [WorkflowIDs -> 0 .. MaxRuns]
    BY SLAAssumption, IntervalIsShort DEF MonitorInit
  <2>2. started \in [WorkflowIDs -> {Closed} \cup 0 .. MaxTime]
    BY DEF MonitorInit
  <2>. QED  BY <2>1, <2>2 DEF MonitorInit, MonitorTypeOK
<1>2. OpenRunsExist
  BY DEF MonitorInit, OpenRunsExist
<1>3. AlertBookkeeping /\ AlertsAreDueAndSingle
  BY DEF MonitorInit, AlertBookkeeping, AlertsAreDueAndSingle
<1>. QED  BY <1>1, <1>2, <1>3 DEF AInv

\* The page holds snapshots of open executions.
LEMMA PageIsOpen ==
  ASSUME MonitorTypeOK, OpenRunsExist, NEW S \in SUBSET WorkflowIDs, IsFirstPage(S),
         NEW e \in {Snapshot(w) : w \in S}
  PROVE  /\ e \in [id : WorkflowIDs, run : 1 .. MaxRuns, start : 0 .. MaxTime]
         /\ e = Snapshot(e.id)
PROOF
<1>1. PICK w \in S : e = Snapshot(w)
  OBVIOUS
<1>2. w \in WorkflowIDs /\ started[w] # Closed
  BY DEF IsFirstPage, OpenIDs
<1>3. runs[w] \in 1 .. MaxRuns /\ started[w] \in 0 .. MaxTime
  BY <1>2, SLAAssumption DEF MonitorTypeOK, OpenRunsExist, Closed
<1>. QED  BY <1>1, <1>2, <1>3 DEF Snapshot

\* Starts, closes, polls and alerts keep the alert bookkeeping right.
LEMMA AInvStep == AInv /\ [MonitorNext]_monitorVars => AInv'
PROOF
<1> SUFFICES ASSUME AInv, [MonitorNext]_monitorVars PROVE AInv'
  OBVIOUS
<1> USE SLAAssumption DEF AInv
<1>1. ASSUME NEW w \in WorkflowIDs, StartWorkflow(w) PROVE AInv'
  <2>1. MonitorTypeOK'
    BY <1>1 DEF StartWorkflow, MonitorTypeOK, Closed
  <2>2. OpenRunsExist'
    BY <1>1 DEF StartWorkflow, OpenRunsExist, MonitorTypeOK
  <2>3. AlertBookkeeping' /\ AlertsAreDueAndSingle'
    BY <1>1 DEF StartWorkflow, AlertBookkeeping, AlertsAreDueAndSingle
  <2>. QED  BY <2>1, <2>2, <2>3
<1>2. ASSUME NEW w \in WorkflowIDs, CloseWorkflow(w) PROVE AInv'
  <2>1. MonitorTypeOK'
    BY <1>2 DEF CloseWorkflow, MonitorTypeOK, Closed
  <2>2. OpenRunsExist'
    BY <1>2 DEF CloseWorkflow, OpenRunsExist, MonitorTypeOK
  <2>3. AlertBookkeeping' /\ AlertsAreDueAndSingle'
    BY <1>2 DEF CloseWorkflow, AlertBookkeeping, AlertsAreDueAndSingle
  <2>. QED  BY <2>1, <2>2, <2>3
<1>3. CASE Tick
  <2>1. MonitorTypeOK'
    BY <1>3 DEF Tick, MonitorTypeOK
  <2>2. OpenRunsExist' /\ AlertBookkeeping' /\ AlertsAreDueAndSingle'
    BY <1>3 DEF Tick, OpenRunsExist, AlertBookkeeping, AlertsAreDueAndSingle
  <2>. QED  BY <2>1, <2>2
<1>4. CASE ListOpenWorkflow
  <2>1. PICK S \in SUBSET WorkflowIDs :
          IsFirstPage(S) /\ page' = {Snapshot(w) : w \in S}
    BY <1>4 DEF ListOpenWorkflow
  <2>2. \A e \in page' :
          /\ e \in [id : WorkflowIDs, run : 1 .. MaxRuns, start : 0 .. MaxTime]
          /\ e = Snapshot(e.id)
    BY <2>1, PageIsOpen
  <2>3. nextTick' \in 1 .. MaxTime + Interval
    BY <1>4, IntervalIsShort DEF ListOpenWorkflow, MonitorTypeOK
  <2>4. MonitorTypeOK'
    BY <1>4, <2>2, <2>3 DEF ListOpenWorkflow, MonitorTypeOK
  <2>5. OpenRunsExist'
    BY <1>4 DEF ListOpenWorkflow, OpenRunsExist
  <2>6. \A d, e \in page' : d.id = e.id => d = e
    <3>1. SUFFICES ASSUME NEW d \in page', NEW e \in page', d.id = e.id PROVE d = e
      OBVIOUS
    <3>2. d = Snapshot(d.id) /\ e = Snapshot(e.id)
      BY <2>2
    <3>. QED  BY <3>1, <3>2
  <2>7. AlertBookkeeping'
    BY <1>4, <2>6 DEF ListOpenWorkflow, AlertBookkeeping
  <2>8. AlertsAreDueAndSingle'
    BY <1>4 DEF ListOpenWorkflow, AlertsAreDueAndSingle
  <2>. QED  BY <2>4, <2>5, <2>7, <2>8
<1>5. CASE ListFails
  <2>1. MonitorTypeOK'
    BY <1>5, IntervalIsShort DEF ListFails, MonitorTypeOK
  <2>2. OpenRunsExist' /\ AlertBookkeeping' /\ AlertsAreDueAndSingle'
    BY <1>5 DEF ListFails, OpenRunsExist, AlertBookkeeping, AlertsAreDueAndSingle
  <2>. QED  BY <2>1, <2>2
<1>6. CASE CheckSLA
  <2> DEFINE breaching == {e \in page : Breached(e)}
             event(e) == [id |-> e.id, run |-> e.run, start |-> e.start, time |-> now]
  <2>1. \A e \in breaching :
          /\ e \in page /\ e.id \notin alerted
          /\ now - e.start >= AlertAfter
          /\ event(e) \in SLABreachEvents
    BY DEF Breached, MonitorTypeOK, SLABreachEvents
  <2>2. /\ alerted' = alerted \cup {e.id : e \in breaching}
        /\ alerts' = alerts \cup {event(e) : e \in breaching}
        /\ page' = {} /\ monitor' = "waiting"
        /\ UNCHANGED <<now, runs, started, nextTick, failures>>
    BY <1>6 DEF CheckSLA
  <2>3. MonitorTypeOK'
    <3>1. alerted' \subseteq WorkflowIDs
      BY <2>1, <2>2 DEF MonitorTypeOK
    <3>2. alerts' \subseteq SLABreachEvents
      BY <2>1, <2>2 DEF MonitorTypeOK
    <3>. QED  BY <2>2, <3>1, <3>2 DEF MonitorTypeOK
  <2>4. OpenRunsExist'
    BY <2>2 DEF OpenRunsExist
  <2>5. AlertBookkeeping'
    BY <2>2 DEF AlertBookkeeping
  <2>6. ASSUME NEW a \in alerts' PROVE a.time - a.start >= AlertAfter
    BY <2>1, <2>2, <2>6 DEF AlertsAreDueAndSingle
  <2>7. ASSUME NEW a \in alerts', NEW b \in alerts', a.id = b.id PROVE a = b
    BY <2>1, <2>2, <2>7 DEF AlertsAreDueAndSingle, AlertBookkeeping
  <2>8. AlertsAreDueAndSingle'
    BY <2>6, <2>7 DEF AlertsAreDueAndSingle
  <2>. QED  BY <2>3, <2>4, <2>5, <2>8
<1>7. CASE MonitorStops
  BY <1>7 DEF MonitorStops, MonitorTypeOK, OpenRunsExist, AlertBookkeeping, AlertsAreDueAndSingle
<1>8. CASE UNCHANGED monitorVars
  BY <1>8 DEF monitorVars, MonitorTypeOK, OpenRunsExist, AlertBookkeeping, AlertsAreDueAndSingle
<1>. QED  BY <1>1, <1>2, <1>3, <1>4, <1>5, <1>6, <1>7, <1>8 DEF MonitorNext

\* The monitor raises no false alarm and none twice, for any thresholds, page
\* size and history of executions: sla.go's alerted map and its comparison of
\* runningFor with AlertAfter.
THEOREM SLAAlertsAreDueAndSingle == MonitorSpec => [](MonitorTypeOK /\ AlertsAreDueAndSingle)
PROOF
<1>1. AInv => MonitorTypeOK /\ AlertsAreDueAndSingle
  BY DEF AInv
<1>. QED  BY AInvInit, AInvStep, <1>1, PTL DEF MonitorSpec

-----------------------------------------------------------------------------
(* Detection is prompt.                                                    *)

\* The theorem's conditions, besides the execution being the ID's first one.
AllSeen == AlertAfter > 0 /\ ~failures /\ Cardinality(WorkflowIDs) <= PageSize

FirstRuns == {w \in WorkflowIDs : runs[w] = 1 /\ started[w] # Closed}

\* The ticker never falls behind, and a poll takes no time.
Punctual ==
  /\ monitor = "waiting" => nextTick - Interval <= now /\ now <= nextTick
  /\ monitor = "listed" => now = nextTick - Interval

\* Who is marked has been alerted about, and the page shows what has been.
MarkedIsAlerted ==
  /\ \A w \in alerted : runs[w] >= 1 /\ (runs[w] = 1 => Alerted(w))
  /\ \A e \in page : e.run <= runs[e.id]
  /\ \A w \in WorkflowIDs : started[w] <= now

\* Each poll has dealt with what had breached by then; while one is under way
\* this holds of the one before it, and what has breached since is on the page.
PollsAreComplete ==
  AllSeen =>
    \A w \in FirstRuns :
      /\ monitor = "waiting" =>
           (nextTick - Interval - started[w] >= AlertAfter => Alerted(w))
      /\ monitor = "listed" =>
           /\ now - Interval - started[w] >= AlertAfter => Alerted(w)
           /\ now - started[w] >= AlertAfter => Snapshot(w) \in page

PInv == AInv /\ Punctual /\ MarkedIsAlerted /\ PollsAreComplete

\* The first poll is at most an interval away when the monitor starts.
LEMMA PInvInit == MonitorInit => PInv
PROOF
<1> SUFFICES ASSUME MonitorInit PROVE PInv
  OBVIOUS
<1>1. AInv
  BY AInvInit
<1>2. Punctual
  BY IntervalIsShort DEF MonitorInit, Punctual
<1>3. MarkedIsAlerted
  BY DEF MonitorInit, MarkedIsAlerted, Closed
<1>4. PollsAreComplete
  BY DEF MonitorInit, PollsAreComplete, FirstRuns
<1>. QED  BY <1>1, <1>2, <1>3, <1>4 DEF PInv

\* A page that has room shows every open execution.
LEMMA PageIsComplete ==
  ASSUME NEW S \in SUBSET WorkflowIDs, IsFirstPage(S),
         Cardinality(WorkflowIDs) <= PageSize
  PROVE  S = OpenIDs
PROOF
<1>1. /\ IsFiniteSet(OpenIDs) /\ IsFiniteSet(WorkflowIDs)
      /\ Cardinality(OpenIDs) <= Cardinality(WorkflowIDs)
  BY SLAAssumption, FS_Subset DEF OpenIDs
<1>2. Cardinality(OpenIDs) \in Nat /\ Cardinality(WorkflowIDs) \in Nat
  BY <1>1, FS_CardinalityType
<1>3. Cardinality(S) = Cardinality(OpenIDs)
  BY <1>1, <1>2, SLAAssumption DEF IsFirstPage
<1>4. S \subseteq OpenIDs
  BY DEF IsFirstPage
<1>. QED  BY <1>1, <1>3, <1>4, FS_Subset

\* Alerts are never withdrawn.
LEMMA AlertedStays ==
  ASSUME NEW w \in WorkflowIDs, Alerted(w), alerts \subseteq alerts', runs'[w] = runs[w]
  PROVE  Alerted(w)'
PROOF
  BY DEF Alerted

\* Every poll that works meets each open execution, and the next is in time.
LEMMA PInvStep == PInv /\ [MonitorNext]_monitorVars => PInv'
PROOF
<1> SUFFICES ASSUME PInv, [MonitorNext]_monitorVars PROVE PInv'
  OBVIOUS
<1> USE SLAAssumption, IntervalIsShort
<1>t. MonitorTypeOK /\ AInv /\ AInv' /\ MonitorTypeOK'
  BY AInvStep DEF PInv, AInv
<1>1. ASSUME NEW v \in WorkflowIDs, StartWorkflow(v) PROVE PInv'
  <2>1. Punctual'
    BY <1>1 DEF PInv, Punctual, StartWorkflow
  <2>2. ASSUME NEW w \in WorkflowIDs, w # v
        PROVE  runs'[w] = runs[w] /\ started'[w] = started[w] /\ Alerted(w)' = Alerted(w)
    BY <1>1, <1>t, <2>2 DEF StartWorkflow, MonitorTypeOK, Alerted
  <2>3. runs'[v] = runs[v] + 1 /\ started'[v] = now /\ runs[v] \in Nat
    BY <1>1, <1>t DEF StartWorkflow, MonitorTypeOK
  <2>4. MarkedIsAlerted'
    <3>1. ASSUME NEW w \in alerted PROVE runs'[w] >= 1 /\ (runs'[w] = 1 => Alerted(w)')
      BY <1>t, <2>2, <2>3 DEF PInv, MarkedIsAlerted, MonitorTypeOK
    <3>2. ASSUME NEW e \in page PROVE e.run <= runs'[e.id]
      BY <1>t, <2>2, <2>3 DEF PInv, MarkedIsAlerted, MonitorTypeOK
    <3>3. ASSUME NEW w \in WorkflowIDs PROVE started'[w] <= now
      BY <1>t, <2>2, <2>3 DEF PInv, MarkedIsAlerted, MonitorTypeOK
    <3>. QED  BY <1>1, <3>1, <3>2, <3>3 DEF MarkedIsAlerted, StartWorkflow
  <2>5. PollsAreComplete'
    <3>1. SUFFICES ASSUME AllSeen', NEW w \in FirstRuns'
          PROVE  /\ monitor = "waiting" =>
                      (nextTick - Interval - started'[w] >= AlertAfter => Alerted(w)')
                 /\ monitor = "listed" =>
                      /\ now - Interval - started'[w] >= AlertAfter => Alerted(w)'
                      /\ now - started'[w] >= AlertAfter => Snapshot(w)' \in page
      BY <1>1 DEF PollsAreComplete, StartWorkflow
    <3>2. AllSeen /\ w \in WorkflowIDs
      BY <1>1, <3>1 DEF AllSeen, StartWorkflow, FirstRuns
    <3>3. CASE w = v
      BY <1>t, <2>3, <3>2, <3>3 DEF PInv, Punctual, AllSeen, MonitorTypeOK
    <3>4. CASE w # v
      <4>1. w \in FirstRuns /\ Snapshot(w)' = Snapshot(w)
        BY <2>2, <3>1, <3>2, <3>4 DEF FirstRuns, Snapshot
      <4>. QED  BY <2>2, <3>2, <3>4, <4>1 DEF PInv, PollsAreComplete
    <3>. QED  BY <3>3, <3>4
  <2>. QED  BY <1>t, <2>1, <2>4, <2>5 DEF PInv
<1>2. ASSUME NEW v \in WorkflowIDs, CloseWorkflow(v) PROVE PInv'
  <2>1. Punctual'
    BY <1>2 DEF PInv, Punctual, CloseWorkflow
  <2>2. \A w \in WorkflowIDs :
          /\ started'[w] # Closed => w # v /\ started'[w] = started[w]
          /\ Alerted(w)' = Alerted(w) /\ runs'[w] = runs[w]
    BY <1>2, <1>t DEF CloseWorkflow, MonitorTypeOK, Alerted
  <2>3. MarkedIsAlerted'
    <3>1. \A w \in WorkflowIDs : started'[w] <= now
      BY <1>2, <1>t, <2>2 DEF PInv, MarkedIsAlerted, MonitorTypeOK, Closed
    <3>. QED  BY <1>2, <1>t, <2>2, <3>1 DEF PInv, MarkedIsAlerted, CloseWorkflow, MonitorTypeOK
  <2>4. PollsAreComplete'
    <3>1. \A w \in FirstRuns' : w \in FirstRuns /\ Snapshot(w)' = Snapshot(w)
      BY <2>2 DEF FirstRuns, Snapshot
    <3>. QED  BY <1>2, <2>2, <3>1 DEF PInv, PollsAreComplete, AllSeen, FirstRuns, CloseWorkflow
  <2>. QED  BY <1>t, <2>1, <2>3, <2>4 DEF PInv
<1>3. CASE Tick
  <2>1. Punctual'
    BY <1>3, <1>t DEF PInv, Punctual, Tick, MonitorTypeOK
  <2>2. MarkedIsAlerted'
    BY <1>3, <1>t DEF PInv, MarkedIsAlerted, Tick, MonitorTypeOK, Alerted, Closed
  <2>3. PollsAreComplete'
    BY <1>3 DEF PInv, PollsAreComplete, AllSeen, FirstRuns, Alerted, Tick
  <2>. QED  BY <1>t, <2>1, <2>2, <2>3 DEF PInv
<1>4. CASE ListOpenWorkflow
  <2>1. PICK S \in SUBSET WorkflowIDs :
          IsFirstPage(S) /\ page' = {Snapshot(w) : w \in S}
    BY <1>4 DEF ListOpenWorkflow
  <2>2. now = nextTick /\ nextTick' - Interval = now
    BY <1>4, <1>t DEF PInv, Punctual, ListOpenWorkflow, MonitorTypeOK
  <2>3. Punctual'
    BY <1>4, <2>2 DEF Punctual, ListOpenWorkflow
  <2>4. MarkedIsAlerted'
    <3>1. \A e \in page' : e.run <= runs[e.id]
      <4>1. \A w \in WorkflowIDs : Snapshot(w).run = runs[Snapshot(w).id] /\ runs[w] \in Nat
        BY <1>t DEF Snapshot, MonitorTypeOK
      <4>. QED  BY <2>1, <4>1, <1>t DEF MonitorTypeOK, Snapshot
    <3>. QED  BY <1>4, <3>1 DEF PInv, MarkedIsAlerted, ListOpenWorkflow, Alerted
  <2>5. PollsAreComplete'
    <3>1. SUFFICES ASSUME AllSeen', NEW w \in FirstRuns'
          PROVE  /\ now - Interval - started[w] >= AlertAfter => Alerted(w)'
                 /\ now - started[w] >= AlertAfter => Snapshot(w)' \in page'
      BY <1>4 DEF PollsAreComplete, ListOpenWorkflow
    <3>2. /\ AllSeen /\ w \in FirstRuns /\ w \in OpenIDs
          /\ Alerted(w)' = Alerted(w) /\ Snapshot(w)' = Snapshot(w)
      BY <1>4, <3>1 DEF AllSeen, FirstRuns, OpenIDs, Alerted, Snapshot, ListOpenWorkflow
    <3>3. Snapshot(w) \in page'
      BY <2>1, <3>2, PageIsComplete DEF AllSeen
    <3>4. now - Interval - started[w] >= AlertAfter => Alerted(w)
      BY <1>4, <2>2, <3>2 DEF PInv, PollsAreComplete, ListOpenWorkflow
    <3>. QED  BY <3>2, <3>3, <3>4
  <2>. QED  BY <1>t, <2>3, <2>4, <2>5 DEF PInv
<1>5. CASE ListFails
  <2>1. Punctual'
    BY <1>5, <1>t DEF PInv, Punctual, ListFails, MonitorTypeOK
  <2>2. MarkedIsAlerted'
    BY <1>5 DEF PInv, MarkedIsAlerted, ListFails, Alerted
  <2>3. PollsAreComplete'
    BY <1>5 DEF PollsAreComplete, AllSeen, ListFails
  <2>. QED  BY <1>t, <2>1, <2>2, <2>3 DEF PInv
<1>6. CASE CheckSLA
  <2> DEFINE event(e) == [id |-> e.id, run |-> e.run, start |-> e.start, time |-> now]
  <2>1. /\ monitor = "listed" /\ monitor' = "waiting" /\ page' = {}
        /\ UNCHANGED <<now, runs, started, nextTick, failures>>
        /\ alerted' = alerted \cup {e.id : e \in {d \in page : Breached(d)}}
        /\ alerts' = alerts \cup {event(e) : e \in {d \in page : Breached(d)}}
    BY <1>6 DEF CheckSLA
  <2>2. ASSUME NEW e \in page, Breached(e), runs[e.id] = e.run
        PROVE  Alerted(e.id)'
    <3>1. event(e) \in alerts'
      BY <2>1, <2>2
    <3>. QED  BY <2>1, <2>2, <3>1 DEF Alerted
  <2>3. Punctual'
    BY <2>1, <1>t DEF PInv, Punctual, MonitorTypeOK
  <2>4. MarkedIsAlerted'
    <3>1. ASSUME NEW w \in alerted PROVE runs'[w] >= 1 /\ (runs'[w] = 1 => Alerted(w)')
      BY <1>t, <2>1, AlertedStays DEF PInv, MarkedIsAlerted, MonitorTypeOK
    <3>2. ASSUME NEW e \in page, Breached(e)
          PROVE  runs'[e.id] >= 1 /\ (runs'[e.id] = 1 => Alerted(e.id)')
      <4>1. e.run \in Nat /\ e.run >= 1 /\ e.run <= runs[e.id] /\ runs[e.id] \in Nat
        BY <1>t DEF PInv, MarkedIsAlerted, MonitorTypeOK
      <4>. QED  BY <2>1, <2>2, <3>2, <4>1
    <3>. QED  BY <2>1, <3>1, <3>2 DEF PInv, MarkedIsAlerted
  <2>5. PollsAreComplete'
    <3>1. SUFFICES ASSUME AllSeen', NEW w \in FirstRuns',
                          nextTick - Interval - started[w] >= AlertAfter
          PROVE  Alerted(w)'
      BY <2>1 DEF PollsAreComplete
    <3>2. AllSeen /\ w \in FirstRuns /\ now = nextTick - Interval
      BY <2>1, <3>1 DEF AllSeen, FirstRuns, PInv, Punctual
    <3>3. Snapshot(w) \in page
      BY <2>1, <3>1, <3>2 DEF PInv, PollsAreComplete
    <3>4. CASE w \in alerted
      BY <2>1, <3>2, <3>4, AlertedStays DEF PInv, MarkedIsAlerted, FirstRuns
    <3>5. CASE w \notin alerted
      <4>1. Breached(Snapshot(w)) /\ Snapshot(w).id = w /\ Snapshot(w).run = runs[w]
        BY <3>1, <3>2, <3>5 DEF Breached, Snapshot, AllSeen
      <4>. QED  BY <2>2, <3>3, <4>1
    <3>. QED  BY <3>4, <3>5
  <2>. QED  BY <1>t, <2>3, <2>4, <2>5 DEF PInv
<1>7. CASE MonitorStops
  <2>1. Punctual' /\ MarkedIsAlerted'
    BY <1>7 DEF PInv, Punctual, MarkedIsAlerted, Alerted, MonitorStops
  <2>2. PollsAreComplete'
    BY <1>7 DEF PollsAreComplete, MonitorStops
  <2>. QED  BY <1>t, <2>1, <2>2 DEF PInv
<1>8. CASE UNCHANGED monitorVars
  <2>1. Punctual' /\ MarkedIsAlerted'
    BY <1>8 DEF PInv, Punctual, MarkedIsAlerted, Alerted, monitorVars
  <2>2. PollsAreComplete'
    BY <1>8 DEF PInv, PollsAreComplete, AllSeen, FirstRuns, Alerted, Snapshot, monitorVars
  <2>. QED  BY <1>t, <2>1, <2>2 DEF PInv
<1>. QED  BY <1>1, <1>2, <1>3, <1>4, <1>5, <1>6, <1>7, <1>8 DEF MonitorNext

\* While the list call works and a page has room for every workflow ID, a first
\* execution that is open a poll interval after its breach has been alerted
\* about, for any thresholds and page size: the ticker and the loop of sla.go.
THEOREM SLAFirstBreachIsAlertedInTime == MonitorSpec => []FirstBreachIsAlertedInTime
PROOF
<1>1. ASSUME PInv PROVE FirstBreachIsAlertedInTime
  <2>1. SUFFICES ASSUME ~failures, Cardinality(WorkflowIDs) <= PageSize,
                        NEW w \in WorkflowIDs, runs[w] = 1, Overdue(w)
                 PROVE  Alerted(w)
    BY DEF FirstBreachIsAlertedInTime
  <2>2. /\ AllSeen /\ w \in FirstRuns /\ monitor \in {"waiting", "listed"}
        /\ now - started[w] >= AlertAfter + DocumentedInterval
        /\ started[w] \in Nat /\ now \in Nat /\ nextTick \in Nat
    BY <1>1, <2>1, SLAAssumption, IntervalIsShort
       DEF PInv, AInv, MonitorTypeOK, AllSeen, FirstRuns, Overdue, Closed
  <2>3. \/ monitor = "waiting" /\ nextTick - Interval - started[w] >= AlertAfter
        \/ monitor = "listed" /\ now - Interval - started[w] >= AlertAfter
    BY <1>1, <2>2, SLAAssumption, IntervalIsShort DEF PInv, Punctual
  <2>. QED  BY <1>1, <2>2, <2>3 DEF PInv, PollsAreComplete
<1>. QED  BY PInvInit, PInvStep, <1>1, PTL DEF MonitorSpec

=============================================================================
