---------------------------- MODULE EngineProofs ----------------------------
(***************************************************************************)
(* Proofs about Engine, for any number of monitors and tasks: whatever the *)
(* interleaving of Start and Shutdown, a running worker has a client,      *)
(* neither returns while the engine is up, and a failed Start leaves       *)
(* nothing running.                                                        *)
(***************************************************************************)
EXTENDS Engine, TLAPS

\* Until New is done nobody else has the engine, and nothing to shut down.
NewIsAlone ==
  /\ pc["Start"] \in {"new", "tls", "tracing", "dial"} => client = "none"
  /\ pc["Shutdown"] # "idle" => client # "none"

\* What a goroutine that is shutting down has behind it stays done.
Progress ==
  \A g \in Goroutines :
    /\ pc[g] \in {"stopping", "closeClient", "shutTracing", "flushing", "returned"} =>
         worker \in {"stopping", "stopped"}
    /\ pc[g] \in {"shutTracing", "flushing", "returned"} => client = "closed"
    /\ pc[g] \in {"flushing", "returned"} => tracing # "live"

\* What has begun to come down is being brought down by one of the two.
SomebodyIsAtIt ==
  /\ worker = "stopping" => \E g \in Goroutines : pc[g] = "stopping"
  /\ tracing = "flushing" => \E g \in Goroutines : pc[g] = "flushing"

\* The client is closed only behind a worker that was stopped.
ClientOutlivesWorker == worker \in {"created", "running"} => client = "open"

\* Nothing runs before worker.Start has succeeded, nor after it has failed.
QuietUntilStarted ==
  /\ pc["Start"] \in {"new", "tls", "tracing", "dial", "ready", "failed"} =>
       worker # "running" /\ \A t \in Tasks : task[t] = "queued"
  /\ pc["Start"] \in {"new", "tls", "tracing", "dial", "ready", "started", "failed"} =>
       \A m \in Monitors : monitor[m] = "none"

IInv == TypeOK /\ NewIsAlone /\ Progress /\ SomebodyIsAtIt /\ ClientOutlivesWorker
          /\ QuietUntilStarted

-----------------------------------------------------------------------------
\* A fresh process, before New, satisfies the inductive invariant.
LEMMA InitIInv == Init => IInv
BY DEF Init, IInv, TypeOK, NewIsAlone, Progress, SomebodyIsAtIt, ClientOutlivesWorker,
       QuietUntilStarted, Goroutines, Locations

\* The steps of shutdown and Shutdown keep it, whoever takes them.
LEMMA ShutdownStepKeepsIInv ==
  ASSUME IInv, NEW g \in Goroutines, ShutdownStep(g)
  PROVE  IInv'
<1> USE DEF Goto, outside
<1>1. CASE StopWorker(g)
  BY <1>1 DEF StopWorker, IInv, TypeOK, NewIsAlone, Progress, SomebodyIsAtIt, ClientOutlivesWorker,
              QuietUntilStarted, Goroutines, Locations, ShuttingDown
<1>2. CASE WorkerStopped(g)
  BY <1>2 DEF WorkerStopped, IInv, TypeOK, NewIsAlone, Progress, SomebodyIsAtIt,
              ClientOutlivesWorker, QuietUntilStarted, Goroutines, Locations, ShuttingDown
<1>3. CASE CloseClient(g)
  BY <1>3 DEF CloseClient, IInv, TypeOK, NewIsAlone, Progress, SomebodyIsAtIt,
              ClientOutlivesWorker, QuietUntilStarted, Goroutines, Locations, ShuttingDown
<1>4. CASE TracingShutdown(g)
  BY <1>4 DEF TracingShutdown, IInv, TypeOK, NewIsAlone, Progress, SomebodyIsAtIt,
              ClientOutlivesWorker, QuietUntilStarted, Goroutines, Locations, ShuttingDown
<1>5. CASE TracingFlushed(g)
  BY <1>5 DEF TracingFlushed, IInv, TypeOK, NewIsAlone, Progress, SomebodyIsAtIt,
              ClientOutlivesWorker, QuietUntilStarted, Goroutines, Locations, ShuttingDown
<1> QED BY <1>1, <1>2, <1>3, <1>4, <1>5 DEF ShutdownStep

\* New, registration, Start and the call of Shutdown keep it.
LEMMA StartStepKeepsIInv ==
  ASSUME IInv,
         \/ CheckConfig \/ BuildTLSConfig \/ SetupTracing \/ Dial
         \/ \E m \in Monitors : RegisterWorkflowWithSLA(m)
         \/ StartWorker \/ StartSLAMonitors \/ Select \/ Shutdown
  PROVE  IInv'
<1> USE DEF Goto, outside
<1>1. CASE CheckConfig
  BY <1>1 DEF CheckConfig, IInv, TypeOK, NewIsAlone, Progress, SomebodyIsAtIt,
              ClientOutlivesWorker, QuietUntilStarted, Goroutines, Locations, ShuttingDown
<1>2. CASE BuildTLSConfig
  BY <1>2 DEF BuildTLSConfig, IInv, TypeOK, NewIsAlone, Progress, SomebodyIsAtIt,
              ClientOutlivesWorker, QuietUntilStarted, Goroutines, Locations, ShuttingDown
<1>3. CASE SetupTracing
  BY <1>3 DEF SetupTracing, IInv, TypeOK, NewIsAlone, Progress, SomebodyIsAtIt,
              ClientOutlivesWorker, QuietUntilStarted, Goroutines, Locations, ShuttingDown
<1>4. CASE Dial
  BY <1>4 DEF Dial, IInv, TypeOK, NewIsAlone, Progress, SomebodyIsAtIt,
              ClientOutlivesWorker, QuietUntilStarted, Goroutines, Locations, ShuttingDown
<1>5. CASE StartWorker
  BY <1>5 DEF StartWorker, IInv, TypeOK, NewIsAlone, Progress, SomebodyIsAtIt,
              ClientOutlivesWorker, QuietUntilStarted, Goroutines, Locations, ShuttingDown
<1>6. CASE StartSLAMonitors
  BY <1>6 DEF StartSLAMonitors, IInv, TypeOK, NewIsAlone, Progress, SomebodyIsAtIt,
              ClientOutlivesWorker, QuietUntilStarted, Goroutines, Locations, ShuttingDown
<1>7. CASE Select
  BY <1>7 DEF Select, IInv, TypeOK, NewIsAlone, Progress, SomebodyIsAtIt,
              ClientOutlivesWorker, QuietUntilStarted, Goroutines, Locations, ShuttingDown
<1>8. CASE Shutdown
  BY <1>8 DEF Shutdown, IInv, TypeOK, NewIsAlone, Progress, SomebodyIsAtIt,
              ClientOutlivesWorker, QuietUntilStarted, Goroutines, Locations, ShuttingDown
<1>9. CASE \E m \in Monitors : RegisterWorkflowWithSLA(m)
  BY <1>9 DEF RegisterWorkflowWithSLA, IInv, TypeOK, NewIsAlone, Progress, SomebodyIsAtIt,
              ClientOutlivesWorker, QuietUntilStarted, Goroutines, Locations, ShuttingDown
<1> QED BY <1>1, <1>2, <1>3, <1>4, <1>5, <1>6, <1>7, <1>8, <1>9

\* Monitors, the metrics server, tasks and the outside touch nothing the
\* invariant relates.
LEMMA OtherStepKeepsIInv ==
  ASSUME IInv,
         \/ \E m \in Monitors : MonitorPolls(m) \/ MonitorPolled(m) \/ MonitorStops(m)
         \/ ServeMetrics \/ MetricsStops
         \/ \E t \in Tasks : TaskTaken(t) \/ TaskEnds(t)
         \/ CancelContext \/ SignalArrives
         \/ UNCHANGED vars
  PROVE  IInv'
<1> USE DEF outside
<1>1. UNCHANGED <<client, worker, tracing, slaEntries, pc>>
  BY DEF MonitorPolls, MonitorPolled, MonitorStops, ServeMetrics, MetricsStops,
         TaskTaken, TaskEnds, CancelContext, SignalArrives, vars
<1>2. (NewIsAlone /\ Progress /\ SomebodyIsAtIt /\ ClientOutlivesWorker)'
  BY <1>1 DEF IInv, NewIsAlone, Progress, SomebodyIsAtIt, ClientOutlivesWorker
<1>3. TypeOK'
  <2>1. monitor' \in [Monitors -> {"none", "waiting", "polling", "done"}]
    BY DEF IInv, TypeOK, MonitorPolls, MonitorPolled, MonitorStops, ServeMetrics,
           MetricsStops, TaskTaken, TaskEnds, CancelContext, SignalArrives,
           vars
  <2>2. task' \in [Tasks -> {"queued", "running", "reported", "lost"}]
    BY DEF IInv, TypeOK, MonitorPolls, MonitorPolled, MonitorStops, ServeMetrics,
           MetricsStops, TaskTaken, TaskEnds, CancelContext, SignalArrives,
           vars
  <2>3. /\ metrics' \in {"off", "serving", "failed", "closed"}
        /\ ctxDone' \in BOOLEAN /\ signal' \in BOOLEAN
    BY DEF IInv, TypeOK, MonitorPolls, MonitorPolled, MonitorStops, ServeMetrics,
           MetricsStops, TaskTaken, TaskEnds, CancelContext, SignalArrives,
           vars
  <2> QED BY <1>1, <2>1, <2>2, <2>3 DEF IInv, TypeOK
<1>4. QuietUntilStarted'
  BY <1>1 DEF IInv, TypeOK, QuietUntilStarted, MonitorPolls, MonitorPolled,
              MonitorStops, ServeMetrics, MetricsStops, TaskTaken, TaskEnds,
              CancelContext, SignalArrives, vars
<1> QED BY <1>2, <1>3, <1>4 DEF IInv

\* The inductive invariant holds in every reachable state of the engine: the
\* client is closed behind the worker, and shutdown steps are never undone by
\* the other goroutine.
THEOREM EngineIInv == Spec => []IInv
<1>1. IInv /\ [Next]_vars => IInv'
  BY StartStepKeepsIInv, ShutdownStepKeepsIInv, OtherStepKeepsIInv DEF Next
<1> QED BY InitIInv, <1>1, PTL DEF Spec

\* Every variable of the engine keeps its type, and there is a worker exactly
\* when New got a client.
THEOREM EngineTypeOK == Spec => []TypeOK
<1>1. IInv => TypeOK
  BY DEF IInv
<1> QED BY EngineIInv, <1>1, PTL

\* No interleaving of Start and Shutdown leaves a running worker without an
\* open client.
THEOREM EngineRunningWorkerHasClient == Spec => []RunningWorkerHasClient
<1>1. IInv => RunningWorkerHasClient
  BY DEF IInv, ClientOutlivesWorker, RunningWorkerHasClient
<1> QED BY EngineIInv, <1>1, PTL

\* When Start or Shutdown has returned nil the client is closed, the worker takes
\* no tasks and the tracing provider is no longer live; when neither of them is
\* under way any more, worker and provider are down, the spans flushed or lost.
THEOREM EngineReturnedMeansReleased == Spec => []ReturnedMeansReleased
<1>1. IInv => ReturnedMeansReleased
  BY DEF IInv, TypeOK, Progress, SomebodyIsAtIt, ReturnedMeansReleased, ShuttingDown
<1> QED BY EngineIInv, <1>1, PTL

\* An engine whose New or Start has failed never runs a worker, a monitor or a
\* task, however many of them there are, also after somebody's Shutdown.
THEOREM EngineFailureLeavesNothingRunning == Spec => []FailureLeavesNothingRunning
<1>1. IInv => FailureLeavesNothingRunning
  BY DEF IInv, QuietUntilStarted, FailureLeavesNothingRunning
<1> QED BY EngineIInv, <1>1, PTL
=============================================================================
