------------------------------- MODULE Engine -------------------------------
(***************************************************************************)
(* client/engine.go, client/shutdown.go and the monitor loop of            *)
(* client/sla.go: one Engine from New to the end of its shutdown.          *)
(*                                                                         *)
(* Goroutines: the one that calls New, Register..., and Start; another one *)
(* that may call Shutdown at any moment after New; the SLA monitors; the   *)
(* metrics server; and the activity tasks the worker has taken.            *)
(*                                                                         *)
(* External, modelled from how the engine uses it (go.temporal.io/sdk):    *)
(* worker.Stop acts once, later calls return at once; with                 *)
(* WorkerStopTimeout unset it does not wait for the tasks that are         *)
(* running; a worker that was stopped cannot be started; a task that ends  *)
(* when the client is closed cannot report its result; a tracing provider  *)
(* is shut down by its first caller, who may fail or run out of time; a    *)
(* further call returns nil at once.                                       *)
(***************************************************************************)

CONSTANTS
  Monitors,  \* workflow types registered with RegisterWorkflowWithSLA
  Tasks      \* bound: activity tasks the worker may take

VARIABLES
  \* fields of the Engine
  client,      \* "none", "open" or "closed"
  worker,      \* "none", "created", "running", "stopping" or "stopped"
  tracing,     \* the provider behind tracingShutdown: "none" (a no-op), "live",
               \* "flushing", "flushed" or "dropped" (spans were lost)
  slaEntries,
  \* the goroutines
  pc,          \* where New/Start and Shutdown are
  monitor,     \* each monitor: "none", "waiting", "polling" or "done"
  metrics,     \* ServeMetrics: "off", "serving", "failed" or "closed"
  task,        \* each task: "queued", "running", "reported" or "lost"
  \* the outside
  ctxDone,     \* the context given to Start and ServeMetrics
  signal       \* a SIGTERM or SIGINT is in sigCh

vars == <<client, worker, tracing, slaEntries, pc, monitor, metrics, task,
          ctxDone, signal>>
outside == <<ctxDone, signal>>

Goroutines == {"Start", "Shutdown"}
ShuttingDown == {"stopWorker", "stopping", "closeClient", "shutTracing",
                 "flushing"}
Locations == {"new", "tls", "tracing", "dial", "ready", "started", "select",
              "failed", "idle", "returned"} \cup ShuttingDown

Init ==
  /\ client = "none"
  /\ worker = "none"
  /\ tracing = "none"
  /\ slaEntries = {}
  /\ pc = [g \in Goroutines |-> IF g = "Start" THEN "new" ELSE "idle"]
  /\ monitor = [m \in Monitors |-> "none"]
  /\ metrics = "off"
  /\ task = [t \in Tasks |-> "queued"]
  /\ ctxDone = FALSE
  /\ signal = FALSE

Goto(g, l) == pc' = [pc EXCEPT ![g] = l]

-----------------------------------------------------------------------------
(* New.                                                                    *)

\* applyDefaults, the required TaskQueue and the logger.
CheckConfig ==
  /\ pc["Start"] = "new"
  /\ \E l \in {"failed", "tls", "tracing"} : Goto("Start", l)
  /\ UNCHANGED <<client, worker, tracing, slaEntries, monitor, metrics, task, outside>>

\* A certificate or CA file that cannot be read or parsed.
BuildTLSConfig ==
  /\ pc["Start"] = "tls"
  /\ \E l \in {"failed", "tracing"} : Goto("Start", l)
  /\ UNCHANGED <<client, worker, tracing, slaEntries, monitor, metrics, task, outside>>

\* Without an OTLP endpoint there is no provider and shutting it down is a
\* no-op.
SetupTracing ==
  /\ pc["Start"] = "tracing"
  /\ \/ Goto("Start", "failed") /\ UNCHANGED tracing
     \/ Goto("Start", "dial") /\ tracing' \in {"none", "live"}
  /\ UNCHANGED <<client, worker, slaEntries, monitor, metrics, task, outside>>

\* client.Dial and worker.New.  When Dial fails the tracing provider is left
\* running, with nobody to shut it down.
Dial ==
  /\ pc["Start"] = "dial"
  /\ \/ Goto("Start", "failed") /\ UNCHANGED <<client, worker>>
     \/ Goto("Start", "ready") /\ client' = "open" /\ worker' = "created"
  /\ UNCHANGED <<tracing, slaEntries, monitor, metrics, task, outside>>

\* With thresholds of zero only the worker hears of the workflow, and no
\* state of the engine changes.
RegisterWorkflowWithSLA(m) ==
  /\ pc["Start"] = "ready"
  /\ slaEntries' = slaEntries \cup {m}
  /\ UNCHANGED <<client, worker, tracing, pc, monitor, metrics, task, outside>>

-----------------------------------------------------------------------------
(* Start.                                                                  *)

\* Mistake: the monitors are started first.
StartWorkerLast ==
  /\ pc["Start"] = "ready"
  /\ monitor' = [m \in Monitors |-> IF m \in slaEntries THEN "waiting" ELSE "none"]
  /\ \/ worker = "created" /\ worker' = "running" /\ Goto("Start", "started")
     \/ UNCHANGED worker /\ Goto("Start", "failed")
  /\ UNCHANGED <<client, tracing, slaEntries, metrics, task, outside>>

\* e.worker.Start(): its error is returned as it is, with nothing released.
StartWorker ==
  /\ pc["Start"] = "ready"
  /\ \/ worker = "created" /\ worker' = "running" /\ Goto("Start", "started")
     \/ UNCHANGED worker /\ Goto("Start", "failed")
  /\ UNCHANGED <<client, tracing, slaEntries, monitor, metrics, task, outside>>

\* startSLAMonitors and signal.Notify.
StartSLAMonitors ==
  /\ pc["Start"] = "started"
  /\ monitor' = [m \in Monitors |-> IF m \in slaEntries THEN "waiting" ELSE "none"]
  /\ Goto("Start", "select")
  /\ UNCHANGED <<client, worker, tracing, slaEntries, metrics, task, outside>>

\* Mistake: Start waits for its context only.
SelectOnContext ==
  /\ pc["Start"] = "select"
  /\ ctxDone
  /\ Goto("Start", "stopWorker")
  /\ UNCHANGED <<client, worker, tracing, slaEntries, monitor, metrics, task, outside>>

\* select { case <-ctx.Done(): case <-sigCh: }
Select ==
  /\ pc["Start"] = "select"
  /\ ctxDone \/ signal
  /\ Goto("Start", "stopWorker")
  /\ UNCHANGED <<client, worker, tracing, slaEntries, monitor, metrics, task, outside>>

\* Shutdown is called by a goroutine that was given the Engine.
Shutdown ==
  /\ pc["Shutdown"] = "idle"
  /\ client # "none"
  /\ Goto("Shutdown", "stopWorker")
  /\ UNCHANGED <<client, worker, tracing, slaEntries, monitor, metrics, task, outside>>

-----------------------------------------------------------------------------
(* shutdown and Shutdown: the same calls in the same order.                *)

\* Mistake: a shutdown that finds another one under way returns.
StopWorkerOnce(g) ==
  /\ pc[g] = "stopWorker"
  /\ \/ /\ worker \in {"created", "running"}
        /\ worker' = "stopping"
        /\ Goto(g, "stopping")
     \/ /\ worker \in {"stopping", "stopped"}
        /\ Goto(g, "returned")
        /\ UNCHANGED worker
  /\ UNCHANGED <<client, tracing, slaEntries, monitor, metrics, task, outside>>

\* Mistake: the client is closed first.
CloseBeforeStop(g) ==
  /\ pc[g] = "stopWorker"
  /\ client' = "closed"
  /\ worker' = worker
  /\ Goto(g, "stopping")
  /\ UNCHANGED <<tracing, slaEntries, monitor, metrics, task, outside>>

\* e.worker.Stop()
StopWorker(g) ==
  /\ pc[g] = "stopWorker"
  /\ \/ /\ worker \in {"created", "running"}
        /\ worker' = "stopping"
        /\ Goto(g, "stopping")
     \/ /\ worker \in {"stopping", "stopped"}
        /\ Goto(g, "closeClient")
        /\ UNCHANGED worker
  /\ UNCHANGED <<client, tracing, slaEntries, monitor, metrics, task, outside>>

\* Stop returns without waiting for running tasks: New passes no
\* WorkerStopTimeout to worker.New, and shutdownCtx is not for the worker.
WorkerStopped(g) ==
  /\ pc[g] = "stopping"
  /\ worker' = "stopped"
  /\ Goto(g, "closeClient")
  /\ UNCHANGED <<client, tracing, slaEntries, monitor, metrics, task, outside>>

\* e.client.Close()
CloseClient(g) ==
  /\ pc[g] = "closeClient"
  /\ client' = "closed"
  /\ Goto(g, "shutTracing")
  /\ UNCHANGED <<worker, tracing, slaEntries, monitor, metrics, task, outside>>

\* e.tracingShutdown(...): the first call begins to flush the spans; any other
\* returns at once, also while the first one is still at it.
TracingShutdown(g) ==
  /\ pc[g] = "shutTracing"
  /\ \/ tracing = "live" /\ tracing' = "flushing" /\ Goto(g, "flushing")
     \/ tracing # "live" /\ Goto(g, "returned") /\ UNCHANGED tracing
  /\ UNCHANGED <<client, worker, slaEntries, monitor, metrics, task, outside>>

\* The first call ends, within the context's timeout.  Its error is only logged:
\* Start and Shutdown return nil whether or not the spans have left the process.
TracingFlushed(g) ==
  /\ pc[g] = "flushing"
  /\ tracing' \in {"flushed", "dropped"}
  /\ Goto(g, "returned")
  /\ UNCHANGED <<client, worker, slaEntries, monitor, metrics, task, outside>>

\* The steps of shutdown.
ShutdownStep(g) ==
  \/ StopWorker(g) \/ WorkerStopped(g) \/ CloseClient(g)
  \/ TracingShutdown(g) \/ TracingFlushed(g)

-----------------------------------------------------------------------------
(* runSLAMonitor and ServeMetrics.                                         *)

\* case <-ticker.C: checkSLA calls the client, whatever state it is in.
MonitorPolls(m) ==
  /\ monitor[m] = "waiting"
  /\ monitor' = [monitor EXCEPT ![m] = "polling"]
  /\ UNCHANGED <<client, worker, tracing, slaEntries, pc, metrics, task, outside>>

\* checkSLA returns, after an answer or an error.
MonitorPolled(m) ==
  /\ monitor[m] = "polling"
  /\ monitor' = [monitor EXCEPT ![m] = "waiting"]
  /\ UNCHANGED <<client, worker, tracing, slaEntries, pc, metrics, task, outside>>

\* case <-ctx.Done()
MonitorStops(m) ==
  /\ monitor[m] = "waiting"
  /\ ctxDone
  /\ monitor' = [monitor EXCEPT ![m] = "done"]
  /\ UNCHANGED <<client, worker, tracing, slaEntries, pc, metrics, task, outside>>

\* ServeMetrics: refused when metrics are disabled, or the listener fails.
ServeMetrics ==
  /\ metrics = "off"
  /\ client # "none"
  /\ metrics' \in {"serving", "failed"}
  /\ UNCHANGED <<client, worker, tracing, slaEntries, pc, monitor, task, outside>>

MetricsStops ==
  /\ metrics = "serving"
  /\ ctxDone
  /\ metrics' = "closed"
  /\ UNCHANGED <<client, worker, tracing, slaEntries, pc, monitor, task, outside>>

-----------------------------------------------------------------------------
(* The worker's tasks, the operating system and the caller.                *)

TaskTaken(t) ==
  /\ task[t] = "queued"
  /\ worker = "running"
  /\ task' = [task EXCEPT ![t] = "running"]
  /\ UNCHANGED <<client, worker, tracing, slaEntries, pc, monitor, metrics, outside>>

TaskEnds(t) ==
  /\ task[t] = "running"
  /\ task' = [task EXCEPT ![t] = IF client = "open" THEN "reported" ELSE "lost"]
  /\ UNCHANGED <<client, worker, tracing, slaEntries, pc, monitor, metrics, outside>>

CancelContext ==
  /\ ~ctxDone
  /\ ctxDone' = TRUE
  /\ UNCHANGED <<client, worker, tracing, slaEntries, pc, monitor, metrics, task,
                 signal>>

\* sigCh holds one signal; before Notify and after Stop the engine gets none.
SignalArrives ==
  /\ pc["Start"] = "select"
  /\ ~signal
  /\ signal' = TRUE
  /\ UNCHANGED <<client, worker, tracing, slaEntries, pc, monitor, metrics, task,
                 ctxDone>>

Next ==
  \/ CheckConfig \/ BuildTLSConfig \/ SetupTracing \/ Dial
  \/ \E m \in Monitors : RegisterWorkflowWithSLA(m)
  \/ StartWorker \/ StartSLAMonitors \/ Select \/ Shutdown
  \/ \E g \in Goroutines : ShutdownStep(g)
  \/ \E m \in Monitors : MonitorPolls(m) \/ MonitorPolled(m) \/ MonitorStops(m)
  \/ ServeMetrics \/ MetricsStops
  \/ \E t \in Tasks : TaskTaken(t) \/ TaskEnds(t)
  \/ CancelContext \/ SignalArrives

Spec == Init /\ [][Next]_vars

\* Goroutines that can go on do.  A monitor's select picks among its ready
\* cases at random, so a done context is noticed although the ticker goes on.
FairSpec ==
  /\ Spec
  /\ WF_vars(Select)
  /\ \A g \in Goroutines : WF_vars(ShutdownStep(g))
  /\ \A m \in Monitors : WF_vars(MonitorPolled(m)) /\ SF_vars(MonitorStops(m))
  /\ WF_vars(MetricsStops)

-----------------------------------------------------------------------------
\* Every variable has its type, and there is a worker exactly when New got a
\* client for it.
TypeOK ==
  /\ client \in {"none", "open", "closed"}
  /\ worker \in {"none", "created", "running", "stopping", "stopped"}
  /\ worker = "none" <=> client = "none"
  /\ tracing \in {"none", "live", "flushing", "flushed", "dropped"}
  /\ slaEntries \subseteq Monitors
  /\ pc \in [Goroutines -> Locations]
  /\ monitor \in [Monitors -> {"none", "waiting", "polling", "done"}]
  /\ metrics \in {"off", "serving", "failed", "closed"}
  /\ task \in [Tasks -> {"queued", "running", "reported", "lost"}]
  /\ ctxDone \in BOOLEAN /\ signal \in BOOLEAN

\* A running worker has an open client, in whatever order Start, its own
\* shutdown and somebody's Shutdown are interleaved, also when Shutdown comes
\* before or during Start.
RunningWorkerHasClient == worker = "running" => client = "open"

\* When Start or Shutdown returns nil, whichever of the two came second, the
\* client is closed, the worker takes no more tasks and the tracing provider is
\* being shut down or was; and when neither is at it any more, the worker has
\* stopped and no flush is under way, its error if it had one left to the log.
ReturnedMeansReleased ==
  (\E g \in Goroutines : pc[g] = "returned") =>
    /\ client = "closed"
    /\ tracing # "live"
    /\ worker \in {"stopping", "stopped"}
    /\ (\A g \in Goroutines : pc[g] \notin ShuttingDown) =>
         worker = "stopped" /\ tracing \in {"none", "flushed", "dropped"}

\* An engine whose New or Start has failed does no work behind its caller's
\* back, then or later: no worker polls, no monitor runs and no task was taken.
\* (Its tracing provider and its client may still be live.)
FailureLeavesNothingRunning ==
  pc["Start"] = "failed" =>
    /\ worker # "running"
    /\ \A m \in Monitors : monitor[m] = "none"
    /\ \A t \in Tasks : task[t] = "queued"

\* Cancelling the context brings down a started engine and everything that
\* runs beside it: Start returns, every monitor ends, the metrics server closes.
\* A signal alone makes Start return.
StopRequestsAreHonoured ==
  /\ (ctxDone /\ pc["Start"] = "select") ~>
       /\ pc["Start"] = "returned"
       /\ \A m \in Monitors : monitor[m] \in {"none", "done"}
       /\ metrics # "serving"
  /\ (signal /\ pc["Start"] = "select") ~> pc["Start"] = "returned"
=============================================================================
