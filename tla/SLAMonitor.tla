----------------------------- MODULE SLAMonitor -----------------------------
(***************************************************************************)
(* client/sla.go: the monitor goroutine of one workflow type, polling the  *)
(* Temporal server for open executions while executions start, close and   *)
(* are started again under the same workflow ID.                           *)
(*                                                                         *)
(* Time is a clock in ticks.  The monitor's ticker fires every interval;   *)
(* a poll is two steps, because the server answers with a snapshot and     *)
(* executions close and restart before the loop over it is done.           *)
(*                                                                         *)
(* External: the server's open-execution listing, most recently started    *)
(* first, cut off at the page size.                                        *)
(***************************************************************************)
EXTENDS Integers, FiniteSets

CONSTANTS
  WorkflowIDs,
  WarnAfter,    \* SLAConfig.WarnAfter in ticks, 0 = disabled
  AlertAfter,   \* SLAConfig.AlertAfter in ticks, 0 = disabled
  MinPoll,      \* 30 seconds, in ticks
  PageSize,     \* MaximumPageSize of the one page that is read
  MaxRuns,      \* bound: executions per workflow ID
  MaxTime       \* bound: ticks

ASSUME SLAAssumption ==
  /\ IsFiniteSet(WorkflowIDs)
  /\ WarnAfter \in Nat /\ AlertAfter \in Nat /\ WarnAfter + AlertAfter > 0
  /\ MinPoll \in Nat \ {0} /\ PageSize \in Nat \ {0}
  /\ MaxRuns \in Nat \ {0} /\ MaxTime \in Nat

VARIABLES
  now,
  runs,         \* how many executions each ID has had
  started,      \* ID -> start time of its open execution, Closed if none
  monitor,      \* "waiting", "listed" or "stopped"
  nextTick,     \* when the ticker fires next
  page,         \* the executions the last list call returned
  alerted,      \* the goroutine's map of workflow IDs
  failures,     \* history: has a list call failed since the page was fine?
  alerts        \* history: AlertFn calls, one record per call

monitorVars == <<now, runs, started, monitor, nextTick, page, alerted, failures, alerts>>

\* An enabled threshold shorter than twice the interval shortens it.
Shorten(interval, threshold) ==
  IF threshold > 0 /\ threshold \div 2 < interval THEN threshold \div 2 ELSE interval

\* Mistake: the interval follows the thresholds and not half of them.
IntervalOfThreshold ==
  LET longest == IF WarnAfter > AlertAfter THEN WarnAfter ELSE AlertAfter
  IN IF longest < MinPoll THEN MinPoll ELSE longest

\* runSLAMonitor's poll interval.
Interval ==
  LET interval == Shorten(Shorten(MinPoll, WarnAfter), AlertAfter)
  IN IF interval < MinPoll THEN MinPoll ELSE interval

\* What AlertFn is told, with the execution and the moment it is about.
SLABreachEvents ==
  [id : WorkflowIDs, run : 1 .. MaxRuns, start : 0 .. MaxTime, time : 0 .. MaxTime]

Closed == -1
OpenIDs == {w \in WorkflowIDs : started[w] # Closed}

MonitorInit ==
  /\ now = 0
  /\ runs = [w \in WorkflowIDs |-> 0]
  /\ started = [w \in WorkflowIDs |-> Closed]
  /\ monitor = "waiting"
  /\ nextTick = Interval
  /\ page = {}
  /\ alerted = {}
  /\ failures = FALSE
  /\ alerts = {}

-----------------------------------------------------------------------------
\* The environment.

StartWorkflow(w) ==
  /\ started[w] = Closed
  /\ runs[w] < MaxRuns
  /\ started' = [started EXCEPT ![w] = now]
  /\ runs' = [runs EXCEPT ![w] = @ + 1]
  /\ UNCHANGED <<now, monitor, nextTick, page, alerted, failures, alerts>>

CloseWorkflow(w) ==
  /\ started[w] # Closed
  /\ started' = [started EXCEPT ![w] = Closed]
  /\ UNCHANGED <<now, runs, monitor, nextTick, page, alerted, failures, alerts>>

\* A poll that is due or under way takes less than a tick.
Tick ==
  /\ now < MaxTime
  /\ monitor = "waiting" => now < nextTick
  /\ monitor # "listed"
  /\ now' = now + 1
  /\ UNCHANGED <<runs, started, monitor, nextTick, page, alerted, failures, alerts>>

-----------------------------------------------------------------------------
\* The monitor.

Snapshot(w) == [id |-> w, run |-> runs[w], start |-> started[w]]

\* The first page of the open executions, most recently started first.
IsFirstPage(S) ==
  /\ S \subseteq OpenIDs
  /\ Cardinality(S) = IF Cardinality(OpenIDs) < PageSize THEN Cardinality(OpenIDs)
                                                         ELSE PageSize
  /\ \A w \in S, v \in OpenIDs \ S : started[w] >= started[v]

\* case <-ticker.C: checkSLA's list call answers,
ListOpenWorkflow ==
  /\ monitor = "waiting"
  /\ now >= nextTick
  /\ \E S \in SUBSET WorkflowIDs :
       /\ IsFirstPage(S)
       /\ page' = {Snapshot(w) : w \in S}
  /\ monitor' = "listed"
  /\ nextTick' = nextTick + Interval
  /\ UNCHANGED <<now, runs, started, alerted, failures, alerts>>

\* or fails, which is logged, and the next tick tries again.
ListFails ==
  /\ monitor = "waiting"
  /\ now >= nextTick
  /\ nextTick' = nextTick + Interval
  /\ failures' = TRUE
  /\ UNCHANGED <<now, runs, started, monitor, page, alerted, alerts>>

\* Mistake: alerted is never consulted.
BreachedAgain(e) == AlertAfter > 0 /\ now - e.start >= AlertAfter

\* cfg.AlertAfter > 0 && runningFor >= cfg.AlertAfter && !alerted[wfID]
Breached(e) == AlertAfter > 0 /\ now - e.start >= AlertAfter /\ e.id \notin alerted

\* The loop over the page: alerted is marked and AlertFn started for each
\* execution that breaches.  Warnings are only logged.
CheckSLA ==
  /\ monitor = "listed"
  /\ LET breaching == {e \in page : Breached(e)}
     IN /\ alerted' = alerted \cup {e.id : e \in breaching}
        /\ alerts' = alerts \cup
             {[id |-> e.id, run |-> e.run, start |-> e.start, time |-> now] : e \in breaching}
  /\ page' = {}
  /\ monitor' = "waiting"
  /\ UNCHANGED <<now, runs, started, nextTick, failures>>

\* case <-ctx.Done()
MonitorStops ==
  /\ monitor = "waiting"
  /\ monitor' = "stopped"
  /\ UNCHANGED <<now, runs, started, nextTick, page, alerted, failures, alerts>>

MonitorNext ==
  \/ \E w \in WorkflowIDs : StartWorkflow(w) \/ CloseWorkflow(w)
  \/ Tick
  \/ ListOpenWorkflow
  \/ ListFails
  \/ CheckSLA
  \/ MonitorStops

MonitorSpec == MonitorInit /\ [][MonitorNext]_monitorVars

-----------------------------------------------------------------------------
\* Every variable has its type.
MonitorTypeOK ==
  /\ now \in 0 .. MaxTime
  /\ runs \in [WorkflowIDs -> 0 .. MaxRuns]
  /\ started \in [WorkflowIDs -> {Closed} \cup 0 .. MaxTime]
  /\ monitor \in {"waiting", "listed", "stopped"}
  /\ nextTick \in 1 .. MaxTime + Interval
  /\ page \subseteq [id : WorkflowIDs, run : 1 .. MaxRuns, start : 0 .. MaxTime]
  /\ alerted \subseteq WorkflowIDs
  /\ failures \in BOOLEAN
  /\ alerts \subseteq SLABreachEvents

\* No false alarm, and no second one: the execution an alert names had really
\* been running for the threshold, even if it has been restarted since the list
\* call, and AlertFn is called at most once per workflow ID, however often and
\* however late it is polled and whether or not it was restarted in between.
AlertsAreDueAndSingle ==
  /\ \A a \in alerts : a.time - a.start >= AlertAfter
  /\ \A a, b \in alerts : a.id = b.id => a = b

\* The longest poll interval runSLAMonitor's comment allows: "half the smaller
\* threshold, minimum 30s".
DocumentedInterval ==
  LET smaller == IF AlertAfter = 0 \/ (WarnAfter > 0 /\ WarnAfter < AlertAfter)
                   THEN WarnAfter ELSE AlertAfter
  IN IF smaller \div 2 < MinPoll THEN MinPoll ELSE smaller \div 2

\* An execution is overdue when it is still open a whole poll interval after
\* its breach.
Overdue(w) ==
  /\ AlertAfter > 0
  /\ started[w] # Closed
  /\ now - started[w] >= AlertAfter + DocumentedInterval
  /\ monitor # "stopped"

Alerted(w) == \E a \in alerts : a.id = w /\ a.run = runs[w]

\* Detection is prompt: while the list call works, fits on a page and the ID
\* is in its first execution, a breach is alerted within the documented poll interval.
FirstBreachIsAlertedInTime ==
  (~failures /\ Cardinality(WorkflowIDs) <= PageSize) =>
    \A w \in WorkflowIDs : (runs[w] = 1 /\ Overdue(w)) => Alerted(w)
=============================================================================
