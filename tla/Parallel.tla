------------------------------ MODULE Parallel ------------------------------
(***************************************************************************)
(* workflow/parallel.go: one call of ExecuteParallel (or of its best-effort*)
(* variant) over N activity calls.                                         *)
(*                                                                         *)
(* The server resolves the futures in any order and in batches: several    *)
(* may be resolved before the coroutine runs again.  External, modelled    *)
(* from how parallel.go uses it (go.temporal.io/sdk): Selector.Select runs *)
(* the first ready case in the order of AddFuture; if none is ready it     *)
(* blocks, and then runs the case whose future resolves first.  A case     *)
(* that has run is removed.  Cancelling the context resolves the pending   *)
(* futures with CanceledError.                                             *)
(***************************************************************************)
EXTENDS Integers, Sequences, FiniteSets

CONSTANT N  \* len(calls)

ASSUME NAssumption == N \in Nat

VARIABLES
  bestEffort,   \* called through ExecuteParallelBestEffort?
  ResultPtr,    \* of each call: "nil", or does the activity's result decode
                \* into it ("fits") or not ("misfits")?
  pc,           \* "start", "selecting", "blocked", "aggregate", "returned"
  future,       \* each call's future: "none", "pending", or how it resolved
  added,        \* calls whose case is still in the Selector
  ready,        \* the call whose case unblocks the Selector, -1 if none
  selects,      \* completed sel.Select calls
  results,      \* the []ParallelResult
  stored,       \* calls whose ResultPtr was filled
  retErr,       \* the returned error: "none", "single" or "combined"
  ctxCanceled

vars == <<bestEffort, ResultPtr, pc, future, added, ready, selects, results, stored,
          retErr, ctxCanceled>>
config == <<bestEffort, ResultPtr>>

Calls == 0 .. N - 1
Resolved == {"ok", "err", "canceled"}
NoCall == -1

Outcomes == Resolved \cup {"undecodable"}
ParallelResults == [Index : Calls, Err : Outcomes]

Init ==
  /\ bestEffort \in BOOLEAN
  /\ ResultPtr \in [Calls -> {"nil", "fits", "misfits"}]
  /\ pc = "start"
  /\ future = [i \in Calls |-> "none"]
  /\ added = {}
  /\ ready = NoCall
  /\ selects = 0
  /\ results = <<>>
  /\ stored = {}
  /\ retErr = "none"
  /\ ctxCanceled \in BOOLEAN

\* Cases are looked at in the order in which they were added.
IsFirst(i, S) == i \in S /\ \A j \in S : i <= j

-----------------------------------------------------------------------------
\* Fan-out: every activity is scheduled and every case added.  On a cancelled
\* context every future is resolved before the first Select.
FanOut ==
  /\ pc = "start"
  /\ IF N = 0
       THEN /\ pc' = "returned"
            /\ UNCHANGED <<future, added>>
       ELSE /\ pc' = "selecting"
            /\ added' = Calls
            /\ future' = [i \in Calls |-> IF ctxCanceled THEN "canceled" ELSE "pending"]
  /\ UNCHANGED <<config, ready, selects, results, stored, retErr, ctxCanceled>>

\* fut.Get on the resolved future of call i: its error, that of decoding the
\* result into ResultPtr, or "ok".  Get(ctx, nil) decodes nothing.
Get(i) ==
  IF future[i] = "ok" /\ ResultPtr[i] = "misfits" THEN "undecodable" ELSE future[i]

\* ResultPtr is filled by a Get that has one and succeeds.
Fills(i) == ResultPtr[i] # "nil" /\ Get(i) = "ok"

\* The case callback of call i: Get into ResultPtr, and append.
Callback(i) ==
  /\ results' = Append(results, [Index |-> i, Err |-> Get(i)])
  /\ stored' = IF Fills(i) THEN stored \cup {i} ELSE stored

\* Mistake: the loop condition is i <= len(calls).
SelectLoopOnceMore(i) ==
  pc' = IF selects = N THEN "aggregate" ELSE "selecting"

\* for i := 0; i < len(calls); i++
SelectLoop(i) ==
  pc' = IF selects + 1 = N THEN "aggregate" ELSE "selecting"

RunCase(i) ==
  /\ Callback(i)
  /\ added' = added \ {i}
  /\ ready' = NoCall
  /\ selects' = selects + 1
  /\ SelectLoop(i)
  /\ UNCHANGED <<config, future, retErr, ctxCanceled>>

ReadyCases == {i \in added : future[i] \in Resolved}

\* sel.Select finds a ready case at once,
SelectReady ==
  /\ pc = "selecting"
  /\ \E i \in ReadyCases : IsFirst(i, ReadyCases) /\ RunCase(i)

\* or blocks until an event resolves one.
SelectBlocks ==
  /\ pc = "selecting"
  /\ ReadyCases = {}
  /\ pc' = "blocked"
  /\ UNCHANGED <<config, future, added, ready, selects, results, stored, retErr,
                 ctxCanceled>>

SelectResumes ==
  /\ pc = "blocked"
  /\ ready # NoCall
  /\ RunCase(ready)

Failed == {n \in 1 .. Len(results) : results[n].Err # "ok"}

\* Mistake: only the last result's error is looked at.
CombineErrorsOfLast ==
  IF results[Len(results)].Err = "ok" THEN "none" ELSE "single"

\* combineErrors: one error is returned as it is, more are flattened to text.
CombineErrors ==
  IF Failed = {} THEN "none"
  ELSE IF Cardinality(Failed) = 1 THEN "single" ELSE "combined"

Aggregate ==
  /\ pc = "aggregate"
  /\ pc' = "returned"
  /\ retErr' = IF bestEffort THEN "none" ELSE CombineErrors
  /\ UNCHANGED <<config, future, added, ready, selects, results, stored,
                 ctxCanceled>>

-----------------------------------------------------------------------------
\* The server's events.  They are applied while the coroutine is blocked.
ActivityCloses(i, how) ==
  /\ pc = "blocked"
  /\ future[i] = "pending"
  /\ how \in {"ok", "err"}
  /\ future' = [future EXCEPT ![i] = how]
  /\ ready' = IF ready = NoCall THEN i ELSE ready
  /\ UNCHANGED <<config, pc, added, selects, results, stored, retErr, ctxCanceled>>

Pending == {i \in Calls : future[i] = "pending"}

CancelWorkflow ==
  /\ pc = "blocked"
  /\ ~ctxCanceled
  /\ ctxCanceled' = TRUE
  /\ future' = [i \in Calls |-> IF future[i] = "pending" THEN "canceled" ELSE future[i]]
  /\ \/ ready = NoCall /\ \E i \in Pending : IsFirst(i, Pending) /\ ready' = i
     \/ (ready # NoCall \/ Pending = {}) /\ UNCHANGED ready
  /\ UNCHANGED <<config, pc, added, selects, results, stored, retErr>>

Next ==
  \/ FanOut
  \/ SelectReady
  \/ SelectBlocks
  \/ SelectResumes
  \/ Aggregate
  \/ \E i \in Calls, how \in {"ok", "err"} : ActivityCloses(i, how)
  \/ CancelWorkflow

Spec == Init /\ [][Next]_vars

\* The coroutine is scheduled, and every activity closes: each is bounded by
\* the timeouts its options carry.
FairSpec ==
  /\ Spec
  /\ WF_vars(FanOut) /\ WF_vars(SelectReady) /\ WF_vars(SelectBlocks)
  /\ WF_vars(SelectResumes) /\ WF_vars(Aggregate)
  /\ \A i \in Calls : WF_vars(\E how \in {"ok", "err"} : ActivityCloses(i, how))

-----------------------------------------------------------------------------
\* Every variable has its type, and a blocked Selector's ready case is one
\* that is still to run.
TypeOK ==
  /\ bestEffort \in BOOLEAN
  /\ ResultPtr \in [Calls -> {"nil", "fits", "misfits"}]
  /\ pc \in {"start", "selecting", "blocked", "aggregate", "returned"}
  /\ future \in [Calls -> {"none", "pending"} \cup Resolved]
  /\ added \subseteq Calls
  /\ ready \in ReadyCases \cup {NoCall}
  /\ selects \in 0 .. N
  /\ results \in Seq(ParallelResults)
  /\ stored \subseteq Calls
  /\ retErr \in {"none", "single", "combined"}
  /\ ctxCanceled \in BOOLEAN

\* Fan-in is complete and unmixed: when the call returns no activity is still
\* running, every call has exactly one result under its own index with its own
\* error, and exactly the calls that have a ResultPtr and whose activity
\* succeeded with a result that fits it have filled it, whatever the order and
\* batching of completions and cancellation.  The caller that only looks at the
\* error is told of a failed activity or an undecodable result exactly when
\* there was one; the best-effort caller never is.
ResultsMatchCalls ==
  pc = "returned" =>
    /\ Len(results) = N
    /\ \A i \in Calls :
         /\ future[i] \in Resolved
         /\ \E n \in 1 .. N : results[n] = [Index |-> i, Err |-> Get(i)]
    /\ stored = {i \in Calls : future[i] = "ok" /\ ResultPtr[i] = "fits"}
    /\ retErr # "none" <=>
         (~bestEffort /\ \E i \in Calls : future[i] # "ok" \/ ResultPtr[i] = "misfits")

\* Every call returns, however its activities end.
ParallelReturns == <>(pc = "returned")
=============================================================================
