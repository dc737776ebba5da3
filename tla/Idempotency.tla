---------------------------- MODULE Idempotency -----------------------------
(***************************************************************************)
(* activity/idempotency_store.go and activity/idempotency.go: one activity *)
(* whose body is ExecuteIdempotent(ctx, store, key, &result, fn), executed *)
(* by the Temporal server in successive runs of one workflow ID and, within*)
(* a run, in numbered attempts.                                            *)
(*                                                                         *)
(* Every attempt is a process of its own: the server starts attempt n + 1  *)
(* when attempt n failed or when it has not heard of it in time, and then  *)
(* attempt n may still be running somewhere (at-least-once execution).     *)
(* Store calls, fn and the answer to the server are separate steps.        *)
(*                                                                         *)
(* External: the server (attempts, timeouts, answers), Redis, and fn.      *)
(***************************************************************************)
EXTENDS Integers, Sequences, FiniteSets

CONSTANTS
  KeyFns,       \* which of the two key functions the activity may use
  Stores,       \* which store implementations it may use
  MaxRuns,      \* bound: runs of the workflow ID
  MaxAttempts,  \* attempts per run (RetryPolicy.MaximumAttempts)
  MaxFaults     \* bound: faults that can make the store miss an execution

ASSUME KeyFnsAssumption == KeyFns \subseteq {"IdempotencyKey", "IdempotencyKeyNoRetry"}
ASSUME StoresAssumption == Stores \subseteq {"memory", "redis"}
ASSUME BoundsAssumption ==
  MaxRuns \in Nat \ {0} /\ MaxAttempts \in Nat \ {0} /\ MaxFaults \in Nat

VARIABLES
  \* configuration, fixed for a behaviour
  keyFn, store,
  hasResult,   \* is resultPtr non-nil?
  activityID,  \* of each run: the ID the SDK gave the activity in it
  \* the store
  entries,     \* key -> the execution whose result is recorded
  \* the server
  run,         \* current run of the workflow ID
  attempt,     \* current attempt of the activity in that run
  status,      \* of each run's activity: "open", "completed" or "failed"
  answer,      \* of each run: the execution whose result completed it
  \* the attempts
  at,          \* <<run, attempt>> -> where ExecuteIdempotent is
  value,       \* <<run, attempt>> -> the execution *resultPtr came from
  \* history
  executions,  \* every successful call of fn, in order
  faults       \* how many faults happened

vars == <<keyFn, store, hasResult, activityID, entries, run, attempt, status,
          answer, at, value, executions, faults>>
config == <<keyFn, store, hasResult, activityID>>

Runs == 1 .. MaxRuns
Attempts == Runs \X (1 .. MaxAttempts)
MaxExecutions == MaxRuns * MaxAttempts
Nothing == 0        \* no execution: a missing entry, or the zero result
Corrupt == -1       \* an entry json.Unmarshal rejects

\* IdempotencyKey is "{WorkflowID}/{ActivityID}/{Attempt}" and
\* IdempotencyKeyNoRetry "{WorkflowID}/{ActivityID}"; the workflow ID is the
\* same for every attempt here, the activity ID for every attempt of a run,
\* and neither format has the run in it.
Key(a) ==
  <<activityID[a[1]], IF keyFn = "IdempotencyKey" THEN a[2] ELSE 0>>

Keys == Runs \X (0 .. MaxAttempts)

Init ==
  /\ keyFn \in KeyFns
  /\ store \in Stores
  /\ hasResult \in BOOLEAN
  \* The default ID is that of the event that scheduled the activity: runs get
  \* the same one or not, according to what their histories hold before it.
  /\ activityID \in {f \in [Runs -> Runs] : \A r \in Runs : f[r] <= r}
  /\ entries = [k \in Keys |-> Nothing]
  /\ run = 1
  /\ attempt = 1
  /\ status = [r \in Runs |-> "open"]
  /\ answer = [r \in Runs |-> Nothing]
  /\ at = [a \in Attempts |-> IF a = <<1, 1>> THEN "check" ELSE "idle"]
  /\ value = [a \in Attempts |-> Nothing]
  /\ executions = <<>>
  /\ faults = 0

Fault == faults < MaxFaults /\ faults' = faults + 1

-----------------------------------------------------------------------------
(* ExecuteIdempotentWithTTL, step by step, in attempt a.                   *)

\* Mistake: a hit is not distinguished from a miss.
CheckIgnored(a) ==
  /\ at[a] = "check"
  /\ at' = [at EXCEPT ![a] = "execute"]
  /\ UNCHANGED <<config, entries, run, attempt, status, answer, value, executions,
                 faults>>

\* store.Check found nothing, or an expired entry.
CheckMisses(a) ==
  /\ at[a] = "check"
  /\ entries[Key(a)] = Nothing
  /\ at' = [at EXCEPT ![a] = "execute"]
  /\ UNCHANGED <<config, entries, run, attempt, status, answer, value, executions,
                 faults>>

\* Mistake: a corrupted entry is returned as if it were the result.
CheckHitsUnchecked(a) ==
  /\ at[a] = "check"
  /\ entries[Key(a)] # Nothing
  /\ value' = [value EXCEPT ![a] = entries[Key(a)]]
  /\ at' = [at EXCEPT ![a] = "answer"]
  /\ UNCHANGED <<config, entries, run, attempt, status, answer, executions, faults>>

\* Mistake: the lookup is by a prefix of the key, so that any entry of the
\* workflow ID is a hit.
CheckHitsByPrefix(a) ==
  /\ at[a] = "check"
  /\ \E k \in Keys :
       /\ entries[k] \notin {Nothing, Corrupt}
       /\ value' = [value EXCEPT ![a] = entries[k]]
  /\ at' = [at EXCEPT ![a] = "answer"]
  /\ UNCHANGED <<config, entries, run, attempt, status, answer, executions, faults>>

\* Found: return the recorded result, or execute again if it is corrupted.  A
\* caller that wants no result does not look at the data at all.
CheckHits(a) ==
  /\ at[a] = "check"
  /\ entries[Key(a)] # Nothing
  /\ IF hasResult /\ entries[Key(a)] = Corrupt
       THEN at' = [at EXCEPT ![a] = "execute"] /\ UNCHANGED value
       ELSE /\ at' = [at EXCEPT ![a] = "answer"]
            /\ value' = [value EXCEPT ![a] = entries[Key(a)]]
  /\ UNCHANGED <<config, entries, run, attempt, status, answer, executions, faults>>

\* A read error counts as a miss.  Only Redis can fail.
CheckFails(a) ==
  /\ at[a] = "check"
  /\ store = "redis"
  /\ Fault
  /\ at' = [at EXCEPT ![a] = "execute"]
  /\ UNCHANGED <<config, entries, run, attempt, status, answer, value, executions>>

FnSucceeds(a) ==
  /\ at[a] = "execute"
  /\ executions' = Append(executions, [by |-> a, key |-> Key(a)])
  /\ value' = [value EXCEPT ![a] = Len(executions) + 1]
  /\ at' = [at EXCEPT ![a] = "record"]
  /\ UNCHANGED <<config, entries, run, attempt, status, answer, faults>>

FnFails(a) ==
  /\ at[a] = "execute"
  /\ at' = [at EXCEPT ![a] = "fail"]
  /\ UNCHANGED <<config, entries, run, attempt, status, answer, value, executions,
                 faults>>

\* Marshal and store.Record: an unconditional overwrite.
Record(a) ==
  /\ at[a] = "record"
  /\ entries' = [entries EXCEPT ![Key(a)] = value[a]]
  /\ at' = [at EXCEPT ![a] = "answer"]
  /\ UNCHANGED <<config, run, attempt, status, answer, value, executions, faults>>

\* Mistake: the record's error is returned to the server.
RecordErrorReturned(a) ==
  /\ at[a] = "record"
  /\ (hasResult \/ store = "redis")
  /\ Fault
  /\ at' = [at EXCEPT ![a] = "fail"]
  /\ UNCHANGED <<config, entries, run, attempt, status, answer, value, executions>>

\* The result cannot be marshalled, or Redis refuses it: best effort, the
\* activity has succeeded all the same.
RecordFails(a) ==
  /\ at[a] = "record"
  /\ (hasResult \/ store = "redis")
  /\ Fault
  /\ at' = [at EXCEPT ![a] = "answer"]
  /\ UNCHANGED <<config, entries, run, attempt, status, answer, value, executions>>

-----------------------------------------------------------------------------
(* The server, the workers and the store's environment.                    *)

Running(a) == at[a] \in {"check", "execute", "record"}
IsCurrent(a) == a = <<run, attempt>> /\ status[run] = "open"

\* The server gives up on the current attempt and starts the next, if the
\* retry policy has one left.
NextAttempt(atNow) ==
  IF attempt < MaxAttempts
    THEN /\ attempt' = attempt + 1
         /\ at' = [atNow EXCEPT ![<<run, attempt + 1>>] = "check"]
         /\ UNCHANGED status
    ELSE /\ status' = [status EXCEPT ![run] = "failed"]
         /\ at' = atNow
         /\ UNCHANGED attempt

\* The attempt's success reaches the server, which accepts it from the current
\* attempt only.
AnswerArrives(a) ==
  /\ at[a] = "answer"
  /\ at' = [at EXCEPT ![a] = "done"]
  /\ IF IsCurrent(a)
       THEN /\ status' = [status EXCEPT ![run] = "completed"]
            /\ answer' = [answer EXCEPT ![run] = value[a]]
       ELSE UNCHANGED <<status, answer>>
  /\ UNCHANGED <<config, entries, run, attempt, value, executions, faults>>

\* ... or is lost, or its worker crashes with everything already recorded.
AnswerLost(a) ==
  /\ at[a] = "answer"
  /\ at' = [at EXCEPT ![a] = "done"]
  /\ UNCHANGED <<config, entries, run, attempt, status, answer, value, executions,
                 faults>>

\* fn's error reaches the server: it is retried, or it is a business error
\* and the activity fails at once.
ErrorArrives(a) ==
  /\ at[a] = "fail"
  /\ \/ /\ IsCurrent(a)
        /\ NextAttempt([at EXCEPT ![a] = "done"])
     \/ /\ at' = [at EXCEPT ![a] = "done"]
        /\ status' = IF IsCurrent(a) THEN [status EXCEPT ![run] = "failed"]
                                     ELSE status
        /\ UNCHANGED attempt
  /\ UNCHANGED <<config, entries, run, answer, value, executions, faults>>

\* StartToCloseTimeout: harmless if the attempt has nothing left to do but
\* answer, a fault if it is still at work (two attempts then overlap).
AttemptTimesOut ==
  /\ status[run] = "open"
  /\ IF Running(<<run, attempt>>) THEN Fault ELSE UNCHANGED faults
  /\ NextAttempt(at)
  /\ UNCHANGED <<config, entries, run, answer, value, executions>>

\* A worker dies.  The in-memory store and every attempt that uses it die
\* with it; with Redis only the worker's attempt is lost.
WorkerCrashes(a) ==
  /\ Running(a)
  /\ Fault
  /\ IF store = "memory"
       THEN /\ at' = [b \in Attempts |-> IF at[b] = "idle" THEN "idle" ELSE "done"]
            /\ entries' = [k \in Keys |-> Nothing]
       ELSE at' = [at EXCEPT ![a] = "done"] /\ UNCHANGED entries
  /\ UNCHANGED <<config, run, attempt, status, answer, value, executions>>

\* The TTL passes before the activity is over, or Redis evicts the key.
EntryExpires(k) ==
  /\ entries[k] # Nothing
  /\ Fault
  /\ entries' = [entries EXCEPT ![k] = Nothing]
  /\ UNCHANGED <<config, run, attempt, status, answer, at, value, executions>>

\* InMemoryIdempotencyStore.Flush.
Flush ==
  /\ store = "memory"
  /\ Fault
  /\ entries' = [k \in Keys |-> Nothing]
  /\ UNCHANGED <<config, run, attempt, status, answer, at, value, executions>>

\* The recorded bytes stop being what json.Unmarshal expects, for instance
\* because the result type was changed by a deployment.
EntryCorrupted(k) ==
  /\ entries[k] \notin {Nothing, Corrupt}
  /\ hasResult
  /\ Fault
  /\ entries' = [entries EXCEPT ![k] = Corrupt]
  /\ UNCHANGED <<config, run, attempt, status, answer, at, value, executions>>

\* A closed workflow ID is started again.
StartRun ==
  /\ status[run] # "open"
  /\ run < MaxRuns
  /\ run' = run + 1
  /\ attempt' = 1
  /\ at' = [at EXCEPT ![<<run + 1, 1>>] = "check"]
  /\ UNCHANGED <<config, entries, status, answer, value, executions, faults>>

Next ==
  \/ \E a \in Attempts :
       \/ CheckMisses(a) \/ CheckHits(a) \/ CheckFails(a)
       \/ FnSucceeds(a) \/ FnFails(a)
       \/ Record(a) \/ RecordFails(a)
       \/ AnswerArrives(a) \/ AnswerLost(a) \/ ErrorArrives(a)
       \/ WorkerCrashes(a)
  \/ AttemptTimesOut
  \/ \E k \in Keys : EntryExpires(k) \/ EntryCorrupted(k)
  \/ Flush
  \/ StartRun

Spec == Init /\ [][Next]_vars

-----------------------------------------------------------------------------
ExecutionIDs == 1 .. MaxExecutions

\* Every variable has its type.
TypeOK ==
  /\ keyFn \in KeyFns /\ store \in Stores /\ hasResult \in BOOLEAN
  /\ activityID \in [Runs -> Runs]
  /\ entries \in [Keys -> ExecutionIDs \cup {Nothing, Corrupt}]
  /\ run \in Runs /\ attempt \in 1 .. MaxAttempts
  /\ status \in [Runs -> {"open", "completed", "failed"}]
  /\ answer \in [Runs -> ExecutionIDs \cup {Nothing}]
  /\ at \in [Attempts -> {"idle", "check", "execute", "record", "answer", "fail", "done"}]
  /\ value \in [Attempts -> ExecutionIDs \cup {Nothing}]
  /\ executions \in Seq([by : Attempts, key : Keys])
  /\ Len(executions) <= MaxExecutions
  /\ faults \in 0 .. MaxFaults

\* What the store is for: a key is executed once, plus at most once for every
\* fault (an overlap, a crash before the record, a store error, an eviction)
\* that hides the execution from the next attempt.  Losing any number of
\* answers, late answers and runs of the same workflow ID add nothing.
DuplicatesAreBoundedByFaults ==
  \A k \in Keys :
    Cardinality({n \in 1 .. Len(executions) : executions[n].key = k}) <= 1 + faults

\* A run completes with what one of its attempts returned, and that is a
\* result fn really produced under that attempt's own key, whether it was
\* executed, replayed from the store or re-executed after a corrupted entry:
\* never a zero result, nor one recorded under another key (another attempt's
\* under IdempotencyKey, that of a run with another activity ID under either).
AnswerIsGenuine ==
  \A r \in Runs :
    (status[r] = "completed" /\ hasResult) =>
      \E n \in 1 .. MaxAttempts :
        /\ at[<<r, n>>] = "done" /\ value[<<r, n>>] = answer[r]
        /\ answer[r] \in 1 .. Len(executions)
        /\ executions[answer[r]].key = Key(<<r, n>>)

\* Once fn has succeeded the attempt never reports an error, whatever the
\* store does: an error would make the server run fn again.
SuccessIsNotReportedAsError ==
  \A n \in 1 .. Len(executions) : at[executions[n].by] # "fail"

=============================================================================
