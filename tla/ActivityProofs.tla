--------------------------- MODULE ActivityProofs ---------------------------
(***************************************************************************)
(* Proofs about the activity package.                                      *)
(*                                                                         *)
(* Idempotency, for any number of runs, attempts and faults: what the      *)
(* store, the attempts and the server hold was produced by fn under their  *)
(* key, an attempt that succeeded reports no error, and a key is executed  *)
(* once plus at most once per fault.                                       *)
(*                                                                         *)
(* RetryPolicy, for any number of builder calls and attempts: business     *)
(* errors are final, transient errors are retried while there are attempts *)
(* and time, and the presets' windows have room for what they promise.     *)
(***************************************************************************)
EXTENDS Idempotency, RetryPolicy, FiniteSetTheorems, SequenceTheorems, TLAPS

\* What the server has not started yet is idle, and open.
LaterIsIdle ==
  /\ \A a \in Attempts :
       (a[1] > run \/ (a[1] = run /\ a[2] > attempt)) => at[a] = "idle"
  /\ \A r \in Runs : r > run => status[r] = "open"

\* An attempt calls fn successfully at most once, and then only records and
\* answers.
OnceEach ==
  /\ \A n \in 1 .. Len(executions) :
       at[executions[n].by] \in {"record", "answer", "done"}
  /\ \A m, n \in 1 .. Len(executions) : executions[m].by = executions[n].by => m = n

\* Execution e happened, under key k.
Produced(e, k) == e \in 1 .. Len(executions) /\ executions[e].key = k

\* What the store and an attempt that has its result hold was produced by fn
\* under their key; an entry is corrupt only where it is read.
RecordsAreTrue ==
  /\ \A k \in Keys : entries[k] \notin {Nothing, Corrupt} => Produced(entries[k], k)
  /\ ~hasResult => \A k \in Keys : entries[k] # Corrupt
  /\ \A a \in Attempts : at[a] \in {"record", "answer"} => Produced(value[a], Key(a))

\* Attempt n of run r is over, and its result is the run's answer, produced
\* under the attempt's key.
Answered(r, n) ==
  /\ at[<<r, n>>] = "done" /\ value[<<r, n>>] = answer[r]
  /\ Produced(answer[r], Key(<<r, n>>))

\* A completed run was answered by one of its attempts.
AnswersAreTrue ==
  \A r \in Runs : status[r] = "completed" => \E n \in 1 .. MaxAttempts : Answered(r, n)

Places == {"idle", "check", "execute", "record", "answer", "fail", "done"}

IInv == TypeOK /\ LaterIsIdle /\ OnceEach /\ RecordsAreTrue /\ AnswersAreTrue

-----------------------------------------------------------------------------
\* The current attempt and its successors are attempts, and keys are keys.
LEMMA AttemptFacts ==
  ASSUME run \in Runs, attempt \in 1 .. MaxAttempts
  PROVE  /\ <<run, attempt>> \in Attempts
         /\ attempt < MaxAttempts =>
              attempt + 1 \in 1 .. MaxAttempts /\ <<run, attempt + 1>> \in Attempts
         /\ run < MaxRuns => run + 1 \in Runs /\ <<run + 1, 1>> \in Attempts
BY BoundsAssumption DEF Attempts, Runs

\* Both key functions give an attempt one of the keys.
LEMMA KeyType ==
  ASSUME TypeOK, NEW a \in Attempts
  PROVE  Key(a) \in Keys
<1>1. a[1] \in Runs /\ a[2] \in 0 .. MaxAttempts /\ 0 \in 0 .. MaxAttempts
  BY BoundsAssumption DEF Attempts
<1>2. activityID[a[1]] \in Runs
  BY <1>1 DEF TypeOK
<1> QED BY <1>1, <1>2 DEF Key, Keys

\* Every execution is by an attempt.
LEMMA ByAttempts ==
  ASSUME NEW s \in Seq([by : Attempts, key : Keys]), NEW n \in 1 .. Len(s)
  PROVE  s[n].by \in Attempts
<1>1. s[n] \in [by : Attempts, key : Keys]
  BY ElementOfSeq
<1> QED BY <1>1

\* An answer stays true while its attempt stays over.
LEMMA AnswersKept ==
  ASSUME AnswersAreTrue, UNCHANGED config,
         \A x, k : Produced(x, k) => Produced(x, k)',
         \A b \in Attempts : at[b] = "done" => at'[b] = "done" /\ value'[b] = value[b],
         \A r \in Runs : status'[r] = "completed" =>
           status[r] = "completed" /\ answer'[r] = answer[r]
  PROVE  AnswersAreTrue'
<1> SUFFICES ASSUME NEW r \in Runs, status'[r] = "completed"
             PROVE  \E n \in 1 .. MaxAttempts : Answered(r, n)'
  BY DEF AnswersAreTrue
<1>1. PICK n \in 1 .. MaxAttempts : Answered(r, n)
  BY DEF AnswersAreTrue
<1>2. <<r, n>> \in Attempts
  BY DEF Attempts
<1>3. Key(<<r, n>>)' = Key(<<r, n>>)
  BY DEF Key, config
<1>4. at'[<<r, n>>] = "done" /\ value'[<<r, n>>] = answer'[r]
  BY <1>1, <1>2 DEF Answered
<1>5. Produced(answer'[r], Key(<<r, n>>)) /\ answer'[r] = answer[r]
  BY <1>1 DEF Answered
<1>6. Produced(answer[r], Key(<<r, n>>))'
  BY <1>3, <1>5
<1> QED BY <1>4, <1>6 DEF Answered

\* Executions by distinct attempts are no more than there are attempts.
LEMMA DistinctIsBounded ==
  ASSUME NEW s \in Seq([by : Attempts, key : Keys]),
         \A m, n \in 1 .. Len(s) : s[m].by = s[n].by => m = n
  PROVE  Len(s) <= MaxExecutions
<1> DEFINE f == [n \in 1 .. Len(s) |-> s[n].by]
<1>0. MaxRuns \in Nat /\ MaxAttempts \in Nat /\ Len(s) \in Nat
  BY BoundsAssumption
<1>1. /\ IsFiniteSet(Runs) /\ Cardinality(Runs) = MaxRuns
      /\ IsFiniteSet(1 .. MaxAttempts) /\ Cardinality(1 .. MaxAttempts) = MaxAttempts
      /\ IsFiniteSet(1 .. Len(s)) /\ Cardinality(1 .. Len(s)) = Len(s)
  <2>1. \A m \in Nat : IsFiniteSet(1 .. m) /\ Cardinality(1 .. m) = m
    <3> TAKE m \in Nat
    <3>1. /\ IsFiniteSet(1 .. m)
          /\ Cardinality(1 .. m) = IF 1 > m THEN 0 ELSE m - 1 + 1
      BY FS_Interval
    <3> QED BY <3>1
  <2> QED BY <1>0, <2>1 DEF Runs
<1>2. IsFiniteSet(Attempts) /\ Cardinality(Attempts) = MaxExecutions
  BY <1>1, FS_Product DEF Attempts, MaxExecutions
<1>3. f \in Injection(1 .. Len(s), Attempts)
  <2>1. \A n \in 1 .. Len(s) : s[n].by \in Attempts
    BY ByAttempts
  <2>2. f \in [1 .. Len(s) -> Attempts]
    BY <2>1
  <2>3. \A m, n \in 1 .. Len(s) : f[m] = f[n] => m = n
    OBVIOUS
  <2> QED BY <2>2, <2>3 DEF Injection, IsInjective
<1>4. Cardinality(1 .. Len(s)) <= Cardinality(Attempts)
  BY <1>2, <1>3, FS_Injection
<1> QED BY <1>1, <1>2, <1>4

\* Before the first check nothing is recorded and nothing was executed.
LEMMA InitIInv == Init => IInv
<1> SUFFICES ASSUME Init PROVE IInv
  OBVIOUS
<1> USE BoundsAssumption
<1>0. MaxExecutions \in Nat /\ <<>> \in Seq([by : Attempts, key : Keys])
  BY DEF MaxExecutions
<1>1. TypeOK
  BY <1>0 DEF Init, TypeOK, Runs, Nothing
<1>2. LaterIsIdle
  BY DEF Init, LaterIsIdle, Attempts, Runs
<1>3. OnceEach
  BY DEF Init, OnceEach
<1>4. RecordsAreTrue /\ AnswersAreTrue
  BY DEF Init, RecordsAreTrue, AnswersAreTrue, Nothing, Corrupt
<1> QED BY <1>1, <1>2, <1>3, <1>4 DEF IInv

\* A step of one attempt that neither calls fn nor takes a result.
LEMMA MoveKeepsIInv ==
  ASSUME IInv, NEW a \in Attempts, at[a] # "idle", NEW p \in Places,
         at' = [at EXCEPT ![a] = p],
         UNCHANGED <<config, entries, run, attempt, status, answer, value, executions>>,
         faults' \in 0 .. MaxFaults,
         p \in {"record", "answer"} => at[a] \in {"record", "answer"},
         at[a] \in {"record", "answer", "done"} => p \in {"record", "answer", "done"}
  PROVE  IInv'
<1>1. TypeOK'
  BY DEF IInv, TypeOK, config, Places
<1>2. LaterIsIdle'
  BY DEF IInv, TypeOK, LaterIsIdle
<1>3. OnceEach'
  BY DEF IInv, TypeOK, OnceEach
<1>4. RecordsAreTrue'
  BY DEF IInv, TypeOK, RecordsAreTrue, Produced, Key, config
<1>5. AnswersAreTrue'
  <2>1. \A b \in Attempts : at[b] = "done" => at'[b] = "done"
    BY DEF IInv, TypeOK
  <2>2. \A x, k : Produced(x, k) => Produced(x, k)'
    BY DEF Produced
  <2> QED BY <2>1, <2>2, AnswersKept DEF IInv
<1> QED BY <1>1, <1>2, <1>3, <1>4, <1>5 DEF IInv

\* What a fault counts.
LEMMA FaultCounts ==
  ASSUME TypeOK, Fault
  PROVE  faults' = faults + 1 /\ faults' \in 0 .. MaxFaults
BY BoundsAssumption DEF TypeOK, Fault

\* What a hit returns is what was recorded under the attempt's key.
LEMMA CheckHitsKeepsIInv ==
  ASSUME IInv, NEW a \in Attempts, CheckHits(a)
  PROVE  IInv'
<1>0. Key(a) \in Keys /\ TypeOK
  BY KeyType DEF IInv
<1>1. CASE hasResult /\ entries[Key(a)] = Corrupt
  BY <1>0, <1>1, MoveKeepsIInv DEF CheckHits, Places, TypeOK
<1>2. CASE ~(hasResult /\ entries[Key(a)] = Corrupt)
  <2>1. /\ at[a] = "check" /\ at' = [at EXCEPT ![a] = "answer"]
        /\ value' = [value EXCEPT ![a] = entries[Key(a)]]
        /\ entries[Key(a)] # Nothing
        /\ UNCHANGED <<config, entries, run, attempt, status, answer, executions, faults>>
    BY <1>2 DEF CheckHits
  <2>2. entries[Key(a)] # Corrupt /\ Produced(entries[Key(a)], Key(a))
    BY <1>0, <1>2, <2>1 DEF IInv, RecordsAreTrue, TypeOK
  <2>3. TypeOK'
    BY <1>0, <2>1, <2>2 DEF TypeOK, config
  <2>4. LaterIsIdle'
    BY <1>0, <2>1 DEF IInv, TypeOK, LaterIsIdle
  <2>6. OnceEach'
    BY <1>0, <2>1 DEF IInv, TypeOK, OnceEach
  <2>5. RecordsAreTrue'
    BY <1>0, <2>1, <2>2 DEF IInv, TypeOK, RecordsAreTrue, Produced, Key, config
  <2>7. AnswersAreTrue'
    <3>1. \A b \in Attempts : at[b] = "done" => at'[b] = "done" /\ value'[b] = value[b]
      BY <1>0, <2>1 DEF TypeOK
    <3>2. \A x, k : Produced(x, k) => Produced(x, k)'
      BY <2>1 DEF Produced
    <3> QED BY <2>1, <3>1, <3>2, AnswersKept DEF IInv
  <2> QED BY <2>3, <2>4, <2>5, <2>6, <2>7 DEF IInv
<1> QED BY <1>1, <1>2

\* An attempt executes before it records or answers, hence once.
LEMMA FnSucceedsKeepsIInv ==
  ASSUME IInv, NEW a \in Attempts, FnSucceeds(a)
  PROVE  IInv'
<1> DEFINE e == [by |-> a, key |-> Key(a)]
<1>0. /\ Key(a) \in Keys /\ TypeOK /\ e \in [by : Attempts, key : Keys]
      /\ Len(executions) \in Nat
  BY KeyType DEF IInv, TypeOK
<1>1. /\ at[a] = "execute" /\ at' = [at EXCEPT ![a] = "record"]
      /\ executions' = Append(executions, e)
      /\ value' = [value EXCEPT ![a] = Len(executions) + 1]
      /\ UNCHANGED <<config, entries, run, attempt, status, answer, faults>>
  BY DEF FnSucceeds
<1>2. /\ executions' \in Seq([by : Attempts, key : Keys])
      /\ Len(executions') = Len(executions) + 1
      /\ executions'[Len(executions) + 1] = e
      /\ \A n \in 1 .. Len(executions) : executions'[n] = executions[n]
  BY <1>0, <1>1 DEF TypeOK
<1>3. e.by = a /\ e.key = Key(a)
  OBVIOUS
<1> HIDE DEF e
<1>4. \A n \in 1 .. Len(executions') : n \in 1 .. Len(executions) \/ n = Len(executions) + 1
  BY <1>0, <1>2
<1>5. \A n \in 1 .. Len(executions) : executions[n].by # a /\ executions[n].by \in Attempts
  BY <1>1, ByAttempts DEF IInv, OnceEach, TypeOK
<1>6. OnceEach'
  <2>1. \A n \in 1 .. Len(executions') : at'[executions'[n].by] \in {"record", "answer", "done"}
    BY <1>0, <1>1, <1>2, <1>3, <1>4, <1>5 DEF IInv, OnceEach, TypeOK
  <2>2. \A m, n \in 1 .. Len(executions') : executions'[m].by = executions'[n].by => m = n
    BY <1>2, <1>3, <1>4, <1>5 DEF IInv, OnceEach
  <2> QED BY <2>1, <2>2 DEF OnceEach
<1>7. Len(executions') <= MaxExecutions
  BY <1>2, <1>6, DistinctIsBounded DEF OnceEach
<1>8. TypeOK'
  <2>1. Len(executions) + 1 \in ExecutionIDs
    BY <1>0, <1>2, <1>7, BoundsAssumption DEF ExecutionIDs, MaxExecutions
  <2> QED BY <1>0, <1>1, <1>2, <1>7, <2>1 DEF TypeOK, config
<1>9. LaterIsIdle'
  BY <1>0, <1>1 DEF IInv, TypeOK, LaterIsIdle
<1>10. \A x, k : Produced(x, k) => Produced(x, k)'
  BY <1>0, <1>2 DEF Produced
<1>11. Len(executions) + 1 \in 1 .. Len(executions') /\ e.key = Key(a)'
  BY <1>0, <1>1, <1>2, <1>3 DEF Key, config
<1>12. RecordsAreTrue'
  <2>1. \A b \in Attempts : Key(b)' = Key(b)
    BY <1>1 DEF Key, config
  <2>2. /\ \A k \in Keys : entries'[k] \notin {Nothing, Corrupt} => Produced(entries[k], k)'
        /\ ~hasResult' => \A k \in Keys : entries'[k] # Corrupt
    BY <1>1, <1>10 DEF IInv, RecordsAreTrue, config
  <2>3. ASSUME NEW b \in Attempts, at'[b] \in {"record", "answer"}
        PROVE  Produced(value[b], Key(b))'
    <3>1. CASE b = a
      BY <1>0, <1>1, <1>2, <1>11, <3>1 DEF TypeOK, Produced
    <3>2. CASE b # a
      <4>1. at[b] = at'[b] /\ value'[b] = value[b]
        BY <1>0, <1>1, <3>2 DEF TypeOK
      <4> QED BY <1>10, <2>1, <2>3, <4>1 DEF IInv, RecordsAreTrue
    <3> QED BY <3>1, <3>2
  <2> QED BY <1>1, <2>2, <2>3 DEF RecordsAreTrue
<1>13. AnswersAreTrue'
  <2>1. \A b \in Attempts : at[b] = "done" => at'[b] = "done" /\ value'[b] = value[b]
    BY <1>0, <1>1 DEF TypeOK
  <2> QED BY <1>1, <1>10, <2>1, AnswersKept DEF IInv
<1> QED BY <1>6, <1>8, <1>9, <1>12, <1>13 DEF IInv

\* What is recorded is the attempt's own result, under its own key.
LEMMA RecordKeepsIInv ==
  ASSUME IInv, NEW a \in Attempts, Record(a)
  PROVE  IInv'
<1>0. Key(a) \in Keys /\ TypeOK
  BY KeyType DEF IInv
<1>1. /\ at[a] = "record" /\ at' = [at EXCEPT ![a] = "answer"]
      /\ entries' = [entries EXCEPT ![Key(a)] = value[a]]
      /\ UNCHANGED <<config, run, attempt, status, answer, value, executions, faults>>
  BY DEF Record
<1>2. Produced(value[a], Key(a))
  BY <1>1 DEF IInv, RecordsAreTrue
<1>3. TypeOK'
  BY <1>0, <1>1 DEF TypeOK, config
<1>4. LaterIsIdle' /\ OnceEach'
  BY <1>0, <1>1 DEF IInv, TypeOK, LaterIsIdle, OnceEach
<1>5. RecordsAreTrue'
  <2>1. \A x, k : Produced(x, k)' = Produced(x, k)
    BY <1>1 DEF Produced
  <2>2. value[a] # Corrupt
    BY <1>2 DEF Produced, Corrupt
  <2>3. \A k \in Keys : entries'[k] \notin {Nothing, Corrupt} => Produced(entries'[k], k)
    BY <1>0, <1>1, <1>2 DEF IInv, RecordsAreTrue, TypeOK
  <2>4. ~hasResult => \A k \in Keys : entries'[k] # Corrupt
    BY <1>0, <1>1, <2>2 DEF IInv, RecordsAreTrue, TypeOK
  <2>5. \A b \in Attempts : at'[b] \in {"record", "answer"} => Produced(value[b], Key(b))
    BY <1>0, <1>1, <1>2 DEF IInv, RecordsAreTrue, TypeOK
  <2> QED BY <1>1, <2>1, <2>3, <2>4, <2>5 DEF IInv, RecordsAreTrue, Key, config
<1>6. AnswersAreTrue'
  <2>1. \A b \in Attempts : at[b] = "done" => at'[b] = "done"
    BY <1>0, <1>1 DEF TypeOK
  <2>2. \A x, k : Produced(x, k) => Produced(x, k)'
    BY <1>1 DEF Produced
  <2> QED BY <1>1, <2>1, <2>2, AnswersKept DEF IInv
<1> QED BY <1>3, <1>4, <1>5, <1>6 DEF IInv

\* The run is completed with the answer of its current attempt.
LEMMA AnswerArrivesKeepsIInv ==
  ASSUME IInv, NEW a \in Attempts, AnswerArrives(a)
  PROVE  IInv'
<1>0. TypeOK /\ at[a] = "answer" /\ Produced(value[a], Key(a))
  BY DEF IInv, RecordsAreTrue, AnswerArrives
<1>1. CASE ~IsCurrent(a)
  BY <1>0, <1>1, MoveKeepsIInv DEF AnswerArrives, Places, TypeOK
<1>2. CASE IsCurrent(a)
  <2>1. /\ a = <<run, attempt>> /\ status[run] = "open"
        /\ at' = [at EXCEPT ![a] = "done"]
        /\ status' = [status EXCEPT ![run] = "completed"]
        /\ answer' = [answer EXCEPT ![run] = value[a]]
        /\ UNCHANGED <<config, entries, run, attempt, value, executions, faults>>
    BY <1>2 DEF AnswerArrives, IsCurrent
  <2>2. TypeOK'
    BY <1>0, <2>1 DEF TypeOK, config
  <2>3. LaterIsIdle' /\ OnceEach'
    <3>1. LaterIsIdle'
      <4>1. \A r \in Runs : r > run => status'[r] = status[r]
        <5>1. run \in Int /\ status \in [Runs -> {"open", "completed", "failed"}]
          <6>1. run \in Runs
            BY <1>0 DEF TypeOK
          <6>2. run \in Int
            BY <6>1 DEF Runs
          <6> QED BY <1>0, <6>2 DEF TypeOK
        <5> QED BY <2>1, <5>1
      <4>2. \A b \in Attempts : at[b] = "idle" => at'[b] = "idle"
        BY <1>0, <2>1 DEF TypeOK
      <4> QED BY <2>1, <4>1, <4>2 DEF IInv, LaterIsIdle
    <3>2. OnceEach'
      <4>1. \A n \in 1 .. Len(executions) : executions[n].by \in Attempts
        BY <1>0, ByAttempts DEF TypeOK
      <4>2. \A b \in Attempts : at[b] \in {"record", "answer", "done"} =>
              at'[b] \in {"record", "answer", "done"}
        BY <1>0, <2>1 DEF TypeOK
      <4> QED BY <2>1, <4>1, <4>2 DEF IInv, OnceEach
    <3> QED BY <3>1, <3>2
  <2>4. RecordsAreTrue'
    <3>1. \A x, k : Produced(x, k)' = Produced(x, k)
      BY <2>1 DEF Produced
    <3>2. \A b : Key(b)' = Key(b)
      BY <2>1 DEF Key, config
    <3>3. \A b \in Attempts : at'[b] \in {"record", "answer"} => Produced(value[b], Key(b))
      BY <1>0, <2>1 DEF IInv, RecordsAreTrue, TypeOK
    <3> QED BY <2>1, <3>1, <3>2, <3>3 DEF IInv, RecordsAreTrue, config
  <2>5. AnswersAreTrue'
    <3>0. run \in Runs /\ attempt \in 1 .. MaxAttempts /\ a \in Attempts
      BY <1>0 DEF TypeOK
    <3>1. \A x, k : Produced(x, k)' = Produced(x, k)
      BY <2>1 DEF Produced
    <3>2. \A b : Key(b)' = Key(b)
      BY <2>1 DEF Key, config
    <3>3. \A b \in Attempts : at[b] = "done" => at'[b] = "done"
      BY <1>0, <2>1 DEF TypeOK
    <3>4. at'[a] = "done" /\ answer'[run] = value[a] /\ value' = value
      BY <1>0, <2>1, <3>0 DEF TypeOK
    <3>5. ASSUME NEW r \in Runs, status'[r] = "completed"
          PROVE  \E n \in 1 .. MaxAttempts : Answered(r, n)'
      <4>1. CASE r = run
        <5>1. Produced(answer[run], Key(<<run, attempt>>))'
          BY <1>0, <2>1, <3>1, <3>2, <3>4
        <5>2. Answered(run, attempt)'
          BY <2>1, <3>4, <5>1 DEF Answered
        <5> QED BY <2>1, <3>0, <4>1, <5>2
      <4>2. CASE r # run
        <5>1. status[r] = "completed" /\ answer'[r] = answer[r]
          BY <1>0, <2>1, <3>5, <4>2 DEF TypeOK
        <5>2. PICK n \in 1 .. MaxAttempts : Answered(r, n)
          BY <5>1 DEF IInv, AnswersAreTrue
        <5>3. <<r, n>> \in Attempts
          BY DEF Attempts
        <5>4. Produced(answer[r], Key(<<r, n>>))'
          BY <3>1, <3>2, <5>1, <5>2 DEF Answered
        <5> QED BY <3>3, <3>4, <5>1, <5>2, <5>3, <5>4 DEF Answered
      <4> QED BY <4>1, <4>2
    <3> QED BY <3>5 DEF AnswersAreTrue
  <2> QED BY <2>2, <2>3, <2>4, <2>5 DEF IInv
<1> QED BY <1>1, <1>2

\* The server gives up on the current attempt, where atNow is IInv's at after
\* what the attempt itself has done.
LEMMA NextAttemptKeepsIInv ==
  ASSUME IInv, NEW atNow \in [Attempts -> Places], NextAttempt(atNow),
         status[run] = "open",
         \A b \in Attempts : atNow[b] = at[b] \/ (at[b] = "fail" /\ atNow[b] = "done"),
         UNCHANGED <<config, entries, run, answer, value, executions>>,
         faults' \in 0 .. MaxFaults
  PROVE  IInv'
<1> USE DEF Places
<1>0. /\ TypeOK /\ <<run, attempt>> \in Attempts /\ run \in Nat /\ attempt \in Nat
      /\ attempt < MaxAttempts =>
           attempt + 1 \in 1 .. MaxAttempts /\ <<run, attempt + 1>> \in Attempts
      /\ MaxAttempts \in Nat
  <2>1. TypeOK /\ run \in Runs /\ attempt \in 1 .. MaxAttempts
    BY DEF IInv, TypeOK
  <2> QED BY <2>1, AttemptFacts, BoundsAssumption DEF Runs
<1>1. \A n \in 1 .. Len(executions) : executions[n].by \in Attempts
  BY <1>0, ByAttempts DEF TypeOK
<1>2. CASE attempt < MaxAttempts
  <2> DEFINE new == <<run, attempt + 1>>
  <2>1. /\ attempt' = attempt + 1 /\ at' = [atNow EXCEPT ![new] = "check"]
        /\ status' = status /\ new \in Attempts
    BY <1>0, <1>2 DEF NextAttempt
  <2>2. new[1] = run /\ new[2] = attempt + 1
    OBVIOUS
  <2> HIDE DEF new
  <2>3. at[new] = "idle"
    BY <1>0, <2>1, <2>2 DEF IInv, LaterIsIdle
  <2>4. TypeOK'
    BY <1>0, <1>2, <2>1 DEF TypeOK, config
  <2>5. LaterIsIdle'
    <3>1. ASSUME NEW b \in Attempts, b[1] > run \/ (b[1] = run /\ b[2] > attempt + 1)
          PROVE  at'[b] = "idle"
      <4>1. at[b] = "idle" /\ b # new
        BY <1>0, <2>2, <3>1 DEF IInv, LaterIsIdle, Attempts, Runs
      <4> QED BY <2>1, <4>1
    <3> QED BY <2>1, <3>1 DEF IInv, LaterIsIdle
  <2>6. OnceEach'
    BY <1>1, <2>1, <2>3 DEF IInv, OnceEach
  <2>7. RecordsAreTrue'
    <3>1. \A b \in Attempts : at'[b] \in {"record", "answer"} => at[b] = at'[b]
      BY <2>1
    <3> QED BY <2>1, <3>1 DEF IInv, RecordsAreTrue, Produced, Key, config
  <2>8. AnswersAreTrue'
    <3>1. \A b \in Attempts : at[b] = "done" => at'[b] = "done"
      BY <2>1, <2>3
    <3>2. \A x, k : Produced(x, k) => Produced(x, k)'
      BY DEF Produced
    <3> QED BY <2>1, <3>1, <3>2, AnswersKept DEF IInv
  <2> QED BY <2>4, <2>5, <2>6, <2>7, <2>8 DEF IInv
<1>3. CASE ~(attempt < MaxAttempts)
  <2>1. /\ attempt' = attempt /\ at' = atNow
        /\ status' = [status EXCEPT ![run] = "failed"]
    BY <1>3 DEF NextAttempt
  <2>2. TypeOK'
    BY <1>0, <2>1 DEF TypeOK, config
  <2>3. LaterIsIdle'
    <3>1. \A r \in Runs : r > run => status'[r] = status[r]
      BY <1>0, <2>1 DEF TypeOK, Runs
    <3>2. \A b \in Attempts : at[b] = "idle" => at'[b] = "idle"
      BY <2>1
    <3> QED BY <2>1, <3>1, <3>2 DEF IInv, LaterIsIdle
  <2>4. OnceEach'
    BY <1>1, <2>1 DEF IInv, OnceEach
  <2>5. RecordsAreTrue'
    <3>1. \A b \in Attempts : at'[b] \in {"record", "answer"} => at[b] = at'[b]
      BY <2>1
    <3>2. \A r \in Runs : status'[r] = "completed" => status[r] = "completed"
      BY <1>0, <2>1 DEF TypeOK
    <3> QED BY <2>1, <3>1, <3>2 DEF IInv, RecordsAreTrue, Produced, Key, config
  <2>6. AnswersAreTrue'
    <3>1. \A b \in Attempts : at[b] = "done" => at'[b] = "done"
      BY <2>1
    <3>2. \A r \in Runs : status'[r] = "completed" => status[r] = "completed"
      BY <1>0, <2>1 DEF TypeOK
    <3>3. \A x, k : Produced(x, k) => Produced(x, k)'
      BY DEF Produced
    <3> QED BY <3>1, <3>2, <3>3, AnswersKept DEF IInv
  <2> QED BY <2>2, <2>3, <2>4, <2>5, <2>6 DEF IInv
<1> QED BY <1>2, <1>3

\* An error comes from an attempt that has not executed.
LEMMA ErrorArrivesKeepsIInv ==
  ASSUME IInv, NEW a \in Attempts, ErrorArrives(a)
  PROVE  IInv'
<1>0. TypeOK /\ at[a] = "fail"
  BY DEF IInv, ErrorArrives
<1>1. CASE IsCurrent(a) /\ NextAttempt([at EXCEPT ![a] = "done"])
  <2> DEFINE atNow == [at EXCEPT ![a] = "done"]
  <2>1. /\ atNow \in [Attempts -> Places]
        /\ \A b \in Attempts : atNow[b] = at[b] \/ (at[b] = "fail" /\ atNow[b] = "done")
    BY <1>0 DEF TypeOK, Places
  <2>2. /\ NextAttempt(atNow) /\ status[run] = "open" /\ faults' \in 0 .. MaxFaults
        /\ UNCHANGED <<config, entries, run, answer, value, executions>>
    BY <1>0, <1>1 DEF ErrorArrives, IsCurrent, TypeOK
  <2> HIDE DEF atNow
  <2> QED BY <2>1, <2>2, NextAttemptKeepsIInv
<1>2. CASE /\ at' = [at EXCEPT ![a] = "done"] /\ attempt' = attempt
           /\ status' = IF IsCurrent(a) THEN [status EXCEPT ![run] = "failed"] ELSE status
  <2>1. UNCHANGED <<config, entries, run, answer, value, executions, faults>>
    BY DEF ErrorArrives
  <2>2. CASE ~IsCurrent(a)
    BY <1>0, <1>2, <2>1, <2>2, MoveKeepsIInv DEF Places, TypeOK
  <2>3. CASE IsCurrent(a)
    <3>1. run \in Runs /\ status' = [status EXCEPT ![run] = "failed"]
      BY <1>0, <1>2, <2>3 DEF TypeOK
    <3>2. TypeOK'
      BY <1>0, <1>2, <2>1, <3>1 DEF TypeOK, config
    <3>3. LaterIsIdle' /\ OnceEach'
      BY <1>0, <1>2, <2>1, <3>1 DEF IInv, TypeOK, LaterIsIdle, OnceEach, Runs
    <3>4. RecordsAreTrue'
      BY <1>0, <1>2, <2>1, <3>1 DEF IInv, TypeOK, RecordsAreTrue, Produced, Key, config
    <3>5. AnswersAreTrue'
      <4>1. \A b \in Attempts : at[b] = "done" => at'[b] = "done"
        BY <1>0, <1>2 DEF TypeOK
      <4>2. \A r \in Runs : status'[r] = "completed" => status[r] = "completed"
        BY <1>0, <3>1 DEF TypeOK
      <4>3. \A x, k : Produced(x, k) => Produced(x, k)'
        BY <2>1 DEF Produced
      <4> QED BY <2>1, <4>1, <4>2, <4>3, AnswersKept DEF IInv
    <3> QED BY <3>2, <3>3, <3>4, <3>5 DEF IInv
  <2> QED BY <2>2, <2>3
<1> QED BY <1>1, <1>2 DEF ErrorArrives

\* A step that only takes entries away, or makes them unreadable.
LEMMA StoreLosesKeepsIInv ==
  ASSUME IInv, NEW S \in SUBSET Keys, NEW x \in {Nothing, Corrupt},
         entries' = [k \in Keys |-> IF k \in S THEN x ELSE entries[k]],
         x = Corrupt => hasResult,
         UNCHANGED <<config, run, attempt, status, answer, at, value, executions>>,
         faults' \in 0 .. MaxFaults
  PROVE  IInv'
<1>1. TypeOK'
  BY DEF IInv, TypeOK, config
<1>2. LaterIsIdle' /\ OnceEach'
  BY DEF IInv, LaterIsIdle, OnceEach
<1>3. RecordsAreTrue'
  BY DEF IInv, TypeOK, RecordsAreTrue, Produced, Key, config, Nothing, Corrupt
<1>4. AnswersAreTrue'
  <2>1. \A e, k : Produced(e, k) => Produced(e, k)'
    BY DEF Produced
  <2> QED BY <2>1, AnswersKept DEF IInv
<1> QED BY <1>1, <1>2, <1>3, <1>4 DEF IInv

\* A crash loses attempts and records and invents none.
LEMMA WorkerCrashesKeepsIInv ==
  ASSUME IInv, NEW a \in Attempts, WorkerCrashes(a)
  PROVE  IInv'
<1>0. TypeOK /\ at[a] \in {"check", "execute", "record"} /\ faults' \in 0 .. MaxFaults
  BY FaultCounts DEF IInv, WorkerCrashes, Running
<1>1. CASE store = "memory"
  <2>1. /\ at' = [b \in Attempts |-> IF at[b] = "idle" THEN "idle" ELSE "done"]
        /\ entries' = [k \in Keys |-> Nothing]
        /\ UNCHANGED <<config, run, attempt, status, answer, value, executions>>
    BY <1>1 DEF WorkerCrashes
  <2>2. TypeOK'
    BY <1>0, <2>1 DEF TypeOK, config
  <2>3. LaterIsIdle'
    BY <1>0, <2>1 DEF IInv, LaterIsIdle
  <2>4. OnceEach'
    <3>1. \A n \in 1 .. Len(executions) : executions[n].by \in Attempts
      BY <1>0, ByAttempts DEF TypeOK
    <3> QED BY <2>1, <3>1 DEF IInv, OnceEach
  <2>5. RecordsAreTrue'
    BY <1>0, <2>1 DEF IInv, RecordsAreTrue, Produced, Key, config, Nothing, Corrupt
  <2>6. AnswersAreTrue'
    <3>1. \A b \in Attempts : at[b] = "done" => at'[b] = "done"
      BY <2>1
    <3>2. \A x, k : Produced(x, k) => Produced(x, k)'
      BY <2>1 DEF Produced
    <3> QED BY <2>1, <3>1, <3>2, AnswersKept DEF IInv
  <2> QED BY <2>2, <2>3, <2>4, <2>5, <2>6 DEF IInv
<1>2. CASE store # "memory"
  BY <1>0, <1>2, MoveKeepsIInv DEF WorkerCrashes, Places
<1> QED BY <1>1, <1>2

\* A new run starts with an attempt that was idle.
LEMMA StartRunKeepsIInv ==
  ASSUME IInv, StartRun
  PROVE  IInv'
<1> DEFINE new == <<run + 1, 1>>
<1>0. /\ TypeOK /\ run \in Nat /\ attempt \in Nat /\ run + 1 \in Runs /\ new \in Attempts
      /\ MaxAttempts \in Nat \ {0}
  <2>1. TypeOK /\ run \in Runs /\ attempt \in 1 .. MaxAttempts /\ run < MaxRuns
    BY DEF IInv, TypeOK, StartRun
  <2> QED BY <2>1, AttemptFacts, BoundsAssumption DEF Runs
<1>1. /\ run' = run + 1 /\ attempt' = 1 /\ at' = [at EXCEPT ![new] = "check"]
      /\ UNCHANGED <<config, entries, status, answer, value, executions, faults>>
  BY DEF StartRun
<1>2. new[1] = run + 1 /\ new[2] = 1
  OBVIOUS
<1> HIDE DEF new
<1>3. at[new] = "idle"
  BY <1>0, <1>2 DEF IInv, LaterIsIdle
<1>4. TypeOK'
  BY <1>0, <1>1 DEF TypeOK, config
<1>5. LaterIsIdle'
  <2>1. ASSUME NEW b \in Attempts, b[1] > run + 1 \/ (b[1] = run + 1 /\ b[2] > 1)
        PROVE  at'[b] = "idle"
    <3>1. at[b] = "idle" /\ b # new
      BY <1>0, <1>2, <2>1 DEF IInv, LaterIsIdle, Attempts, Runs
    <3> QED BY <1>0, <1>1, <3>1 DEF TypeOK
  <2>2. \A r \in Runs : r > run + 1 => status[r] = "open"
    BY <1>0 DEF IInv, LaterIsIdle, Runs
  <2> QED BY <1>1, <2>1, <2>2 DEF LaterIsIdle
<1>6. OnceEach'
  BY <1>0, <1>1, <1>3 DEF IInv, OnceEach, TypeOK
<1>7. RecordsAreTrue'
  BY <1>0, <1>1, <1>3 DEF IInv, RecordsAreTrue, TypeOK, Produced, Key, config
<1>8. AnswersAreTrue'
  <2>1. \A b \in Attempts : at[b] = "done" => at'[b] = "done"
    BY <1>0, <1>1, <1>3 DEF TypeOK
  <2>2. \A x, k : Produced(x, k) => Produced(x, k)'
    BY <1>1 DEF Produced
  <2> QED BY <1>1, <2>1, <2>2, AnswersKept DEF IInv
<1> QED BY <1>4, <1>5, <1>6, <1>7, <1>8 DEF IInv

\* Every step keeps it.
LEMMA NextIInv == IInv /\ [Next]_vars => IInv'
<1> SUFFICES ASSUME IInv, [Next]_vars PROVE IInv'
  OBVIOUS
<1>0. TypeOK /\ faults \in 0 .. MaxFaults
  BY DEF IInv, TypeOK
<1>1. ASSUME NEW a \in Attempts,
             CheckMisses(a) \/ CheckFails(a) \/ FnFails(a) \/ RecordFails(a) \/ AnswerLost(a)
      PROVE  IInv'
  BY <1>0, <1>1, MoveKeepsIInv, FaultCounts
  DEF CheckMisses, CheckFails, FnFails, RecordFails, AnswerLost, Places
<1>2. ASSUME NEW a \in Attempts,
             \/ CheckHits(a) \/ FnSucceeds(a) \/ Record(a) \/ AnswerArrives(a)
             \/ ErrorArrives(a) \/ WorkerCrashes(a)
      PROVE  IInv'
  BY <1>2, CheckHitsKeepsIInv, FnSucceedsKeepsIInv, RecordKeepsIInv, AnswerArrivesKeepsIInv,
     ErrorArrivesKeepsIInv, WorkerCrashesKeepsIInv
<1>3. CASE AttemptTimesOut
  <2>1. at \in [Attempts -> Places] /\ faults' \in 0 .. MaxFaults
    BY <1>0, <1>3, FaultCounts DEF AttemptTimesOut, TypeOK, Places
  <2> QED BY <1>3, <2>1, NextAttemptKeepsIInv DEF AttemptTimesOut
<1>4. ASSUME NEW k \in Keys, EntryExpires(k) \/ EntryCorrupted(k) PROVE IInv'
  <2>1. entries \in [Keys -> ExecutionIDs \cup {Nothing, Corrupt}]
    BY <1>0 DEF TypeOK
  <2>2. CASE EntryExpires(k)
    <3>1. entries' = [j \in Keys |-> IF j \in {k} THEN Nothing ELSE entries[j]]
      BY <2>1, <2>2 DEF EntryExpires
    <3>2. /\ UNCHANGED <<config, run, attempt, status, answer, at, value, executions>>
          /\ faults' \in 0 .. MaxFaults /\ {k} \in SUBSET Keys /\ Nothing # Corrupt
      BY <1>0, <2>2, FaultCounts DEF EntryExpires, Nothing, Corrupt
    <3> QED BY <3>1, <3>2, StoreLosesKeepsIInv
  <2>3. CASE EntryCorrupted(k)
    <3>1. entries' = [j \in Keys |-> IF j \in {k} THEN Corrupt ELSE entries[j]]
      BY <2>1, <2>3 DEF EntryCorrupted
    <3> QED BY <1>0, <2>3, <3>1, StoreLosesKeepsIInv, FaultCounts DEF EntryCorrupted
  <2> QED BY <1>4, <2>2, <2>3
<1>5. CASE Flush
  <2>1. entries' = [j \in Keys |-> IF j \in Keys THEN Nothing ELSE entries[j]]
    BY <1>5 DEF Flush
  <2> QED BY <1>0, <1>5, <2>1, StoreLosesKeepsIInv, FaultCounts DEF Flush, Nothing, Corrupt
<1>6. CASE StartRun
  BY <1>6, StartRunKeepsIInv
<1>7. CASE UNCHANGED vars
  BY <1>7 DEF vars, config, IInv, TypeOK, LaterIsIdle, OnceEach, RecordsAreTrue, Produced, Key,
              AnswersAreTrue, Answered
<1> QED BY <1>1, <1>2, <1>3, <1>4, <1>5, <1>6, <1>7 DEF Next

-----------------------------------------------------------------------------
(* Duplicates are paid for by faults.                                      *)

\* The store answers a check of k with a result.
Valid(k) == entries[k] \notin {Nothing, Corrupt}

\* The attempts that may still execute under k: those that are about to, and
\* those whose check may miss.  That of the current attempt cannot while there
\* is an entry; a check that was overtaken may be late.
Pending(k) ==
  {a \in Attempts :
     /\ Key(a) = k
     /\ \/ at[a] = "execute"
        \/ at[a] = "check" /\ ~(IsCurrent(a) /\ Valid(k))}

Executed(k) == {n \in 1 .. Len(executions) : executions[n].key = k}

\* The attempt the server waits for is at work under k.
AtWork(k) ==
  /\ IsCurrent(<<run, attempt>>)
  /\ Key(<<run, attempt>>) = k
  /\ Running(<<run, attempt>>)

\* One execution is free: the one that is recorded, or that the current attempt
\* may do.  Every other one has cost a fault.
Allowance(k) == faults + (IF Valid(k) \/ AtWork(k) THEN 1 ELSE 0)

Covered(k) ==
  Cardinality(Executed(k)) + Cardinality(Pending(k)) <= Allowance(k)

\* There are finitely many attempts.
LEMMA AttemptsFinite == IsFiniteSet(Attempts)
<1>1. IsFiniteSet(1 .. MaxRuns) /\ IsFiniteSet(1 .. MaxAttempts)
  BY BoundsAssumption, FS_Interval
<1> QED BY <1>1, FS_Product DEF Attempts, Runs

\* The sets that are counted are finite.
LEMMA Counts ==
  ASSUME TypeOK, NEW k
  PROVE  /\ IsFiniteSet(Pending(k)) /\ Cardinality(Pending(k)) \in Nat
         /\ Cardinality(Executed(k)) \in Nat /\ IsFiniteSet(Executed(k))
<1>1. Pending(k) \in SUBSET Attempts
  BY DEF Pending
<1>2. IsFiniteSet(Pending(k))
  BY <1>1, AttemptsFinite, FS_Subset
<1>3. Len(executions) \in Nat /\ Executed(k) \in SUBSET (1 .. Len(executions))
  BY DEF TypeOK, Executed
<1>4. IsFiniteSet(1 .. Len(executions))
  BY <1>3, FS_Interval
<1>5. IsFiniteSet(Executed(k))
  BY <1>3, <1>4, FS_Subset
<1> QED BY <1>2, <1>5, FS_CardinalityType

\* Cardinality against inclusion.
LEMMA SetBounds ==
  ASSUME NEW S, IsFiniteSet(S), NEW T, NEW x
  PROVE  /\ T \subseteq S => Cardinality(T) <= Cardinality(S)
         /\ T \subseteq S \cup {x} => Cardinality(T) <= Cardinality(S) + 1
         /\ (x \in S /\ T \subseteq S \ {x}) => Cardinality(T) <= Cardinality(S) - 1
<1>1. Cardinality(S) \in Nat
  BY FS_CardinalityType
<1>2. T \subseteq S => Cardinality(T) <= Cardinality(S)
  BY FS_Subset
<1>3. ASSUME T \subseteq S \cup {x} PROVE Cardinality(T) <= Cardinality(S) + 1
  <2>1. /\ IsFiniteSet(S \cup {x})
        /\ Cardinality(S \cup {x}) = IF x \in S THEN Cardinality(S) ELSE Cardinality(S) + 1
    BY FS_AddElement
  <2>2. Cardinality(T) <= Cardinality(S \cup {x}) /\ IsFiniteSet(T)
    BY <1>3, <2>1, FS_Subset
  <2>3. Cardinality(T) \in Nat
    BY <2>2, FS_CardinalityType
  <2> QED BY <1>1, <2>1, <2>2, <2>3
<1>4. ASSUME x \in S, T \subseteq S \ {x} PROVE Cardinality(T) <= Cardinality(S) - 1
  <2>1. IsFiniteSet(S \ {x}) /\ Cardinality(S \ {x}) = Cardinality(S) - 1
    BY <1>4, FS_RemoveElement
  <2> QED BY <1>4, <2>1, FS_Subset
<1> QED BY <1>2, <1>3, <1>4

\* What a step does to the allowance, from what it does to its two parts.
LEMMA AllowanceStep ==
  ASSUME TypeOK, TypeOK', NEW k
  PROVE  /\ faults \in Nat /\ faults' \in Nat
         /\ Allowance(k) \in Nat /\ Allowance(k)' \in Nat
         /\ faults <= Allowance(k) /\ Allowance(k) <= faults + 1
         /\ faults' <= Allowance(k)' /\ Allowance(k)' <= faults' + 1
         /\ Valid(k) \/ AtWork(k) <=> Allowance(k) = faults + 1
         /\ Valid(k)' \/ AtWork(k)' <=> Allowance(k)' = faults' + 1
<1>1. faults \in Nat /\ faults' \in Nat
  BY BoundsAssumption DEF TypeOK
<1>2. \/ (Valid(k) \/ AtWork(k)) /\ Allowance(k) = faults + 1
      \/ ~(Valid(k) \/ AtWork(k)) /\ Allowance(k) = faults
  BY <1>1 DEF Allowance
<1>3. \/ (Valid(k)' \/ AtWork(k)') /\ Allowance(k)' = faults' + 1
      \/ ~(Valid(k)' \/ AtWork(k)') /\ Allowance(k)' = faults'
  <2>1. CASE Valid(k)' \/ AtWork(k)'
    <3>1. Allowance(k)' = faults' + 1
      BY <2>1, Zenon DEF Allowance
    <3> QED BY <2>1, <3>1
  <2>2. CASE ~(Valid(k)' \/ AtWork(k)')
    <3>1. Allowance(k)' = faults' + 0
      BY <2>2, Zenon DEF Allowance
    <3>2. \A f \in Nat : f + 0 = f
      OBVIOUS
    <3>3. Allowance(k)' = faults'
      BY <1>1, <3>1, <3>2, Zenon
    <3> QED BY <2>2, <3>3, Zenon
  <2> QED BY <2>1, <2>2
<1> QED BY <1>1, <1>2, <1>3

\* A step without an execution keeps k covered if what becomes pending is
\* allowed for.
LEMMA StaysCovered ==
  ASSUME TypeOK, TypeOK', NEW k, Covered(k), executions' = executions, NEW a,
         \/ Pending(k)' \subseteq Pending(k) /\ Allowance(k)' >= Allowance(k)
         \/ Pending(k)' \subseteq Pending(k) \cup {a} /\ Allowance(k)' >= Allowance(k) + 1
         \/ /\ a \in Pending(k) /\ Pending(k)' \subseteq Pending(k) \ {a}
            /\ Allowance(k)' >= Allowance(k) - 1
  PROVE  Covered(k)'
<1>1. /\ IsFiniteSet(Pending(k)) /\ Cardinality(Pending(k)) \in Nat
      /\ Cardinality(Executed(k)) \in Nat
  BY Counts
<1>2. Executed(k)' = Executed(k)
  BY DEF Executed
<1>3. Cardinality(Pending(k)') \in Nat
  <2>1. Pending(k)' \in SUBSET Attempts
    BY DEF Pending
  <2> QED BY <2>1, AttemptsFinite, FS_Subset, FS_CardinalityType
<1>4. Allowance(k) \in Nat /\ Allowance(k)' \in Nat
  BY AllowanceStep
<1>5. /\ Pending(k)' \subseteq Pending(k) => Cardinality(Pending(k)') <= Cardinality(Pending(k))
      /\ Pending(k)' \subseteq Pending(k) \cup {a} =>
           Cardinality(Pending(k)') <= Cardinality(Pending(k)) + 1
      /\ (a \in Pending(k) /\ Pending(k)' \subseteq Pending(k) \ {a}) =>
           Cardinality(Pending(k)') <= Cardinality(Pending(k)) - 1
  BY <1>1, SetBounds
<1>6. Cardinality(Pending(k))' = Cardinality(Pending(k)')
  OBVIOUS
<1> QED BY <1>1, <1>2, <1>3, <1>4, <1>5, <1>6 DEF Covered

\* A step of attempt a that is not an execution: it costs a fault, or it does
\* not bring an execution nearer.
LEMMA MoveKeepsCovered ==
  ASSUME IInv, IInv', NEW k \in Keys, Covered(k), NEW a \in Attempts, NEW p \in Places,
         at' = [at EXCEPT ![a] = p],
         UNCHANGED <<config, entries, run, attempt, status, executions>>,
         faults' \in {faults, faults + 1},
         \/ at[a] = "check" /\ p = "execute" /\ (Valid(Key(a)) => faults' = faults + 1)
         \/ at[a] = "check" /\ p = "answer" /\ Valid(Key(a))
         \/ at[a] = "execute" /\ p = "fail"
         \/ at[a] \in {"answer", "fail"} /\ p = "done"
         \/ Running(a) /\ p \in {"answer", "done"} /\ faults' = faults + 1
  PROVE  Covered(k)'
<1>0. TypeOK /\ TypeOK' /\ faults \in Nat /\ faults' \in Nat /\ faults' >= faults
  <2>1. TypeOK /\ TypeOK'
    BY DEF IInv
  <2>2. faults \in Nat
    BY <2>1, BoundsAssumption DEF TypeOK
  <2> QED BY <2>1, <2>2
<1>1. /\ \A b : Key(b)' = Key(b)
      /\ Valid(k)' = Valid(k)
      /\ \A b : IsCurrent(b)' = IsCurrent(b)
  BY DEF Key, Valid, IsCurrent, config
<1>2. \A b \in Attempts : b # a => at'[b] = at[b]
  BY <1>0 DEF TypeOK
<1>3. at'[a] = p
  BY <1>0 DEF TypeOK
<1>4. <<run, attempt>> \in Attempts /\ run' = run /\ attempt' = attempt
  BY <1>0, AttemptFacts DEF TypeOK
<1>5. /\ faults <= Allowance(k) /\ Allowance(k) <= faults + 1
      /\ faults' <= Allowance(k)' /\ Allowance(k)' <= faults' + 1
      /\ Valid(k) \/ AtWork(k) <=> Allowance(k) = faults + 1
      /\ Valid(k)' \/ AtWork(k)' <=> Allowance(k)' = faults' + 1
      /\ Allowance(k) \in Nat /\ Allowance(k)' \in Nat
  BY <1>0, AllowanceStep
<1>6. CASE Key(a) # k
  <2>1. Pending(k)' = Pending(k)
    BY <1>1, <1>2, <1>6 DEF Pending
  <2>2. AtWork(k)' = AtWork(k)
    BY <1>1, <1>2, <1>4, <1>6 DEF AtWork, Running
  <2>3. Allowance(k)' >= Allowance(k)
    BY <1>0, <1>5, <1>1, <2>2
  <2> QED BY <1>0, <2>1, <2>3, StaysCovered
<1>7. CASE Key(a) = k
  <2>1. AtWork(k)' = AtWork(k) \/ (a = <<run, attempt>> /\ AtWork(k) /\ ~AtWork(k)')
        \/ (a = <<run, attempt>> /\ ~Running(a))
    BY <1>1, <1>2, <1>3, <1>4 DEF AtWork, Running
  <2>2. CASE at[a] = "check" /\ p = "execute" /\ (Valid(Key(a)) => faults' = faults + 1)
    <3>1. AtWork(k)' = AtWork(k)
      BY <1>1, <1>2, <1>3, <1>4, <2>2 DEF AtWork, Running
    <3>2. CASE Valid(k)
      <4>1. Pending(k)' \subseteq Pending(k) \cup {a}
        BY <1>1, <1>2 DEF Pending
      <4>2. Allowance(k)' >= Allowance(k) + 1
        BY <1>0, <1>5, <1>1, <1>7, <2>2, <3>2
      <4> QED BY <1>0, <4>1, <4>2, StaysCovered
    <3>3. CASE ~Valid(k)
      <4>1. Pending(k)' \subseteq Pending(k)
        BY <1>1, <1>2, <1>7, <2>2, <3>3 DEF Pending
      <4>2. Allowance(k)' >= Allowance(k)
        BY <1>0, <1>5, <1>1, <3>1
      <4> QED BY <1>0, <4>1, <4>2, StaysCovered
    <3> QED BY <3>2, <3>3
  <2>3. CASE at[a] = "check" /\ p = "answer" /\ Valid(Key(a))
    <3>1. Pending(k)' \subseteq Pending(k)
      BY <1>1, <1>2, <1>3, <2>3 DEF Pending
    <3>2. Allowance(k)' >= Allowance(k)
      BY <1>0, <1>5, <1>1, <1>7, <2>3
    <3> QED BY <1>0, <3>1, <3>2, StaysCovered
  <2>4. CASE at[a] = "execute" /\ p = "fail"
    <3>1. a \in Pending(k) /\ Pending(k)' \subseteq Pending(k) \ {a}
      BY <1>1, <1>2, <1>3, <1>7, <2>4 DEF Pending
    <3>2. Allowance(k)' >= Allowance(k) - 1
      BY <1>0, <1>5, <1>1
    <3> QED BY <1>0, <3>1, <3>2, StaysCovered
  <2>5. CASE at[a] \in {"answer", "fail"} /\ p = "done"
    <3>1. Pending(k)' \subseteq Pending(k)
      BY <1>1, <1>2, <1>3, <2>5 DEF Pending
    <3>2. AtWork(k)' = AtWork(k)
      BY <1>1, <1>2, <1>3, <1>4, <2>5 DEF AtWork, Running
    <3>3. Allowance(k)' >= Allowance(k)
      BY <1>0, <1>5, <1>1, <3>2
    <3> QED BY <1>0, <3>1, <3>3, StaysCovered
  <2>6. CASE Running(a) /\ p \in {"answer", "done"} /\ faults' = faults + 1
    <3>1. Pending(k)' \subseteq Pending(k)
      BY <1>1, <1>2, <1>3, <2>6 DEF Pending
    <3>2. Allowance(k)' >= Allowance(k)
      BY <1>0, <1>5, <2>6
    <3> QED BY <1>0, <3>1, <3>2, StaysCovered
  <2> QED BY <2>2, <2>3, <2>4, <2>5, <2>6
<1> QED BY <1>6, <1>7

\* The execution that was pending has happened.
LEMMA FnSucceedsKeepsCovered ==
  ASSUME IInv, IInv', NEW k \in Keys, Covered(k), NEW a \in Attempts, FnSucceeds(a)
  PROVE  Covered(k)'
<1>0. TypeOK /\ TypeOK' /\ faults \in Nat /\ Len(executions) \in Nat
  BY BoundsAssumption DEF IInv, TypeOK
<1>1. /\ at[a] = "execute" /\ at' = [at EXCEPT ![a] = "record"]
      /\ executions' = Append(executions, [by |-> a, key |-> Key(a)])
      /\ UNCHANGED <<config, entries, run, attempt, status, faults>>
  BY DEF FnSucceeds
<1>2. /\ \A b : Key(b)' = Key(b)
      /\ Valid(k)' = Valid(k)
      /\ \A b : IsCurrent(b)' = IsCurrent(b)
  BY <1>1 DEF Key, Valid, IsCurrent, config
<1>3. (\A b \in Attempts : b # a => at'[b] = at[b]) /\ at'[a] = "record"
  BY <1>0, <1>1 DEF TypeOK
<1>4. <<run, attempt>> \in Attempts
  BY <1>0, AttemptFacts DEF TypeOK
<1>5. Allowance(k)' = Allowance(k)
  <2>1. AtWork(k)' = AtWork(k)
    BY <1>1, <1>2, <1>3, <1>4 DEF AtWork, Running
  <2> QED BY <1>1, <1>2, <2>1 DEF Allowance
<1>6. /\ IsFiniteSet(Pending(k)) /\ Cardinality(Pending(k)) \in Nat
      /\ Cardinality(Executed(k)) \in Nat /\ IsFiniteSet(Executed(k))
  BY <1>0, Counts
<1>7. /\ Len(executions') = Len(executions) + 1
      /\ executions'[Len(executions) + 1] = [by |-> a, key |-> Key(a)]
      /\ \A n \in 1 .. Len(executions) : executions'[n] = executions[n]
  BY <1>0, <1>1 DEF TypeOK
<1>8. Cardinality(Pending(k)') \in Nat /\ Cardinality(Executed(k)') \in Nat
  <2>1. Pending(k)' \in SUBSET Attempts
    BY DEF Pending
  <2>2. /\ Executed(k)' \in SUBSET (1 .. Len(executions) + 1)
        /\ IsFiniteSet(1 .. Len(executions) + 1)
    BY <1>0, <1>7, FS_Interval DEF Executed
  <2> QED BY <2>1, <2>2, AttemptsFinite, FS_Subset, FS_CardinalityType
<1>9. CASE Key(a) = k
  <2>1. a \in Pending(k) /\ Pending(k)' \subseteq Pending(k) \ {a}
    BY <1>1, <1>2, <1>3, <1>9 DEF Pending
  <2>2. Executed(k)' \subseteq Executed(k) \cup {Len(executions) + 1}
    BY <1>0, <1>7 DEF Executed
  <2>3. Cardinality(Pending(k)') <= Cardinality(Pending(k)) - 1
    BY <1>6, <2>1, SetBounds
  <2>4. Cardinality(Executed(k)') <= Cardinality(Executed(k)) + 1
    BY <1>6, <2>2, SetBounds
  <2>5. Cardinality(Executed(k)') + Cardinality(Pending(k)') <=
          Cardinality(Executed(k)) + Cardinality(Pending(k))
    BY <1>6, <1>8, <2>3, <2>4
  <2>6. Allowance(k) \in Nat
    BY <1>0 DEF Allowance
  <2> QED BY <1>5, <1>6, <1>8, <2>5, <2>6 DEF Covered
<1>10. CASE Key(a) # k
  <2>1. Pending(k)' = Pending(k)
    BY <1>2, <1>3, <1>10 DEF Pending
  <2>2. Executed(k)' = Executed(k)
    <3>1. \A n \in 1 .. Len(executions') : n \in 1 .. Len(executions) \/ n = Len(executions) + 1
      BY <1>0, <1>7
    <3>2. 1 .. Len(executions) \subseteq 1 .. Len(executions')
      BY <1>0, <1>7
    <3>3. executions'[Len(executions) + 1].key # k
      BY <1>7, <1>10
    <3> QED BY <1>7, <3>1, <3>2, <3>3 DEF Executed
  <2> QED BY <1>5, <2>1, <2>2 DEF Covered
<1> QED BY <1>9, <1>10

\* From now on the store has it: the current attempt's check finds it.
LEMMA RecordKeepsCovered ==
  ASSUME IInv, IInv', NEW k \in Keys, Covered(k), NEW a \in Attempts, Record(a)
  PROVE  Covered(k)'
<1>0. TypeOK /\ TypeOK' /\ faults \in Nat /\ Key(a) \in Keys
  BY BoundsAssumption, KeyType DEF IInv, TypeOK
<1>1. /\ at[a] = "record" /\ at' = [at EXCEPT ![a] = "answer"]
      /\ entries' = [entries EXCEPT ![Key(a)] = value[a]]
      /\ UNCHANGED <<config, run, attempt, status, executions, faults>>
  BY DEF Record
<1>2. /\ \A b : Key(b)' = Key(b)
      /\ \A b : IsCurrent(b)' = IsCurrent(b)
  BY <1>1 DEF Key, IsCurrent, config
<1>3. (\A b \in Attempts : b # a => at'[b] = at[b]) /\ at'[a] = "answer"
  BY <1>0, <1>1 DEF TypeOK
<1>4. <<run, attempt>> \in Attempts
  BY <1>0, AttemptFacts DEF TypeOK
<1>5. CASE Key(a) # k
  <2>1. Valid(k)' = Valid(k)
    BY <1>0, <1>1, <1>5 DEF Valid, TypeOK
  <2>2. AtWork(k)' = AtWork(k)
    BY <1>1, <1>2, <1>3, <1>4, <1>5 DEF AtWork, Running
  <2>3. Pending(k)' \subseteq Pending(k)
    BY <1>2, <1>3, <1>5, <2>1 DEF Pending
  <2>4. Allowance(k)' >= Allowance(k)
    BY <1>0, <1>1, <2>1, <2>2 DEF Allowance
  <2> QED BY <1>0, <1>1, <2>3, <2>4, StaysCovered
<1>6. CASE Key(a) = k
  <2>1. value[a] \in Nat /\ value[a] # 0
    BY <1>0, <1>1 DEF IInv, RecordsAreTrue, Produced, TypeOK
  <2>2. Valid(k)'
    BY <1>0, <1>1, <1>6, <2>1 DEF Valid, TypeOK, Nothing, Corrupt
  <2>3. Pending(k)' \subseteq Pending(k)
    BY <1>2, <1>3, <2>2 DEF Pending
  <2>4. Allowance(k)' >= Allowance(k)
    BY <1>0, <1>1, <2>2 DEF Allowance
  <2> QED BY <1>0, <1>1, <2>3, <2>4, StaysCovered
<1> QED BY <1>5, <1>6

\* The run closes with an answer, or with an error of the current attempt.
LEMMA ClosingKeepsCovered ==
  ASSUME IInv, IInv', NEW k \in Keys, Covered(k), NEW a \in Attempts, IsCurrent(a),
         at[a] \in {"answer", "fail"}, at' = [at EXCEPT ![a] = "done"],
         NEW s \in {"completed", "failed"}, status' = [status EXCEPT ![run] = s],
         UNCHANGED <<config, entries, run, attempt, executions, faults>>
  PROVE  Covered(k)'
<1>0. TypeOK /\ TypeOK' /\ faults \in Nat /\ a = <<run, attempt>>
  BY BoundsAssumption DEF IInv, TypeOK, IsCurrent
<1>1. /\ \A b : Key(b)' = Key(b)
      /\ Valid(k)' = Valid(k)
      /\ \A b : IsCurrent(b)' => IsCurrent(b)
      /\ \A b : b # a => ~IsCurrent(b)
  BY <1>0 DEF Key, Valid, IsCurrent, config, TypeOK
<1>2. (\A b \in Attempts : b # a => at'[b] = at[b]) /\ at'[a] = "done"
  BY <1>0 DEF TypeOK
<1>3. Pending(k)' \subseteq Pending(k)
  BY <1>1, <1>2 DEF Pending
<1>4. ~AtWork(k)
  BY <1>0 DEF AtWork, Running
<1>5. Allowance(k)' >= Allowance(k)
  BY <1>0, <1>1, <1>4 DEF Allowance
<1> QED BY <1>0, <1>3, <1>5, StaysCovered

\* The server goes on to the next attempt, or gives up: an overlap costs a
\* fault, and without one the attempt that is left behind has nothing to do.
LEMMA NextAttemptKeepsCovered ==
  ASSUME IInv, IInv', NEW k \in Keys, Covered(k), NEW atNow \in [Attempts -> Places],
         NextAttempt(atNow), status[run] = "open",
         \A b \in Attempts : atNow[b] = at[b] \/ (at[b] = "fail" /\ atNow[b] = "done"),
         UNCHANGED <<config, entries, run, executions>>,
         faults' = IF Running(<<run, attempt>>) THEN faults + 1 ELSE faults
  PROVE  Covered(k)'
<1> DEFINE cur == <<run, attempt>>
<1>0. /\ TypeOK /\ TypeOK' /\ faults \in Nat /\ cur \in Attempts /\ attempt \in Nat
      /\ IsCurrent(cur) /\ \A b : b # cur => ~IsCurrent(b)
  BY AttemptFacts, BoundsAssumption DEF IInv, TypeOK, IsCurrent
<1>1. /\ \A b : Key(b)' = Key(b)
      /\ Valid(k)' = Valid(k)
  BY DEF Key, Valid, config
<1>2. AtWork(k) => Running(cur) /\ Key(cur) = k
  BY DEF AtWork
<1>3. CASE attempt < MaxAttempts
  <2>0. PICK new \in Attempts : new = <<run, attempt + 1>>
    BY <1>0, <1>3, AttemptFacts DEF TypeOK
  <2>1. /\ attempt' = attempt + 1 /\ at' = [atNow EXCEPT ![new] = "check"]
        /\ status' = status
    BY <1>3, <2>0 DEF NextAttempt
  <2>2. cur # new /\ <<run', attempt'>> = new
    BY <1>0, <2>0, <2>1
  <2>3. IsCurrent(new)' /\ \A b : b # new => ~IsCurrent(b)'
    <3>1. \A b : IsCurrent(b)' <=> b = <<run', attempt'>> /\ status'[run'] = "open"
      BY DEF IsCurrent
    <3>2. status'[run'] = "open"
      BY <2>1
    <3> QED BY <2>2, <3>1, <3>2
  <2> HIDE DEF cur
  <2>4. at'[new] = "check" /\ \A b \in Attempts : b # new => at'[b] = atNow[b]
    BY <1>0, <1>3, <2>1
  <2>5. CASE Valid(k)
    <3>1. CASE at[cur] = "check"
      <4>1. Pending(k)' \subseteq Pending(k) \cup {cur}
        BY <1>0, <1>1, <2>3, <2>4, <2>5 DEF Pending
      <4>2. faults' = faults + 1
        BY <3>1 DEF Running, cur
      <4>3. Allowance(k)' >= Allowance(k) + 1
        BY <1>0, <1>1, <2>5, <4>2 DEF Allowance
      <4> QED BY <1>0, <4>1, <4>3, StaysCovered
    <3>2. CASE at[cur] # "check"
      <4>1. Pending(k)' \subseteq Pending(k)
        BY <1>0, <1>1, <2>3, <2>4, <2>5, <3>2 DEF Pending
      <4>2. Allowance(k)' >= Allowance(k)
        BY <1>0, <1>1, <2>5 DEF Allowance
      <4> QED BY <1>0, <4>1, <4>2, StaysCovered
    <3> QED BY <3>1, <3>2
  <2>6. CASE ~Valid(k) /\ Key(new) = k
    <3>1. Pending(k)' \subseteq Pending(k) \cup {new}
      BY <1>0, <1>1, <2>3, <2>4, <2>6 DEF Pending
    <3>2. AtWork(k)'
      BY <1>1, <2>2, <2>3, <2>4, <2>6 DEF AtWork, Running
    <3>3. Allowance(k)' >= Allowance(k) + 1
      BY <1>0, <1>1, <1>2, <2>6, <3>2 DEF Allowance, cur
    <3> QED BY <1>0, <3>1, <3>3, StaysCovered
  <2>7. CASE ~Valid(k) /\ Key(new) # k
    <3>1. Pending(k)' \subseteq Pending(k)
      BY <1>0, <1>1, <2>3, <2>4, <2>7 DEF Pending
    <3>2. Allowance(k)' >= Allowance(k)
      BY <1>0, <1>1, <1>2, <2>7 DEF Allowance, cur
    <3> QED BY <1>0, <3>1, <3>2, StaysCovered
  <2> QED BY <2>5, <2>6, <2>7
<1>4. CASE ~(attempt < MaxAttempts)
  <2>1. /\ attempt' = attempt /\ at' = atNow
        /\ status' = [status EXCEPT ![run] = "failed"]
    BY <1>4 DEF NextAttempt
  <2>2. \A b : ~IsCurrent(b)'
    BY <1>0, <2>1 DEF IsCurrent, TypeOK
  <2> HIDE DEF cur
  <2>3. CASE Valid(k) /\ at[cur] = "check"
    <3>1. Pending(k)' \subseteq Pending(k) \cup {cur}
      BY <1>0, <1>1, <2>1, <2>2 DEF Pending
    <3>2. faults' = faults + 1
      BY <2>3 DEF Running, cur
    <3>3. Allowance(k)' >= Allowance(k) + 1
      BY <1>0, <1>1, <2>3, <3>2 DEF Allowance
    <3> QED BY <1>0, <3>1, <3>3, StaysCovered
  <2>4. CASE ~(Valid(k) /\ at[cur] = "check")
    <3>1. Pending(k)' \subseteq Pending(k)
      BY <1>0, <1>1, <2>1, <2>2, <2>4 DEF Pending
    <3>2. Allowance(k)' >= Allowance(k)
      BY <1>0, <1>1, <1>2 DEF Allowance, cur
    <3> QED BY <1>0, <3>1, <3>2, StaysCovered
  <2> QED BY <2>3, <2>4
<1> QED BY <1>3, <1>4

\* What the store loses has cost a fault.
LEMMA StoreLosesKeepsCovered ==
  ASSUME IInv, IInv', NEW k \in Keys, Covered(k),
         UNCHANGED <<config, run, attempt, status, at, executions>>,
         faults' = faults + 1,
         Valid(k)' => Valid(k)
  PROVE  Covered(k)'
<1> DEFINE cur == <<run, attempt>>
<1>0. TypeOK /\ TypeOK' /\ faults \in Nat /\ cur \in Attempts
  BY AttemptFacts, BoundsAssumption DEF IInv, TypeOK
<1>1. /\ \A b : Key(b)' = Key(b)
      /\ \A b : IsCurrent(b)' = IsCurrent(b)
      /\ \A b : IsCurrent(b) => b = cur
  BY DEF Key, IsCurrent, config
<1>2. AtWork(k)' = AtWork(k)
  BY <1>1 DEF AtWork, Running
<1>3. CASE IsCurrent(cur) /\ Key(cur) = k /\ at[cur] = "check"
  <2>1. AtWork(k)
    BY <1>3 DEF AtWork, Running
  <2>2. Pending(k)' \subseteq Pending(k) \cup {cur}
    BY <1>1 DEF Pending
  <2>3. Allowance(k)' >= Allowance(k) + 1
    BY <1>0, <1>2, <2>1 DEF Allowance
  <2> QED BY <1>0, <2>2, <2>3, StaysCovered
<1>4. CASE ~(IsCurrent(cur) /\ Key(cur) = k /\ at[cur] = "check")
  <2> HIDE DEF cur
  <2>1. Pending(k)' \subseteq Pending(k)
    BY <1>1, <1>4 DEF Pending
  <2>2. Allowance(k)' >= Allowance(k)
    BY <1>0 DEF Allowance
  <2> QED BY <1>0, <2>1, <2>2, StaysCovered
<1> QED BY <1>3, <1>4

\* A crash costs a fault, and leaves no more attempts to execute than before.
LEMMA WorkerCrashesKeepsCovered ==
  ASSUME IInv, IInv', NEW k \in Keys, Covered(k), NEW a \in Attempts, WorkerCrashes(a)
  PROVE  Covered(k)'
<1>0. TypeOK /\ TypeOK' /\ faults \in Nat /\ faults' = faults + 1
  BY BoundsAssumption, FaultCounts DEF IInv, TypeOK, WorkerCrashes
<1>1. CASE store = "memory"
  <2>1. \A b \in Attempts : at'[b] \in {"idle", "done"}
    BY <1>1 DEF WorkerCrashes
  <2>2. Pending(k)' \subseteq Pending(k)
    BY <2>1 DEF Pending
  <2>3. Allowance(k)' >= Allowance(k) /\ executions' = executions
    BY <1>0 DEF Allowance, WorkerCrashes
  <2> QED BY <1>0, <2>2, <2>3, StaysCovered
<1>2. CASE store # "memory"
  <2>1. /\ at' = [at EXCEPT ![a] = "done"] /\ Running(a)
        /\ UNCHANGED <<config, entries, run, attempt, status, executions>>
    BY <1>2 DEF WorkerCrashes
  <2> QED BY <1>0, <2>1, MoveKeepsCovered DEF Places
<1> QED BY <1>1, <1>2

\* A new run begins when no attempt is current any more.
LEMMA StartRunKeepsCovered ==
  ASSUME IInv, IInv', NEW k \in Keys, Covered(k), StartRun
  PROVE  Covered(k)'
<1>0. TypeOK /\ TypeOK' /\ faults \in Nat /\ run + 1 \in Runs /\ run \in Nat
  <2>1. /\ TypeOK /\ TypeOK' /\ run \in Runs /\ attempt \in 1 .. MaxAttempts
        /\ run < MaxRuns /\ faults \in 0 .. MaxFaults
    BY DEF IInv, TypeOK, StartRun
  <2> QED BY <2>1, AttemptFacts, BoundsAssumption DEF Runs
<1> PICK new \in Attempts : new = <<run + 1, 1>>
  BY <1>0, AttemptFacts DEF TypeOK, StartRun
<1>1. /\ run' = run + 1 /\ attempt' = 1 /\ at' = [at EXCEPT ![new] = "check"]
      /\ UNCHANGED <<config, entries, status, executions, faults>>
      /\ status[run] # "open"
  BY DEF StartRun
<1>2. /\ \A b : Key(b)' = Key(b)
      /\ Valid(k)' = Valid(k)
      /\ \A b : ~IsCurrent(b)
  BY <1>1 DEF Key, Valid, IsCurrent, config
<1>3. status[run + 1] = "open"
  BY <1>0 DEF IInv, LaterIsIdle
<1>4. <<run', attempt'>> = new /\ IsCurrent(new)' /\ \A b : b # new => ~IsCurrent(b)'
  <2>1. \A b : IsCurrent(b)' <=> b = <<run', attempt'>> /\ status'[run'] = "open"
    BY DEF IsCurrent
  <2>2. status'[run'] = "open" /\ <<run', attempt'>> = new
    BY <1>1, <1>3
  <2> QED BY <2>1, <2>2
<1>5. at'[new] = "check" /\ \A b \in Attempts : b # new => at'[b] = at[b]
  BY <1>0, <1>1 DEF TypeOK
<1>6. ~AtWork(k)
  BY <1>2 DEF AtWork
<1>7. CASE ~Valid(k) /\ Key(new) = k
  <2>1. Pending(k)' \subseteq Pending(k) \cup {new}
    BY <1>2, <1>4, <1>5 DEF Pending
  <2>2. AtWork(k)'
    BY <1>2, <1>4, <1>5, <1>7 DEF AtWork, Running
  <2>3. Allowance(k)' >= Allowance(k) + 1
    BY <1>0, <1>1, <1>2, <1>6, <1>7, <2>2 DEF Allowance
  <2> QED BY <1>0, <1>1, <2>1, <2>3, StaysCovered
<1>8. CASE Valid(k) \/ Key(new) # k
  <2>1. Pending(k)' \subseteq Pending(k)
    BY <1>2, <1>4, <1>5, <1>8 DEF Pending
  <2>2. Allowance(k)' >= Allowance(k)
    BY <1>0, <1>1, <1>2, <1>6 DEF Allowance
  <2> QED BY <1>0, <1>1, <2>1, <2>2, StaysCovered
<1> QED BY <1>7, <1>8


DInv == \A k \in Keys : Covered(k)

\* One attempt is at work and nothing has been executed.
LEMMA InitDInv == Init => DInv
<1> SUFFICES ASSUME Init, NEW k \in Keys PROVE Covered(k)
  BY DEF DInv
<1> DEFINE first == <<1, 1>>
<1>0. IInv
  BY InitIInv
<1>1. TypeOK
  BY <1>0 DEF IInv
<1>2. first \in Attempts /\ <<run, attempt>> = first /\ status[run] = "open"
  BY <1>1, AttemptFacts DEF Init, TypeOK
<1>3. \A a \in Attempts : at[a] = IF a = first THEN "check" ELSE "idle"
  BY DEF Init
<1>4. /\ faults = 0 /\ Executed(k) = {}
  BY DEF Init, Executed
<1>5. Cardinality(Executed(k)) = 0
  BY <1>4, FS_EmptySet
<1> HIDE DEF first
<1>6. /\ IsFiniteSet(Pending(k)) /\ Cardinality(Pending(k)) \in Nat
  BY <1>1, Counts
<1>7. CASE Key(first) = k
  <2>1. IsCurrent(first) /\ AtWork(k)
    BY <1>2, <1>3, <1>7 DEF IsCurrent, AtWork, Running
  <2>2. Pending(k) \subseteq {} \cup {first}
    BY <1>3 DEF Pending
  <2>3. Cardinality(Pending(k)) <= 0 + 1
    <3>1. IsFiniteSet({}) /\ Cardinality({}) = 0
      BY FS_EmptySet
    <3> QED BY <2>2, <3>1, SetBounds
  <2>4. Allowance(k) = 1
    BY <1>4, <2>1 DEF Allowance
  <2> QED BY <1>5, <1>6, <2>3, <2>4 DEF Covered
<1>8. CASE Key(first) # k
  <2>1. Pending(k) = {}
    BY <1>3, <1>8 DEF Pending
  <2>2. Cardinality(Pending(k)) = 0
    BY <2>1, FS_EmptySet
  <2>3. Allowance(k) \in Nat
    BY <1>4 DEF Allowance
  <2> QED BY <1>5, <2>2, <2>3 DEF Covered
<1> QED BY <1>7, <1>8

\* Every step keeps every key covered.
LEMMA NextDInv == IInv /\ IInv' /\ DInv /\ [Next]_vars => DInv'
<1> SUFFICES ASSUME IInv, IInv', DInv, [Next]_vars, NEW k \in Keys PROVE Covered(k)'
  BY DEF DInv, Keys
<1>0. /\ Covered(k) /\ TypeOK /\ faults \in Nat
      /\ faults' \in {faults, faults + 1} => faults' = faults \/ faults' = faults + 1
  BY BoundsAssumption DEF DInv, IInv, TypeOK
<1>1. ASSUME NEW a \in Attempts, CheckMisses(a) PROVE Covered(k)'
  <2>1. ~Valid(Key(a))
    BY <1>1 DEF CheckMisses, Valid
  <2> QED BY <1>0, <1>1, <2>1, MoveKeepsCovered DEF CheckMisses, Places
<1>2. ASSUME NEW a \in Attempts, CheckHits(a) PROVE Covered(k)'
  <2>1. CASE hasResult /\ entries[Key(a)] = Corrupt
    <3>1. ~Valid(Key(a)) /\ at' = [at EXCEPT ![a] = "execute"]
      BY <1>2, <2>1 DEF CheckHits, Valid
    <3> QED BY <1>0, <1>2, <3>1, MoveKeepsCovered DEF CheckHits, Places
  <2>2. CASE ~(hasResult /\ entries[Key(a)] = Corrupt)
    <3>1. Key(a) \in Keys
      BY KeyType DEF IInv
    <3>2. Valid(Key(a)) /\ at' = [at EXCEPT ![a] = "answer"]
      BY <1>2, <2>2, <3>1 DEF CheckHits, Valid, IInv, RecordsAreTrue
    <3> QED BY <1>0, <1>2, <3>2, MoveKeepsCovered DEF CheckHits, Places
  <2> QED BY <2>1, <2>2
<1>3. ASSUME NEW a \in Attempts, CheckFails(a) \/ RecordFails(a) PROVE Covered(k)'
  BY <1>0, <1>3, MoveKeepsCovered DEF CheckFails, RecordFails, Fault, Running, Places
<1>4. ASSUME NEW a \in Attempts, FnFails(a) \/ AnswerLost(a) PROVE Covered(k)'
  BY <1>0, <1>4, MoveKeepsCovered DEF FnFails, AnswerLost, Places
<1>5. ASSUME NEW a \in Attempts, FnSucceeds(a) \/ Record(a) \/ WorkerCrashes(a)
      PROVE  Covered(k)'
  BY <1>0, <1>5, FnSucceedsKeepsCovered, RecordKeepsCovered, WorkerCrashesKeepsCovered
<1>6. ASSUME NEW a \in Attempts, AnswerArrives(a) PROVE Covered(k)'
  <2>1. CASE IsCurrent(a)
    BY <1>0, <1>6, <2>1, ClosingKeepsCovered DEF AnswerArrives
  <2>2. CASE ~IsCurrent(a)
    BY <1>0, <1>6, <2>2, MoveKeepsCovered DEF AnswerArrives, Places
  <2> QED BY <2>1, <2>2
<1>7. ASSUME NEW a \in Attempts, ErrorArrives(a) PROVE Covered(k)'
  <2>0. at[a] = "fail" /\ UNCHANGED <<config, entries, run, executions, faults>>
    BY <1>7 DEF ErrorArrives
  <2>1. CASE IsCurrent(a) /\ NextAttempt([at EXCEPT ![a] = "done"])
    <3> DEFINE atNow == [at EXCEPT ![a] = "done"]
    <3>1. /\ atNow \in [Attempts -> Places] /\ NextAttempt(atNow)
          /\ \A b \in Attempts : atNow[b] = at[b] \/ (at[b] = "fail" /\ atNow[b] = "done")
      BY <1>0, <2>0, <2>1 DEF TypeOK, Places
    <3>2. status[run] = "open" /\ ~Running(<<run, attempt>>)
      BY <2>0, <2>1 DEF IsCurrent, Running
    <3> HIDE DEF atNow
    <3> QED BY <1>0, <2>0, <3>1, <3>2, NextAttemptKeepsCovered
  <2>2. CASE /\ at' = [at EXCEPT ![a] = "done"] /\ attempt' = attempt
             /\ status' = IF IsCurrent(a) THEN [status EXCEPT ![run] = "failed"] ELSE status
    <3>1. CASE IsCurrent(a)
      BY <1>0, <2>0, <2>2, <3>1, ClosingKeepsCovered
    <3>2. CASE ~IsCurrent(a)
      BY <1>0, <2>0, <2>2, <3>2, MoveKeepsCovered DEF Places
    <3> QED BY <3>1, <3>2
  <2> QED BY <1>7, <2>1, <2>2 DEF ErrorArrives
<1>8. CASE AttemptTimesOut
  <2>1. at \in [Attempts -> Places] /\ NextAttempt(at) /\ status[run] = "open"
    BY <1>0, <1>8 DEF AttemptTimesOut, TypeOK, Places
  <2>2. faults' = IF Running(<<run, attempt>>) THEN faults + 1 ELSE faults
    BY <1>8 DEF AttemptTimesOut, Fault
  <2>3. UNCHANGED <<config, entries, run, executions>>
    BY <1>8 DEF AttemptTimesOut
  <2> QED BY <1>0, <2>1, <2>2, <2>3, NextAttemptKeepsCovered
<1>9. ASSUME \/ \E j \in Keys : EntryExpires(j) \/ EntryCorrupted(j)
             \/ Flush
      PROVE  Covered(k)'
  <2>1. /\ UNCHANGED <<config, run, attempt, status, at, executions>>
        /\ faults' = faults + 1
    BY <1>9 DEF EntryExpires, EntryCorrupted, Flush, Fault
  <2>2. entries'[k] = entries[k] \/ entries'[k] \in {Nothing, Corrupt}
    BY <1>0, <1>9 DEF EntryExpires, EntryCorrupted, Flush, TypeOK
  <2>3. Valid(k)' => Valid(k)
    BY <2>2 DEF Valid
  <2> QED BY <1>0, <2>1, <2>3, StoreLosesKeepsCovered
<1>10. CASE StartRun
  BY <1>0, <1>10, StartRunKeepsCovered
<1>11. CASE UNCHANGED vars
  <2>1. /\ Pending(k)' = Pending(k) /\ Executed(k)' = Executed(k)
        /\ Allowance(k)' = Allowance(k)
    BY <1>11 DEF vars, config, Pending, Executed, Allowance, Valid, AtWork, IsCurrent,
                 Running, Key
  <2> QED BY <1>0, <2>1 DEF Covered
<1> QED BY <1>1, <1>2, <1>3, <1>4, <1>5, <1>6, <1>7, <1>8, <1>9, <1>10, <1>11 DEF Next

-----------------------------------------------------------------------------
\* The invariant of ExecuteIdempotent, its store and the server.
THEOREM IdempotencyIInv == Spec => [](IInv /\ DInv)
BY InitIInv, NextIInv, InitDInv, NextDInv, PTL DEF Spec

\* Every variable has its type; in particular fn cannot succeed more often
\* than there are attempts of runs (activity/idempotency_store.go:66-119).
THEOREM IdempotencyTypeOK == Spec => []TypeOK
<1>1. IInv => TypeOK
  BY DEF IInv
<1> QED BY <1>1, IdempotencyIInv, PTL

\* ExecuteIdempotent executes a key once, plus at most once per fault, for any
\* number of runs, attempts and faults and in every interleaving of late
\* attempts with their successors.
THEOREM IdempotencyDuplicatesAreBoundedByFaults == Spec => []DuplicatesAreBoundedByFaults
<1>1. IInv /\ DInv => DuplicatesAreBoundedByFaults
  <2> SUFFICES ASSUME IInv, DInv, NEW k \in Keys
               PROVE  Cardinality(Executed(k)) <= 1 + faults
    BY DEF DuplicatesAreBoundedByFaults, Executed
  <2>1. Covered(k) /\ TypeOK
    BY DEF DInv, IInv
  <2>2. faults \in Nat
    BY <2>1, BoundsAssumption DEF TypeOK
  <2>3. Cardinality(Executed(k)) \in Nat /\ Cardinality(Pending(k)) \in Nat
    BY <2>1, Counts
  <2>4. Allowance(k) <= faults + 1 /\ Allowance(k) \in Nat
    BY <2>2 DEF Allowance
  <2> QED BY <2>1, <2>2, <2>3, <2>4 DEF Covered
<1> QED BY <1>1, IdempotencyIInv, PTL

\* A run's answer is what one of its attempts returned, and fn really produced
\* it under that attempt's key, whether it was computed, replayed or computed
\* again; whatever IDs the activity had in the runs.
THEOREM IdempotencyAnswerIsGenuine == Spec => []AnswerIsGenuine
<1>1. IInv => AnswerIsGenuine
  BY DEF IInv, AnswersAreTrue, Answered, Produced, AnswerIsGenuine
<1> QED BY <1>1, IdempotencyIInv, PTL

\* An attempt whose fn succeeded never reports an error, whatever the store
\* answers to Record.
THEOREM IdempotencySuccessIsNotReportedAsError == Spec => []SuccessIsNotReportedAsError
<1>1. IInv => SuccessIsNotReportedAsError
  BY DEF IInv, OnceEach, SuccessIsNotReportedAsError
<1> QED BY <1>1, IdempotencyIInv, PTL

-----------------------------------------------------------------------------
(* RetryPolicy.                                                            *)

\* The types a builder can list.
Listed == {"ExpiredOffer", "CompensationError", "LoanRejected"}

RetryTypeOK ==
  /\ origin \in {"preset", "builder"}
  /\ opts \in [scheduleToClose : Nat, startToClose : Nat, heartbeat : Nat, maxAttempts : Nat,
               initialInterval : Nat, backoff : Nat, maxInterval : Nat,
               nonRetryable : SUBSET Listed]
  /\ phase \in {"building", "due", "failed", "closed"}
  /\ clock \in Nat /\ attempts \in Nat /\ delay \in Nat
  /\ last \in Outcomes
  /\ prompt \in BOOLEAN

\* A preset is not built; what is being built has not been tried.
Configured ==
  /\ origin = "preset" => opts \in Presets /\ phase # "building"
  /\ phase = "building" => clock = 0 /\ attempts = 0

\* Neither the window nor the attempts are ever exceeded.
WithinLimits ==
  /\ clock <= Window
  /\ opts.maxAttempts > 0 => attempts <= opts.maxAttempts
  /\ (opts.maxAttempts > 0 /\ phase = "due") => attempts < opts.maxAttempts
  /\ phase = "failed" => attempts > 0

\* What was closed had a reason to be.
ClosedForAReason ==
  (phase = "closed" /\ last \in Transient) =>
    \/ opts.maxAttempts = attempts
    \/ clock = Window
    \/ clock + Backoff > Window

RetryInv ==
  /\ RetryTypeOK /\ Configured /\ WithinLimits /\ ClosedForAReason
  /\ BusinessErrorIsFinal

-----------------------------------------------------------------------------
\* The presets in half seconds.
LEMMA PresetFields ==
  /\ FinancialAPIOptions =
       [scheduleToClose |-> 600, startToClose |-> 240, heartbeat |-> 60, maxAttempts |-> 5,
        initialInterval |-> 4, backoff |-> 2, maxInterval |-> 60,
        nonRetryable |-> businessErrorCodes]
  /\ NotificationOptions =
       [scheduleToClose |-> 240, startToClose |-> 120, heartbeat |-> 0, maxAttempts |-> 3,
        initialInterval |-> 10, backoff |-> 1, maxInterval |-> 10,
        nonRetryable |-> businessErrorCodes]
  /\ InternalServiceOptions =
       [scheduleToClose |-> 120, startToClose |-> 60, heartbeat |-> 0, maxAttempts |-> 10,
        initialInterval |-> 1, backoff |-> 2, maxInterval |-> 20,
        nonRetryable |-> businessErrorCodes]
  /\ LongRunningOptions =
       [scheduleToClose |-> 172800, startToClose |-> 165600, heartbeat |-> 120,
        maxAttempts |-> 3, initialInterval |-> 20, backoff |-> 2, maxInterval |-> 600,
        nonRetryable |-> businessErrorCodes]
BY DEF FinancialAPIOptions, NotificationOptions, InternalServiceOptions,
       LongRunningOptions, Options, Seconds, Minutes, Hours

\* Whatever is called on it, the builder holds options.
LEMMA WithType ==
  ASSUME RetryTypeOK, NEW o \in With(opts)
  PROVE  o \in [scheduleToClose : Nat, startToClose : Nat, heartbeat : Nat, maxAttempts : Nat,
               initialInterval : Nat, backoff : Nat, maxInterval : Nat,
               nonRetryable : SUBSET Listed]
<1> DEFINE OptionTypes ==
             [scheduleToClose : Nat, startToClose : Nat, heartbeat : Nat, maxAttempts : Nat,
              initialInterval : Nat, backoff : Nat, maxInterval : Nat,
              nonRetryable : SUBSET Listed]
<1>1. /\ Seconds(20) \in Nat /\ Seconds(30) \in Nat /\ Seconds(45) \in Nat
      /\ Minutes(2) \in Nat /\ Minutes(5) \in Nat /\ Minutes(10) \in Nat
  BY DEF Seconds, Minutes
<1>2. opts \in OptionTypes
  BY DEF RetryTypeOK
<1>3. \A d \in Nat :
        /\ [opts EXCEPT !.scheduleToClose = d] \in OptionTypes
        /\ [opts EXCEPT !.startToClose = d] \in OptionTypes
        /\ [opts EXCEPT !.heartbeat = d] \in OptionTypes
        /\ [opts EXCEPT !.maxAttempts = d] \in OptionTypes
        /\ [opts EXCEPT !.initialInterval = d] \in OptionTypes
        /\ [opts EXCEPT !.maxInterval = d] \in OptionTypes
        /\ [opts EXCEPT !.backoff = d] \in OptionTypes
  BY <1>2
<1>4. \A cs \in SUBSET Listed : [opts EXCEPT !.nonRetryable = cs] \in OptionTypes
  BY <1>2
<1>5. /\ {} \in SUBSET Listed /\ {"LoanRejected"} \in SUBSET Listed
      /\ opts.nonRetryable \cup {"LoanRejected"} \in SUBSET Listed
  BY <1>2 DEF Listed
<1>6. NoRetry(opts) \in OptionTypes
  BY <1>2, <1>5 DEF NoRetry
<1> HIDE DEF OptionTypes
<1>7. \/ \E d \in Nat : \/ o = [opts EXCEPT !.scheduleToClose = d]
                        \/ o = [opts EXCEPT !.startToClose = d]
                        \/ o = [opts EXCEPT !.heartbeat = d]
                        \/ o = [opts EXCEPT !.maxAttempts = d]
                        \/ o = [opts EXCEPT !.initialInterval = d]
                        \/ o = [opts EXCEPT !.maxInterval = d]
                        \/ o = [opts EXCEPT !.backoff = d]
      \/ \E cs \in SUBSET Listed : o = [opts EXCEPT !.nonRetryable = cs]
      \/ o = NoRetry(opts)
  BY <1>1, <1>5 DEF With
<1>8. o \in OptionTypes
  BY <1>3, <1>4, <1>6, <1>7
<1> QED BY <1>8 DEF OptionTypes

\* Backoff is a time.
LEMMA BackoffType ==
  ASSUME RetryTypeOK
  PROVE  Backoff \in Nat
<1>1. delay * opts.backoff \in Nat /\ opts.maxInterval \in Nat /\ opts.initialInterval \in Nat
  BY DEF RetryTypeOK
<1> QED BY <1>1 DEF Backoff, Least

\* The timeouts the server applies are times.
LEMMA StartToCloseType ==
  ASSUME RetryTypeOK
  PROVE  StartToClose \in Nat /\ StartToClose \div 2 \in Nat /\ Window \in Nat
BY DEF RetryTypeOK, StartToClose, Window

\* However an activity function ends, the server hears of a known outcome, and
\* of no timeout.
LEMMA OutcomeType ==
  /\ \A b \in Behaviours :
       WithPanicRecovery(b) \in Outcomes /\ WithPanicRecovery(b) # Other("timeout")
  /\ Other("timeout") \in Outcomes /\ Success \in Outcomes
<1> USE DEF Other, Success, Outcomes, NewRetryableError, NewBusinessError, Codes
<1>1. Other("timeout") \in Outcomes /\ Success \in Outcomes
  OBVIOUS
<1>2. ASSUME NEW b \in Behaviours
      PROVE  WithPanicRecovery(b) \in Outcomes /\ WithPanicRecovery(b) # Other("timeout")
  <2>1. CASE b = NewRetryableError
    BY <2>1 DEF WithPanicRecovery
  <2>2. CASE b = Success
    BY <2>2 DEF WithPanicRecovery
  <2>3. CASE b = NewCompensationError \/ \E c \in Codes : b = NewBusinessError(c)
    <3>1. PICK c \in Codes \cup {"CompensationError"} : b = NewBusinessError(c)
      BY <2>3 DEF NewCompensationError
    <3> QED BY <3>1 DEF WithPanicRecovery
  <2>4. ASSUME NEW t \in {"", "ExpiredOffer", "panic", "ctxDone"}, b = Other(t)
        PROVE  WithPanicRecovery(b) \in Outcomes /\ WithPanicRecovery(b) # Other("timeout")
    BY <2>4 DEF WithPanicRecovery
  <2> QED BY <2>1, <2>2, <2>3, <2>4 DEF Behaviours
<1> QED BY <1>1, <1>2

\* A preset, or a fresh builder, before the first attempt.
LEMMA InitRetryInv == RetryInit => RetryInv
<1> SUFFICES ASSUME RetryInit PROVE RetryInv
  OBVIOUS
<1>1. RetryTypeOK
  <2>1. CASE opts \in Presets
    BY <2>1, PresetFields, OutcomeType
    DEF RetryInit, RetryTypeOK, Presets, Listed, businessErrorCodes
  <2>2. CASE opts = NewOptionsBuilder
    BY <2>2, OutcomeType DEF RetryInit, RetryTypeOK, Listed, businessErrorCodes, NewOptionsBuilder,
       Options, Seconds, Minutes
  <2> QED BY <2>1, <2>2 DEF RetryInit
<1>2. Configured
  BY DEF RetryInit, Configured
<1>3. WithinLimits
  BY <1>1 DEF RetryInit, WithinLimits, RetryTypeOK, Window
<1> QED BY <1>1, <1>2, <1>3 DEF RetryInv, RetryInit, ClosedForAReason, BusinessErrorIsFinal

\* An attempt, however it ends.
LEMMA AttemptKeepsRetryInv ==
  ASSUME RetryInv, Attempt
  PROVE  RetryInv'
<1>0. /\ RetryTypeOK /\ phase = "due" /\ phase' = "failed" /\ attempts' = attempts + 1
      /\ UNCHANGED <<origin, calls, opts, delay, retried>>
  BY DEF RetryInv, Attempt, AttemptEnds, AttemptIsCut
<1>1. clock' \in Nat /\ clock' <= Window
  <2>1. StartToClose \in Nat /\ StartToClose \div 2 \in Nat /\ Window \in Nat
        /\ opts.heartbeat \in Nat /\ clock \in Nat
    BY <1>0, StartToCloseType DEF RetryTypeOK
  <2>2. PICK lag \in Lags : AttemptIsCut(lag) \/ \E b \in Behaviours : AttemptEnds(lag, b)
    BY DEF Attempt
  <2>3. CASE AttemptIsCut(lag)
    BY <2>1, <2>2, <2>3, LagsAssumption DEF AttemptIsCut, Least
  <2>4. CASE \E b \in Behaviours : AttemptEnds(lag, b)
    BY <2>1, <2>2, <2>4, LagsAssumption DEF AttemptEnds
  <2> QED BY <2>2, <2>3, <2>4
<1>2. last' \in Outcomes /\ prompt' \in BOOLEAN
  BY <1>0, OutcomeType DEF Attempt, AttemptEnds, AttemptIsCut, RetryTypeOK
<1>3. RetryTypeOK'
  BY <1>0, <1>1, <1>2 DEF RetryTypeOK
<1>4. Configured'
  BY <1>0 DEF RetryInv, Configured
<1>5. WithinLimits'
  BY <1>0, <1>1 DEF RetryInv, WithinLimits, RetryTypeOK, Window
<1>6. ClosedForAReason' /\ BusinessErrorIsFinal'
  BY <1>0 DEF RetryInv, ClosedForAReason, BusinessErrorIsFinal
<1> QED BY <1>3, <1>4, <1>5, <1>6 DEF RetryInv

\* Only what is retryable is retried, within the attempts and the window.
LEMMA RetryKeepsRetryInv ==
  ASSUME RetryInv, Retry
  PROVE  RetryInv'
<1>0. /\ RetryTypeOK /\ phase = "failed" /\ phase' = "due" /\ delay' = Backoff
      /\ clock' = clock + Backoff /\ clock + Backoff <= Window
      /\ retried' = retried \cup {last} /\ Retryable(last) /\ AttemptsLeft
      /\ UNCHANGED <<origin, calls, opts, attempts, last, prompt>>
  BY DEF RetryInv, Retry, Fits
<1>1. Backoff \in Nat
  BY <1>0, BackoffType
<1>2. RetryTypeOK'
  BY <1>0, <1>1 DEF RetryTypeOK
<1>3. Configured'
  BY <1>0 DEF RetryInv, Configured
<1>4. WithinLimits'
  BY <1>0, <1>1 DEF RetryInv, WithinLimits, RetryTypeOK, Window, AttemptsLeft
<1>5. ClosedForAReason'
  BY <1>0 DEF ClosedForAReason
<1>6. BusinessErrorIsFinal'
  <2>1. \A c \in Codes \cup {"CompensationError"} : last # NewBusinessError(c)
    BY <1>0 DEF Retryable, NewBusinessError
  <2>2. origin = "preset" => opts.nonRetryable = businessErrorCodes
    BY PresetFields DEF RetryInv, Configured, Presets
  <2>3. origin = "preset" => \A c \in businessErrorCodes : ~IsBusinessError(last, c)
    BY <1>0, <2>2 DEF Retryable, IsBusinessError
  <2> QED BY <1>0, <2>1, <2>3 DEF RetryInv, BusinessErrorIsFinal
<1> QED BY <1>2, <1>3, <1>4, <1>5, <1>6 DEF RetryInv

\* An attempt with a transient error that is not retried had no attempt or no
\* room left.
LEMMA CloseKeepsRetryInv ==
  ASSUME RetryInv, Close
  PROVE  RetryInv'
<1>0. /\ RetryTypeOK /\ phase = "failed" /\ phase' = "closed"
      /\ ~(Retryable(last) /\ AttemptsLeft /\ Fits)
      /\ UNCHANGED <<origin, calls, opts, clock, attempts, delay, last, retried, prompt>>
  BY DEF RetryInv, Close
<1>1. RetryTypeOK' /\ Configured' /\ WithinLimits' /\ BusinessErrorIsFinal'
  BY <1>0 DEF RetryInv, RetryTypeOK, Configured, WithinLimits, BusinessErrorIsFinal, Window
<1>2. ClosedForAReason'
  <2> SUFFICES ASSUME last \in Transient
               PROVE  \/ opts.maxAttempts = attempts
                      \/ clock + Backoff > Window
    BY <1>0 DEF ClosedForAReason, Backoff, Window
  <2>1. Retryable(last)
    <3>1. last \in {Other("timeout"), NewRetryableError}
      BY DEF Transient, WithPanicRecovery, Other
    <3>2. ~last.nonRetryable /\ last.type \in {"timeout", "RetryableError"}
      BY <3>1 DEF Other, NewRetryableError
    <3> QED BY <1>0, <3>2 DEF RetryTypeOK, Listed, Retryable
  <2>2. CASE ~AttemptsLeft
    BY <1>0, <2>2 DEF AttemptsLeft, RetryTypeOK, RetryInv, WithinLimits
  <2>3. CASE ~Fits
    <3>1. Backoff \in Nat /\ Window \in Nat /\ clock \in Nat
      BY <1>0, BackoffType, StartToCloseType DEF RetryTypeOK
    <3> QED BY <2>3, <3>1 DEF Fits
  <2> QED BY <1>0, <2>1, <2>2, <2>3
<1> QED BY <1>1, <1>2 DEF RetryInv

\* Every step keeps it.
LEMMA NextRetryInv == RetryInv /\ [RetryNext]_retryVars => RetryInv'
<1> SUFFICES ASSUME RetryInv, [RetryNext]_retryVars PROVE RetryInv'
  OBVIOUS
<1>1. CASE BuilderCall
  <2>1. /\ RetryTypeOK /\ phase = "building" /\ opts' \in With(opts)
        /\ UNCHANGED <<origin, phase, clock, attempts, delay, last, retried, prompt>>
    BY <1>1 DEF BuilderCall, RetryInv
  <2>2. RetryTypeOK'
    BY <2>1, WithType DEF RetryTypeOK
  <2> QED BY <2>1, <2>2 DEF RetryInv, RetryTypeOK, Configured, WithinLimits, ClosedForAReason,
             BusinessErrorIsFinal, Window
<1>2. CASE Build
  BY <1>2 DEF Build, RetryInv, RetryTypeOK, Configured, WithinLimits, ClosedForAReason,
              BusinessErrorIsFinal, Window
<1>3. CASE Attempt
  BY <1>3, AttemptKeepsRetryInv
<1>4. CASE WindowEnds
  <2>1. /\ RetryTypeOK /\ phase = "due" /\ phase' = "closed" /\ clock' = Window
        /\ last' = Other("timeout") /\ prompt' = FALSE /\ Window \in Nat
        /\ UNCHANGED <<origin, calls, opts, attempts, delay, retried>>
    BY <1>4, StartToCloseType DEF WindowEnds, RetryInv
  <2>2. RetryTypeOK'
    BY <2>1, OutcomeType DEF RetryTypeOK
  <2> QED BY <2>1, <2>2 DEF RetryInv, Configured, WithinLimits, ClosedForAReason,
             BusinessErrorIsFinal, Window, RetryTypeOK
<1>5. CASE Retry
  BY <1>5, RetryKeepsRetryInv
<1>6. CASE Close
  BY <1>6, CloseKeepsRetryInv
<1>7. CASE UNCHANGED retryVars
  BY <1>7 DEF retryVars, RetryInv, RetryTypeOK, Configured, WithinLimits, ClosedForAReason,
              BusinessErrorIsFinal, Window, Backoff
<1> QED BY <1>1, <1>2, <1>3, <1>4, <1>5, <1>6, <1>7 DEF RetryNext

-----------------------------------------------------------------------------
(* The presets against their own windows.                                  *)

\* A preset activity that waited for nothing and was never cut has, after n
\* retries, waited d and stands at c.
Stands(n, d, c) ==
  /\ attempts = IF phase = "due" THEN n ELSE n + 1
  /\ delay = d
  /\ clock = c

OnSchedule ==
  \/ opts = FinancialAPIOptions /\
       \/ Stands(0, 0, 0) \/ Stands(1, 4, 4) \/ Stands(2, 8, 12) \/ Stands(3, 16, 28)
       \/ Stands(4, 32, 60)
  \/ opts = NotificationOptions /\
       \/ Stands(0, 0, 0) \/ Stands(1, 10, 10) \/ Stands(2, 10, 20)
  \/ opts = InternalServiceOptions /\
       \/ Stands(0, 0, 0) \/ Stands(1, 1, 1) \/ Stands(2, 2, 3) \/ Stands(3, 4, 7)
       \/ Stands(4, 8, 15) \/ Stands(5, 16, 31) \/ Stands(6, 20, 51) \/ Stands(7, 20, 71)
       \/ Stands(8, 20, 91) \/ Stands(9, 20, 111)
  \/ opts = LongRunningOptions /\
       \/ Stands(0, 0, 0) \/ Stands(1, 20, 20) \/ Stands(2, 40, 60)

\* Prompt failures keep to the schedule.
PromptInv ==
  /\ (origin = "preset" /\ prompt) => OnSchedule
  /\ PromptFailuresUseAllAttempts

\* On schedule there is room for the next attempt, if there is one.
LEMMA ScheduleFits ==
  ASSUME RetryTypeOK, OnSchedule, phase # "due", AttemptsLeft
  PROVE  Fits
<1> USE DEF Stands, AttemptsLeft, Fits, Backoff, Least, Window
<1>1. CASE opts = FinancialAPIOptions
  BY <1>1, PresetFields DEF OnSchedule
<1>2. CASE opts = NotificationOptions
  BY <1>2, PresetFields DEF OnSchedule
<1>3. CASE opts = InternalServiceOptions
  BY <1>3, PresetFields DEF OnSchedule
<1>4. CASE opts = LongRunningOptions
  BY <1>4, PresetFields DEF OnSchedule
<1> QED BY <1>1, <1>2, <1>3, <1>4 DEF OnSchedule

\* The next wait is the next of the schedule.
LEMMA RetryKeepsSchedule ==
  ASSUME RetryTypeOK, OnSchedule, Retry
  PROVE  OnSchedule'
<1> USE DEF Stands, AttemptsLeft, Retry, Backoff, Least, Window
<1>1. CASE opts = FinancialAPIOptions
  BY <1>1, PresetFields DEF OnSchedule
<1>2. CASE opts = NotificationOptions
  BY <1>2, PresetFields DEF OnSchedule
<1>3. CASE opts = InternalServiceOptions
  BY <1>3, PresetFields DEF OnSchedule
<1>4. CASE opts = LongRunningOptions
  BY <1>4, PresetFields DEF OnSchedule
<1> QED BY <1>1, <1>2, <1>3, <1>4 DEF OnSchedule

\* Every step of a prompt failure keeps to the schedule.
LEMMA NextPromptInv == RetryInv /\ PromptInv /\ [RetryNext]_retryVars => PromptInv'
<1> SUFFICES ASSUME RetryInv, PromptInv, [RetryNext]_retryVars PROVE PromptInv'
  OBVIOUS
<1>0. RetryTypeOK
  BY DEF RetryInv
<1>1. CASE BuilderCall \/ Build
  BY <1>1 DEF BuilderCall, Build, RetryInv, RetryTypeOK, Configured, PromptInv,
     PromptFailuresUseAllAttempts
<1>2. CASE Attempt
  <2>1. PICK lag \in Lags : AttemptIsCut(lag) \/ \E b \in Behaviours : AttemptEnds(lag, b)
    BY <1>2 DEF Attempt
  <2>2. CASE AttemptIsCut(lag)
    BY <2>2 DEF AttemptIsCut, PromptInv, PromptFailuresUseAllAttempts
  <2>3. CASE \E b \in Behaviours : AttemptEnds(lag, b)
    <3>1. PICK d \in {0, StartToClose \div 2} :
            clock' = clock + lag + d /\ prompt' = (prompt /\ lag + d = 0)
      BY <2>3 DEF AttemptEnds
    <3>2. /\ phase = "due" /\ phase' = "failed" /\ attempts' = attempts + 1
          /\ UNCHANGED <<origin, opts, delay>>
      BY <2>3 DEF AttemptEnds
    <3>3. d \in Nat /\ lag \in Nat /\ clock \in Nat /\ attempts \in Nat
      BY <1>0, StartToCloseType, LagsAssumption DEF RetryTypeOK
    <3>4. prompt' => prompt /\ clock' = clock
      <4>1. lag + d = 0 => clock + lag + d = clock
        BY <3>3
      <4>2. prompt' => prompt /\ lag + d = 0
        BY <3>1, Zenon
      <4>3. clock' = clock + lag + d
        BY <3>1, Zenon
      <4> QED BY <4>1, <4>2, <4>3, Zenon
    <3>5. ASSUME clock' = clock, OnSchedule PROVE OnSchedule'
      BY <3>2, <3>3, <3>5 DEF OnSchedule, Stands
    <3> QED BY <3>2, <3>4, <3>5 DEF PromptInv, PromptFailuresUseAllAttempts
  <2> QED BY <2>1, <2>2, <2>3
<1>3. CASE WindowEnds
  BY <1>3 DEF WindowEnds, PromptInv, PromptFailuresUseAllAttempts
<1>4. CASE Retry
  BY <1>0, <1>4, RetryKeepsSchedule DEF Retry, PromptInv, PromptFailuresUseAllAttempts
<1>5. CASE Close
  <2>1. /\ phase = "failed" /\ phase' = "closed"
        /\ ~(Retryable(last) /\ AttemptsLeft /\ Fits)
        /\ UNCHANGED <<origin, opts, clock, attempts, delay, last, prompt>>
    BY <1>5 DEF Close
  <2>2. OnSchedule => OnSchedule'
    BY <2>1 DEF OnSchedule, Stands
  <2>3. PromptFailuresUseAllAttempts'
    <3> SUFFICES ASSUME origin = "preset", prompt, last = NewRetryableError
                 PROVE  attempts = opts.maxAttempts
      BY <2>1 DEF PromptFailuresUseAllAttempts
    <3>1. Retryable(last)
      BY <1>0 DEF NewRetryableError, Retryable, RetryTypeOK, Listed
    <3>2. ~AttemptsLeft
      BY <1>0, <2>1, <3>1, ScheduleFits DEF PromptInv
    <3> QED BY <1>0, <3>2 DEF AttemptsLeft, RetryTypeOK, RetryInv, WithinLimits
  <2> QED BY <2>1, <2>2, <2>3 DEF PromptInv
<1>6. CASE UNCHANGED retryVars
  BY <1>6 DEF retryVars, PromptInv, OnSchedule, Stands, PromptFailuresUseAllAttempts
<1> QED BY <1>1, <1>2, <1>3, <1>4, <1>5, <1>6 DEF RetryNext

\* The first attempt began at most a lag after the activity was scheduled.
FirstAttempt ==
  origin = "preset" =>
    /\ (attempts = 0 /\ phase # "closed") => clock = 0
    /\ (phase = "failed" /\ attempts = 1 /\ last = Other("timeout")) =>
         clock <= 58 + StartToClose

\* 58 half seconds are the longest lag for which a first attempt that is cut
\* leaves InternalServiceOptions room for a second one.
LEMMA NextFirstAttempt ==
  ASSUME Lags \subseteq 0 .. 58
  PROVE  RetryInv /\ FirstAttempt /\ [RetryNext]_retryVars => FirstAttempt'
<1> SUFFICES ASSUME RetryInv, FirstAttempt, [RetryNext]_retryVars PROVE FirstAttempt'
  OBVIOUS
<1>0. RetryTypeOK
  BY DEF RetryInv
<1>1. CASE BuilderCall \/ Build
  BY <1>1 DEF BuilderCall, Build, RetryInv, Configured, FirstAttempt
<1>2. CASE Attempt
  <2>1. PICK lag \in Lags : AttemptIsCut(lag) \/ \E b \in Behaviours : AttemptEnds(lag, b)
    BY <1>2 DEF Attempt
  <2>2. StartToClose \in Nat /\ Window \in Nat /\ clock \in Nat /\ attempts \in Nat
        /\ opts.heartbeat \in Nat /\ lag \in 0 .. 58
    BY <1>0, StartToCloseType DEF RetryTypeOK
  <2>3. CASE AttemptIsCut(lag)
    <3>1. clock' <= clock + 58 + StartToClose
      BY <2>2, <2>3 DEF AttemptIsCut, Least
    <3>2. /\ attempts' = attempts + 1 /\ StartToClose' = StartToClose /\ origin' = origin
          /\ phase = "due"
      BY <2>3 DEF AttemptIsCut, StartToClose
    <3> QED BY <2>2, <3>1, <3>2 DEF FirstAttempt
  <2>4. CASE \E b \in Behaviours : AttemptEnds(lag, b)
    <3>1. PICK b \in Behaviours : AttemptEnds(lag, b)
      BY <2>4
    <3>2. WithPanicRecovery(b) # Other("timeout")
      BY OutcomeType
    <3>3. last' # Other("timeout") /\ attempts' = attempts + 1
      BY <3>1, <3>2 DEF AttemptEnds
    <3> QED BY <2>2, <3>3 DEF FirstAttempt
  <2> QED BY <2>1, <2>3, <2>4
<1>3. CASE WindowEnds \/ Close
  BY <1>3 DEF WindowEnds, Close, FirstAttempt
<1>4. CASE Retry
  <2>1. attempts \in Nat /\ attempts > 0 /\ attempts' = attempts /\ phase' = "due"
    BY <1>0, <1>4 DEF Retry, RetryInv, WithinLimits, RetryTypeOK
  <2>2. attempts # 0 /\ phase' # "failed"
    BY <2>1
  <2> QED BY <2>1, <2>2 DEF FirstAttempt
<1>5. CASE UNCHANGED retryVars
  BY <1>5 DEF retryVars, FirstAttempt, StartToClose
<1> QED BY <1>1, <1>2, <1>3, <1>4, <1>5 DEF RetryNext

\* The invariant of the options, the attempts and the server's decisions.
THEOREM RetryIInv == RetrySpec => []RetryInv
BY InitRetryInv, NextRetryInv, PTL DEF RetrySpec

\* An error made by NewBusinessError or NewCompensationError is never followed
\* by another attempt, whatever the options (activity/errors.go, builder.go);
\* under a preset, nor is an error of a listed type.
THEOREM RetryBusinessErrorIsFinal == RetrySpec => []BusinessErrorIsFinal
<1>1. RetryInv => BusinessErrorIsFinal
  BY DEF RetryInv
<1> QED BY <1>1, RetryIInv, PTL

\* An activity with a retryable error, a panic or a timeout is given up only
\* for want of attempts or of time, and never exceeds either, for options built
\* by any number of builder calls.
THEOREM RetryTransientErrorIsRetried == RetrySpec => []TransientErrorIsRetried
<1>1. RetryInv => TransientErrorIsRetried
  BY StartToCloseType DEF RetryInv, RetryTypeOK, WithinLimits, ClosedForAReason,
     TransientErrorIsRetried
<1> QED BY <1>1, RetryIInv, PTL

\* The intervals of the four presets (activity/options.go) add up to less than
\* their windows: failures that come at once use all attempts.
THEOREM RetryPromptFailuresUseAllAttempts == RetrySpec => []PromptFailuresUseAllAttempts
<1>1. RetryInit => PromptInv
  BY DEF RetryInit, PromptInv, OnSchedule, Stands, Presets, PromptFailuresUseAllAttempts
<1>2. PromptInv => PromptFailuresUseAllAttempts
  BY DEF PromptInv
<1> QED BY <1>1, <1>2, RetryIInv, NextPromptInv, PTL DEF RetrySpec

\* Under every preset a first attempt that is cut leaves time for a second, if
\* a due attempt finds a worker within 29 seconds.  The bound is exact: with
\* 29.5 seconds InternalServiceOptions (60 s, 30 s, 0.5 s) has no room left.
THEOREM RetryOneCutAttemptIsSurvived ==
  ASSUME Lags \subseteq 0 .. 58
  PROVE  RetrySpec => []OneCutAttemptIsSurvived
<1>1. RetryInit => FirstAttempt
  BY DEF RetryInit, FirstAttempt
<1>2. RetryInv /\ FirstAttempt => OneCutAttemptIsSurvived
  <2> SUFFICES ASSUME RetryInv, FirstAttempt, origin = "preset", phase = "failed", attempts = 1,
                      last = Other("timeout")
               PROVE  AttemptsLeft /\ Fits /\ clock + Backoff < Window
    BY DEF OneCutAttemptIsSurvived
  <2>1. opts \in Presets /\ clock \in Nat /\ clock <= 58 + StartToClose
    BY DEF RetryInv, RetryTypeOK, Configured, FirstAttempt
  <2> QED BY <2>1, PresetFields
          DEF Presets, AttemptsLeft, Fits, Backoff, Window, StartToClose
<1> QED BY <1>1, <1>2, RetryIInv, NextFirstAttempt, PTL DEF RetrySpec
=============================================================================
