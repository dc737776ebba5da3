--------------------------- MODULE ParallelProofs ---------------------------
(***************************************************************************)
(* ExecuteParallel's fan-in, for any number of calls.                      *)
(***************************************************************************)
EXTENDS Parallel, FiniteSetTheorems, SequenceTheorems, TLAPS

\* A result whose callback has run carries the outcome of its own call.
Recorded(i) == \E n \in 1 .. Len(results) : results[n] = [Index |-> i, Err |-> Get(i)]

\* Before the fan-out nothing has happened.
NothingYet ==
  pc = "start" => results = <<>> /\ stored = {} /\ selects = 0 /\ ready = NoCall

\* A call leaves the Selector when its case runs, and then it has its result,
\* no result belongs to another call, and ResultPtr was filled if Get did it.
CasesAreRecorded ==
  pc # "start" =>
    /\ \A i \in Calls \ added : future[i] \in Resolved /\ Recorded(i)
    /\ \A n \in 1 .. Len(results) :
         results[n].Index \in Calls \ added /\ results[n].Err = Get(results[n].Index)
    /\ stored = {i \in Calls \ added : Fills(i)}

\* The loop counts the cases that are left.
LoopCounts ==
  pc # "start" =>
    /\ Len(results) = selects
    /\ Cardinality(added) = N - selects
    /\ pc \in {"selecting", "blocked"} => selects < N
    /\ pc \in {"aggregate", "returned"} => selects = N

\* Only a blocked Selector has a case waiting to run, and errors are combined
\* at the end.
ErrorIsTrue ==
  /\ pc # "blocked" => ready = NoCall
  /\ retErr # "none" <=>
       (pc = "returned" /\ ~bestEffort /\ \E i \in Calls : Get(i) # "ok")

IInv == TypeOK /\ NothingYet /\ CasesAreRecorded /\ LoopCounts /\ ErrorIsTrue

\* There are N calls.
LEMMA CallsAreFinite == IsFiniteSet(Calls) /\ Cardinality(Calls) = N
PROOF
  BY NAssumption, FS_Interval DEF Calls

\* Get depends on the call and its future alone.
LEMMA GetKept ==
  ASSUME NEW i, UNCHANGED config, future'[i] = future[i]
  PROVE  Get(i)' = Get(i) /\ Fills(i)' = Fills(i)
PROOF
  BY DEF Get, Fills, config

\* A step that runs no case and resolves no future that was taken keeps what
\* was recorded.
LEMMA RecordedKept ==
  ASSUME CasesAreRecorded, pc # "start", UNCHANGED <<config, added, results, stored>>,
         \A j \in Calls \ added : future'[j] = future[j]
  PROVE  CasesAreRecorded'
PROOF
<1>1. \A j \in Calls \ added : Get(j)' = Get(j) /\ Fills(j)' = Fills(j)
  BY GetKept
<1>. QED  BY <1>1 DEF CasesAreRecorded, Recorded

\* Before ExecuteParallel is called nothing was started or returned.
LEMMA IInvInit == Init => IInv
PROOF
<1> SUFFICES ASSUME Init PROVE IInv
  OBVIOUS
<1> USE NAssumption
<1>1. TypeOK
  <2>1. <<>> \in Seq(ParallelResults) /\ selects \in 0 .. N
    BY DEF Init
  <2>. QED  BY <2>1 DEF Init, TypeOK
<1>2. NothingYet /\ CasesAreRecorded /\ LoopCounts /\ ErrorIsTrue
  BY DEF Init, NothingYet, CasesAreRecorded, LoopCounts, ErrorIsTrue
<1>. QED  BY <1>1, <1>2 DEF IInv

\* One pass of the loop: the case of a resolved call runs.
LEMMA RunCaseStep ==
  ASSUME IInv, NEW i \in ReadyCases, pc \in {"selecting", "blocked"}, RunCase(i)
  PROVE  IInv'
PROOF
<1> DEFINE r == [Index |-> i, Err |-> Get(i)]
<1> USE NAssumption
<1>0. i \in added /\ i \in Calls /\ future[i] \in Resolved /\ added \subseteq Calls
  BY DEF IInv, TypeOK, ReadyCases
<1>1. /\ results' = Append(results, r)
      /\ stored' = (IF Fills(i) THEN stored \cup {i} ELSE stored)
      /\ added' = added \ {i} /\ ready' = NoCall /\ selects' = selects + 1
      /\ pc' = (IF selects + 1 = N THEN "aggregate" ELSE "selecting")
      /\ UNCHANGED <<config, future, retErr, ctxCanceled>>
  BY DEF RunCase, Callback, SelectLoop
<1>2. r \in ParallelResults
  BY <1>0 DEF ParallelResults, Outcomes, Get
<1>3. results \in Seq(ParallelResults) /\ Len(results) = selects /\ selects \in Nat
      /\ selects < N /\ Cardinality(added) = N - selects
  BY DEF IInv, TypeOK, LoopCounts
<1>k. \A j \in Calls : Get(j)' = Get(j) /\ Fills(j)' = Fills(j)
  BY <1>1, GetKept
<1> HIDE DEF r
<1>4. /\ results' \in Seq(ParallelResults) /\ Len(results') = selects + 1
      /\ results'[selects + 1] = r
      /\ \A n \in 1 .. selects : results'[n] = results[n]
  BY <1>1, <1>2, <1>3
<1>5. TypeOK'
  <2>1. selects' \in 0 .. N
    BY <1>1, <1>3
  <2>2. stored' \subseteq Calls
    BY <1>0, <1>1 DEF IInv, TypeOK
  <2>. QED  BY <1>0, <1>1, <1>4, <2>1, <2>2 DEF IInv, TypeOK, config
<1>6. NothingYet'
  BY <1>1 DEF NothingYet
<1>7. LoopCounts'
  <2>1. IsFiniteSet(added)
    BY <1>0, CallsAreFinite, FS_Subset
  <2>2. Cardinality(added') = Cardinality(added) - 1
    BY <1>0, <1>1, <2>1, FS_RemoveElement
  <2>. QED  BY <1>1, <1>3, <1>4, <2>2 DEF LoopCounts
<1>8. CasesAreRecorded'
  <2>0. CasesAreRecorded /\ pc # "start"
    BY DEF IInv
  <2>1. ASSUME NEW j \in Calls \ added' PROVE future'[j] \in Resolved /\ Recorded(j)'
    <3>1. CASE j = i
      <4>1. selects + 1 \in 1 .. Len(results')
        BY <1>3, <1>4
      <4>2. results'[selects + 1] = [Index |-> j, Err |-> Get(j)']
        BY <1>0, <1>1, <1>4, <1>k, <3>1 DEF r
      <4>. QED  BY <1>0, <1>1, <3>1, <4>1, <4>2 DEF Recorded
    <3>2. CASE j # i
      <4>1. j \in Calls \ added
        BY <1>1, <3>2
      <4>2. PICK n \in 1 .. Len(results) : results[n] = [Index |-> j, Err |-> Get(j)]
        BY <2>0, <4>1 DEF CasesAreRecorded, Recorded
      <4>3. n \in 1 .. Len(results') /\ results'[n] = results[n]
        BY <1>3, <1>4, <4>2
      <4>. QED  BY <1>1, <1>k, <2>0, <4>1, <4>2, <4>3 DEF CasesAreRecorded, Recorded
    <3>. QED  BY <3>1, <3>2
  <2>2. ASSUME NEW n \in 1 .. Len(results')
        PROVE  results'[n].Index \in Calls \ added' /\ results'[n].Err = Get(results[n].Index)'
    <3>1. CASE n = selects + 1
      BY <1>0, <1>1, <1>4, <1>k, <3>1 DEF r
    <3>2. CASE n # selects + 1
      <4>1. n \in 1 .. Len(results) /\ results'[n] = results[n]
        BY <1>3, <1>4, <3>2
      <4>. QED  BY <1>1, <1>k, <2>0, <4>1 DEF CasesAreRecorded
    <3>. QED  BY <3>1, <3>2
  <2>3. stored' = {j \in Calls \ added' : Fills(j)'}
    BY <1>0, <1>1, <1>k, <2>0 DEF CasesAreRecorded
  <2>. QED  BY <2>1, <2>2, <2>3 DEF CasesAreRecorded
<1>9. ErrorIsTrue'
  BY <1>1, <1>k DEF IInv, ErrorIsTrue, config
<1>. QED  BY <1>5, <1>6, <1>7, <1>8, <1>9 DEF IInv

\* Starting, resolving, selecting and combining keep the fan-in complete.
LEMMA IInvStep == IInv /\ [Next]_vars => IInv'
PROOF
<1> SUFFICES ASSUME IInv, [Next]_vars PROVE IInv'
  OBVIOUS
<1> USE NAssumption
<1>t. TypeOK /\ NothingYet /\ CasesAreRecorded /\ LoopCounts /\ ErrorIsTrue
  BY DEF IInv
<1>1. CASE FanOut
  <2>1. /\ pc = "start" /\ results = <<>> /\ stored = {} /\ selects = 0 /\ ready = NoCall
        /\ retErr = "none"
        /\ UNCHANGED <<config, ready, selects, results, stored, retErr, ctxCanceled>>
    BY <1>1, <1>t DEF FanOut, NothingYet, ErrorIsTrue
  <2>2. CASE N = 0
    <3>1. pc' = "returned" /\ UNCHANGED <<future, added>> /\ Calls = {} /\ added = {}
      BY <1>1, <1>t, <2>2 DEF FanOut, Calls, TypeOK
    <3>2. TypeOK'
      BY <1>t, <2>1, <3>1 DEF TypeOK, config
    <3>3. Cardinality({}) = 0
      BY FS_EmptySet
    <3>4. NothingYet' /\ CasesAreRecorded' /\ ErrorIsTrue'
      BY <2>1, <3>1 DEF NothingYet, CasesAreRecorded, ErrorIsTrue
    <3>5. LoopCounts'
      BY <2>1, <2>2, <3>1, <3>3 DEF LoopCounts
    <3>. QED  BY <3>2, <3>4, <3>5 DEF IInv
  <2>3. CASE N # 0
    <3>1. /\ pc' = "selecting" /\ added' = Calls
          /\ future' = [i \in Calls |-> IF ctxCanceled THEN "canceled" ELSE "pending"]
      BY <1>1, <2>3 DEF FanOut
    <3>2. TypeOK'
      BY <1>t, <2>1, <3>1 DEF TypeOK, Resolved, config
    <3>3. NothingYet' /\ CasesAreRecorded' /\ ErrorIsTrue'
      BY <2>1, <3>1 DEF NothingYet, CasesAreRecorded, ErrorIsTrue
    <3>4. LoopCounts'
      BY <2>1, <2>3, <3>1, CallsAreFinite DEF LoopCounts
    <3>. QED  BY <3>2, <3>3, <3>4 DEF IInv
  <2>. QED  BY <2>2, <2>3
<1>2. CASE SelectReady
  BY <1>2, RunCaseStep DEF SelectReady
<1>3. CASE SelectBlocks
  <2>1. TypeOK'
    BY <1>3, <1>t DEF SelectBlocks, TypeOK, ReadyCases, config
  <2>2. NothingYet' /\ LoopCounts' /\ ErrorIsTrue'
    BY <1>3, <1>t DEF SelectBlocks, NothingYet, LoopCounts, ErrorIsTrue
  <2>3. CasesAreRecorded'
    BY <1>3, <1>t, RecordedKept DEF SelectBlocks
  <2>. QED  BY <2>1, <2>2, <2>3 DEF IInv
<1>4. CASE SelectResumes
  <2>1. ready \in ReadyCases
    BY <1>4, <1>t DEF SelectResumes, TypeOK
  <2>. QED  BY <1>4, <2>1, RunCaseStep DEF SelectResumes
<1>5. CASE Aggregate
  <2>1. /\ pc = "aggregate" /\ pc' = "returned"
        /\ retErr' = (IF bestEffort THEN "none" ELSE CombineErrors)
        /\ UNCHANGED <<config, future, added, ready, selects, results, stored,
                       ctxCanceled>>
    BY <1>5 DEF Aggregate
  <2>2. CombineErrors \in {"none", "single", "combined"}
        /\ (CombineErrors = "none" <=> Failed = {})
    BY DEF CombineErrors
  <2>3. added = {}
    <3>1. IsFiniteSet(added) /\ Cardinality(added) = 0
      BY <1>t, <2>1, CallsAreFinite, FS_Subset DEF LoopCounts, TypeOK
    <3>. QED  BY <3>1, FS_EmptySet
  <2>4. Failed = {} <=> \A i \in Calls : Get(i) = "ok"
    <3>1. ASSUME Failed = {}, NEW i \in Calls PROVE Get(i) = "ok"
      <4>1. PICK n \in 1 .. Len(results) : results[n] = [Index |-> i, Err |-> Get(i)]
        BY <1>t, <2>1, <2>3 DEF CasesAreRecorded, Recorded
      <4>. QED  BY <3>1, <4>1 DEF Failed
    <3>2. ASSUME \A i \in Calls : Get(i) = "ok" PROVE Failed = {}
      BY <1>t, <2>1, <3>2 DEF CasesAreRecorded, Failed
    <3>. QED  BY <3>1, <3>2
  <2>5. TypeOK'
    BY <1>t, <2>1, <2>2 DEF TypeOK, ReadyCases, config
  <2>6. NothingYet' /\ LoopCounts'
    BY <1>t, <2>1 DEF NothingYet, LoopCounts
  <2>7. CasesAreRecorded'
    BY <1>t, <2>1, RecordedKept
  <2>8. ErrorIsTrue'
    <3>1. (\E i \in Calls : Get(i) # "ok")' <=> \E i \in Calls : Get(i) # "ok"
      BY <2>1, GetKept
    <3>. QED  BY <1>t, <2>1, <2>2, <2>4, <3>1 DEF ErrorIsTrue, config
  <2>. QED  BY <2>5, <2>6, <2>7, <2>8 DEF IInv
<1>6. ASSUME NEW i \in Calls, NEW how \in {"ok", "err"}, ActivityCloses(i, how) PROVE IInv'
  <2>1. /\ pc = "blocked" /\ future[i] = "pending" /\ how \in Resolved
        /\ future' = [future EXCEPT ![i] = how]
        /\ ready' = (IF ready = NoCall THEN i ELSE ready)
        /\ UNCHANGED <<config, pc, added, selects, results, stored, retErr, ctxCanceled>>
    BY <1>6 DEF ActivityCloses, Resolved
  <2>2. i \in added /\ (\A j \in Calls : j # i => future'[j] = future[j]) /\ future'[i] = how
    BY <1>6, <1>t, <2>1 DEF CasesAreRecorded, Resolved, TypeOK
  <2>3. TypeOK'
    BY <1>t, <2>1, <2>2 DEF TypeOK, ReadyCases, config
  <2>4. NothingYet' /\ LoopCounts' /\ ErrorIsTrue'
    BY <1>t, <2>1 DEF NothingYet, LoopCounts, ErrorIsTrue
  <2>5. CasesAreRecorded'
    <3>1. \A j \in Calls \ added : future'[j] = future[j]
      BY <2>2
    <3>. QED  BY <1>t, <2>1, <3>1, RecordedKept
  <2>. QED  BY <2>3, <2>4, <2>5 DEF IInv
<1>7. CASE CancelWorkflow
  <2>1. /\ pc = "blocked" /\ ctxCanceled' = TRUE
        /\ future' = [i \in Calls |-> IF future[i] = "pending" THEN "canceled" ELSE future[i]]
        /\ ready' \in Pending \cup {ready}
        /\ UNCHANGED <<config, pc, added, selects, results, stored, retErr>>
    BY <1>7 DEF CancelWorkflow, IsFirst
  <2>2. \A j \in Calls \ added : future'[j] = future[j]
    BY <1>t, <2>1 DEF CasesAreRecorded, Resolved
  <2>3. Pending \subseteq added
    BY <1>t, <2>1 DEF Pending, CasesAreRecorded, Resolved
  <2>5. TypeOK'
    <3>1. future' \in [Calls -> {"none", "pending"} \cup Resolved]
      BY <1>t, <2>1 DEF TypeOK, Resolved
    <3>2. ready' \in ReadyCases' \cup {NoCall}
      <4>1. \A j \in added : future[j] \in {"pending"} \cup Resolved => j \in ReadyCases'
        BY <1>t, <2>1 DEF TypeOK, ReadyCases, Resolved
      <4>2. \A j \in Pending : j \in added /\ future[j] = "pending"
        BY <2>3 DEF Pending
      <4>. QED  BY <1>t, <2>1, <4>1, <4>2 DEF TypeOK, ReadyCases
    <3>. QED  BY <1>t, <2>1, <3>1, <3>2 DEF TypeOK, config
  <2>6. NothingYet' /\ LoopCounts' /\ ErrorIsTrue'
    BY <1>t, <2>1 DEF NothingYet, LoopCounts, ErrorIsTrue
  <2>7. CasesAreRecorded'
    BY <1>t, <2>1, <2>2, RecordedKept
  <2>. QED  BY <2>5, <2>6, <2>7 DEF IInv
<1>8. CASE UNCHANGED vars
  <2>1. TypeOK' /\ NothingYet' /\ LoopCounts'
    BY <1>8, <1>t DEF vars, TypeOK, ReadyCases, NothingYet, LoopCounts
  <2>2. CasesAreRecorded'
    BY <1>8, <1>t, RecordedKept DEF vars, config, CasesAreRecorded
  <2>3. ErrorIsTrue'
    <3>1. UNCHANGED config /\ \A i \in Calls : Get(i)' = Get(i)
      BY <1>8, GetKept DEF vars, config
    <3>. QED  BY <1>8, <1>t, <3>1 DEF vars, ErrorIsTrue
  <2>. QED  BY <2>1, <2>2, <2>3 DEF IInv
<1>. QED  BY <1>1, <1>2, <1>3, <1>4, <1>5, <1>6, <1>7, <1>8 DEF Next

\* When ExecuteParallel returns every call has its own result, exactly those
\* whose result was decoded have filled their ResultPtr, and the error is there
\* exactly when some call failed or its result did not decode, for any number
\* of calls, completed in any order.
THEOREM ParallelResultsMatchCalls == Spec => []ResultsMatchCalls
PROOF
<1>1. ASSUME IInv PROVE ResultsMatchCalls
  <2>1. SUFFICES ASSUME pc = "returned" PROVE ResultsMatchCalls
    BY DEF ResultsMatchCalls
  <2>2. Len(results) = N /\ added = {}
    <3>1. Len(results) = N /\ Cardinality(added) = 0
      BY <1>1, <2>1, NAssumption DEF IInv, LoopCounts
    <3>2. IsFiniteSet(added)
      BY <1>1, CallsAreFinite, FS_Subset DEF IInv, TypeOK
    <3>. QED  BY <3>1, <3>2, FS_EmptySet
  <2>3. \A i \in Calls : /\ Fills(i) <=> future[i] = "ok" /\ ResultPtr[i] = "fits"
                         /\ Get(i) # "ok" <=> future[i] # "ok" \/ ResultPtr[i] = "misfits"
    BY <1>1 DEF IInv, TypeOK, Fills, Get
  <2>4. /\ \A i \in Calls : future[i] \in Resolved /\ Recorded(i)
        /\ stored = {i \in Calls : Fills(i)}
    BY <1>1, <2>1, <2>2 DEF IInv, CasesAreRecorded
  <2>5. retErr # "none" <=> (~bestEffort /\ \E i \in Calls : Get(i) # "ok")
    BY <1>1, <2>1 DEF IInv, ErrorIsTrue
  <2>. QED  BY <2>1, <2>2, <2>3, <2>4, <2>5 DEF Recorded, ResultsMatchCalls
<1>. QED  BY IInvInit, IInvStep, <1>1, PTL DEF Spec
=============================================================================
