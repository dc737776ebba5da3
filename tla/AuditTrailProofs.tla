-------------------------- MODULE AuditTrailProofs --------------------------
(***************************************************************************)
(* What state.go and audit.go promise, for any stages, values and kinds,   *)
(* and any number of changes, entries and workflow tasks.                  *)
(***************************************************************************)
EXTENDS AuditTrail, SequenceTheorems, TLAPS

\* The state's map is its own, and only SetMeta writes to it.
StateIsPrivate == ~shared /\ MetaOnlyBySetMeta

\* What was answered is older than this task, and older than the state unless
\* nothing has changed since.
AnswersAreOlder ==
  /\ pc = "running" => seen.UpdatedAt < now
  /\ seen.UpdatedAt <= now /\ snapshot.UpdatedAt <= now
  /\ seen # snapshot => seen.UpdatedAt < snapshot.UpdatedAt

\* Of an uncancelled workflow only the entry being written can be missing.
OnlyTheLastIsMissing ==
  ~ctxCanceled =>
    \A n \in 1 .. Len(entries) :
      n \in failed \/ Persisted(n) \/ (pc = "writing" /\ n = Len(entries))

\* A dispatched write ends the task, so the entries that were dispatched have
\* increasing times, all of them past except for the one being written.
DispatchTakesATask ==
  /\ \A n \in sent :
       \/ entries[n].OccurredAt < now
       \/ pc = "writing" /\ n = Len(entries) /\ entries[n].OccurredAt = now
  /\ \A m, n \in sent : m < n => entries[m].OccurredAt < entries[n].OccurredAt

IInv == TypeOK /\ StateIsPrivate /\ AnswersAreOlder /\ OnlyTheLastIsMissing
          /\ DispatchTakesATask

\* A new state has no entries and no copies.
LEMMA IInvInit == Init => IInv
PROOF
<1> SUFFICES ASSUME Init PROVE IInv
  OBVIOUS
<1> USE BoundsAssumption
<1>1. TypeOK
  <2>1. snapshot \in Snapshots /\ seen \in Snapshots
    BY DEF Init, NewWorkflowState, NoAnswer, Snapshots
  <2>2. <<>> \in Seq(AuditEntries) /\ <<>> \in Seq({}) /\ Len(<<>>) <= MaxEntries
    OBVIOUS
  <2>3. now \in 1 .. MaxTasks /\ changes \in 0 .. MaxChanges
    BY DEF Init
  <2>4. held \in Values \cup {"none", "unset"} /\ meta \in Values \cup {"unset"}
    BY DEF Init
  <2>. QED  BY <2>1, <2>2, <2>3, <2>4 DEF Init, TypeOK
<1>2. StateIsPrivate /\ AnswersAreOlder
  BY DEF Init, StateIsPrivate, MetaOnlyBySetMeta, AnswersAreOlder, NewWorkflowState, NoAnswer
<1>3. OnlyTheLastIsMissing /\ DispatchTakesATask
  BY DEF Init, OnlyTheLastIsMissing, DispatchTakesATask
<1>. QED  BY <1>1, <1>2, <1>3 DEF IInv

\* Entries that were dispatched exist and have a time.
LEMMA EntryTimes ==
  ASSUME TypeOK, NEW n \in sent
  PROVE  n \in Nat /\ entries[n].OccurredAt \in Nat
PROOF
<1>1. n \in 1 .. Len(entries) /\ entries \in Seq(AuditEntries) /\ Len(entries) \in Nat
  BY DEF TypeOK
<1>2. entries[n] \in AuditEntries
  BY <1>1, ElementOfSeq
<1>. QED  BY <1>1, <1>2, BoundsAssumption DEF AuditEntries

\* The trail's part of the invariant survives what leaves the trail alone and
\* neither ends the task of a write nor forgets a cancellation.
LEMMA TrailUntouched ==
  ASSUME IInv, UNCHANGED <<entries, sent, failed, trail>>, now' \in Nat, now <= now',
         ctxCanceled => ctxCanceled', pc = "writing" => pc' = "writing" /\ now' = now
  PROVE  OnlyTheLastIsMissing' /\ DispatchTakesATask'
PROOF
<1>0. TypeOK /\ now \in Nat
  BY BoundsAssumption DEF IInv, TypeOK
<1>1. \A n \in sent : n \in Nat /\ entries[n].OccurredAt \in Nat
  BY <1>0, EntryTimes
<1>2. OnlyTheLastIsMissing'
  BY DEF IInv, OnlyTheLastIsMissing, Persisted
<1>3. DispatchTakesATask'
  BY <1>0, <1>1 DEF IInv, DispatchTakesATask
<1>. QED  BY <1>2, <1>3

\* The same for a write whose result is in: failed, persisted or cancelled.
LEMMA WriteEnds ==
  ASSUME IInv, pc = "writing", GoOn, UNCHANGED <<entries, sent, trail>>,
         failed \subseteq failed', ctxCanceled' = ctxCanceled,
         ~ctxCanceled => Len(entries) \in failed' \/ Persisted(Len(entries))
  PROVE  OnlyTheLastIsMissing' /\ DispatchTakesATask'
PROOF
<1>0. TypeOK /\ now \in Nat
  BY BoundsAssumption DEF IInv, TypeOK
<1>1. \A n \in sent : n \in Nat /\ entries[n].OccurredAt \in Nat
  BY <1>0, EntryTimes
<1>2. OnlyTheLastIsMissing'
  BY DEF IInv, OnlyTheLastIsMissing, Persisted
<1>3. DispatchTakesATask'
  BY <1>0, <1>1 DEF IInv, DispatchTakesATask, GoOn
<1>. QED  BY <1>2, <1>3

\* Changes, copies, queries and writes keep the state private and its times
\* increasing.
LEMMA IInvStep == IInv /\ [Next]_vars => IInv'
PROOF
<1> SUFFICES ASSUME IInv, [Next]_vars PROVE IInv'
  OBVIOUS
<1> USE BoundsAssumption
<1>t. TypeOK /\ StateIsPrivate /\ AnswersAreOlder
  BY DEF IInv
<1>n. now \in Nat /\ now <= MaxTasks /\ snapshot.UpdatedAt \in Nat /\ seen.UpdatedAt \in Nat
  BY <1>t DEF TypeOK, Snapshots
<1>1. ASSUME NEW s \in Stages, SetStage(s) PROVE IInv'
  <2>0. snapshot' = [snapshot EXCEPT !.Stage = s, !.UpdatedAt = now]
        /\ snapshot \in Snapshots /\ now \in 0 .. MaxTasks
    BY <1>1, <1>t DEF SetStage, TypeOK
  <2>1. snapshot' \in Snapshots
    BY <2>0 DEF Snapshots
  <2>2. TypeOK'
    BY <1>1, <1>t, <2>1 DEF SetStage, TypeOK, trailVars
  <2>3. snapshot'.UpdatedAt = now /\ snapshot'.Meta = snapshot.Meta
    BY <1>1, <1>t DEF SetStage, TypeOK, Snapshots
  <2>4. StateIsPrivate'
    BY <1>1, <1>t, <2>3 DEF SetStage, StateIsPrivate, MetaOnlyBySetMeta
  <2>5. AnswersAreOlder'
    BY <1>1, <1>t, <1>n, <2>3 DEF SetStage, AnswersAreOlder
  <2>6. OnlyTheLastIsMissing' /\ DispatchTakesATask'
    BY <1>1, <1>n, TrailUntouched DEF SetStage, trailVars
  <2>. QED  BY <2>2, <2>4, <2>5, <2>6 DEF IInv
<1>2. ASSUME NEW v \in Values, SetMeta(v) PROVE IInv'
  <2>0. snapshot' = [snapshot EXCEPT !.Meta = v, !.UpdatedAt = now]
        /\ snapshot \in Snapshots /\ now \in 0 .. MaxTasks
    BY <1>2, <1>t DEF SetMeta, TypeOK
  <2>1. snapshot' \in Snapshots
    BY <2>0 DEF Snapshots
  <2>2. TypeOK'
    BY <1>2, <1>t, <2>1 DEF SetMeta, TypeOK, trailVars
  <2>3. snapshot'.UpdatedAt = now /\ snapshot'.Meta = v
    BY <1>2, <1>t DEF SetMeta, TypeOK, Snapshots
  <2>4. StateIsPrivate'
    BY <1>2, <1>t, <2>3 DEF SetMeta, StateIsPrivate, MetaOnlyBySetMeta
  <2>5. AnswersAreOlder'
    BY <1>2, <1>t, <1>n, <2>3 DEF SetMeta, AnswersAreOlder
  <2>6. OnlyTheLastIsMissing' /\ DispatchTakesATask'
    BY <1>2, <1>n, TrailUntouched DEF SetMeta, trailVars
  <2>. QED  BY <2>2, <2>4, <2>5, <2>6 DEF IInv
<1>3. CASE Snapshot
  <2>1. held' \in Values \cup {"none", "unset"}
    BY <1>3, <1>t DEF Snapshot, TypeOK, Snapshots
  <2>2. TypeOK'
    BY <1>3, <1>t, <2>1 DEF Snapshot, TypeOK, trailVars
  <2>3. StateIsPrivate' /\ AnswersAreOlder'
    BY <1>3, <1>t DEF Snapshot, StateIsPrivate, MetaOnlyBySetMeta, AnswersAreOlder
  <2>4. OnlyTheLastIsMissing' /\ DispatchTakesATask'
    BY <1>3, <1>n, TrailUntouched DEF Snapshot, trailVars
  <2>. QED  BY <2>2, <2>3, <2>4 DEF IInv
<1>4. ASSUME NEW v \in Values, WriteToCopy(v) PROVE IInv'
  <2>1. UNCHANGED <<pc, now, ctxCanceled, snapshot, shared, meta, changes, trailVars, seen>>
        /\ held' = v
    BY <1>4, <1>t DEF WriteToCopy, StateIsPrivate
  <2>2. TypeOK'
    BY <1>t, <2>1 DEF TypeOK, trailVars
  <2>3. StateIsPrivate' /\ AnswersAreOlder'
    BY <1>t, <2>1 DEF StateIsPrivate, MetaOnlyBySetMeta, AnswersAreOlder
  <2>4. OnlyTheLastIsMissing' /\ DispatchTakesATask'
    BY <1>n, <2>1, TrailUntouched DEF trailVars
  <2>. QED  BY <2>2, <2>3, <2>4 DEF IInv
<1>5. CASE Query
  <2>1. TypeOK'
    BY <1>5, <1>t DEF Query, TypeOK, stateVars, trailVars
  <2>2. StateIsPrivate' /\ AnswersAreOlder'
    BY <1>5, <1>t, <1>n DEF Query, StateIsPrivate, MetaOnlyBySetMeta, AnswersAreOlder, stateVars
  <2>3. OnlyTheLastIsMissing' /\ DispatchTakesATask'
    BY <1>5, <1>n, TrailUntouched DEF Query, trailVars
  <2>. QED  BY <2>1, <2>2, <2>3 DEF IInv
<1>6. ASSUME NEW w \in {"noop", "activity"}, WithAuditTrail(w) PROVE IInv'
  <2>1. TypeOK'
    BY <1>6, <1>t DEF WithAuditTrail, TypeOK, stateVars
  <2>2. StateIsPrivate' /\ AnswersAreOlder'
    BY <1>6, <1>t DEF WithAuditTrail, StateIsPrivate, MetaOnlyBySetMeta, AnswersAreOlder, stateVars
  <2>3. OnlyTheLastIsMissing' /\ DispatchTakesATask'
    BY <1>6, <1>n, TrailUntouched DEF WithAuditTrail
  <2>. QED  BY <2>1, <2>2, <2>3 DEF IInv
<1>7. ASSUME NEW kind \in Kinds, Audit(kind) PROVE IInv'
  <2>0. /\ pc = "running" /\ Len(entries) < MaxEntries
        /\ UNCHANGED <<now, ctxCanceled, stateVars, writer, failed, trail, seen>>
    BY <1>7 DEF Audit
  <2>1. CASE UNCHANGED <<pc, entries, sent>>
    <3>1. TypeOK'
      BY <1>t, <2>0, <2>1 DEF TypeOK, stateVars
    <3>2. StateIsPrivate' /\ AnswersAreOlder'
      BY <1>t, <2>0, <2>1 DEF StateIsPrivate, MetaOnlyBySetMeta, AnswersAreOlder, stateVars
    <3>3. OnlyTheLastIsMissing' /\ DispatchTakesATask'
      BY <1>n, <2>0, <2>1, TrailUntouched
    <3>. QED  BY <3>1, <3>2, <3>3 DEF IInv
  <2>2. CASE Write(buildEntry(kind))
    <3> DEFINE e == buildEntry(kind)
               last == Len(entries) + 1
    <3>1. e \in AuditEntries /\ e.OccurredAt = now
      BY <1>t DEF buildEntry, AuditEntries, TypeOK
    <3>s. entries \in Seq(AuditEntries) /\ Len(entries) \in Nat /\ sent \subseteq 1 .. Len(entries)
          /\ failed \subseteq sent /\ trail \in Seq(sent)
      BY <1>t DEF TypeOK
    <3>2. /\ entries' = Append(entries, e)
          /\ \/ ~ctxCanceled /\ sent' = sent \cup {last} /\ pc' = "writing"
             \/ ctxCanceled /\ sent' = sent /\ pc' = pc
      BY <2>2 DEF Write
    <3> HIDE DEF e
    <3>3. /\ entries' \in Seq(AuditEntries) /\ Len(entries') = last /\ entries'[last] = e
          /\ \A n \in 1 .. Len(entries) : entries'[n] = entries[n]
      BY <3>1, <3>2, <3>s
    <3>4. TypeOK'
      <4>0. sent \subseteq sent' /\ sent' \subseteq sent \cup {last}
        BY <3>2
      <4>1. sent' \subseteq 1 .. Len(entries') /\ failed' \subseteq sent'
        <5>1. sent \subseteq 1 .. last /\ last \in 1 .. last
          BY <3>s
        <5>. QED  BY <2>0, <3>3, <3>s, <4>0, <5>1
      <4>2. trail' \in Seq(sent')
        BY <2>0, <3>s, <4>0, SeqMonotonic
      <4>3. Len(entries') <= MaxEntries /\ (pc' = "writing" => Len(entries') \in sent')
        BY <2>0, <3>2, <3>3, <3>s
      <4>4. pc' \in {"running", "blocked", "writing", "closed"}
        BY <2>0, <3>2
      <4>. QED  BY <1>t, <2>0, <3>3, <4>1, <4>2, <4>3, <4>4 DEF TypeOK, stateVars
    <3>5. StateIsPrivate'
      BY <1>t, <2>0 DEF StateIsPrivate, MetaOnlyBySetMeta, stateVars
    <3>6. AnswersAreOlder'
      BY <1>t, <2>0, <3>2 DEF AnswersAreOlder, stateVars
    <3>7. OnlyTheLastIsMissing'
      <4>1. SUFFICES ASSUME ~ctxCanceled, NEW n \in 1 .. last, n # last
                     PROVE  n \in failed \/ Persisted(n)
        BY <2>0, <3>2, <3>3 DEF OnlyTheLastIsMissing, Persisted
      <4>2. n \in 1 .. Len(entries)
        BY <3>s, <4>1
      <4>. QED  BY <2>0, <4>1, <4>2 DEF IInv, OnlyTheLastIsMissing
    <3>8. DispatchTakesATask'
      <4>1. \A n \in sent : entries'[n] = entries[n] /\ entries[n].OccurredAt < now /\ n < last
        BY <2>0, <3>3, <3>s DEF IInv, DispatchTakesATask
      <4>2. \A m, n \in sent : m < n => entries[m].OccurredAt < entries[n].OccurredAt
        BY DEF IInv, DispatchTakesATask
      <4>3. last \in Nat /\ sent \subseteq Nat
        BY <3>s
      <4>4. sent' \subseteq sent \cup {last} /\ (last \in sent' => pc' = "writing")
        BY <3>2, <4>1
      <4>5. entries'[last].OccurredAt = now /\ Len(entries') = last /\ now' = now
        BY <2>0, <3>1, <3>3
      <4> HIDE DEF last
      <4>6. ASSUME NEW n \in sent'
            PROVE  \/ entries'[n].OccurredAt < now'
                   \/ pc' = "writing" /\ n = Len(entries') /\ entries'[n].OccurredAt = now'
        BY <4>1, <4>4, <4>5
      <4>7. ASSUME NEW m \in sent', NEW n \in sent', m < n
            PROVE  entries'[m].OccurredAt < entries'[n].OccurredAt
        <5>1. m \in sent
          BY <4>1, <4>3, <4>4, <4>7
        <5>2. CASE n \in sent
          BY <4>1, <4>2, <4>7, <5>1, <5>2
        <5>3. CASE n = last
          BY <4>1, <4>5, <5>1, <5>3
        <5>. QED  BY <4>4, <5>2, <5>3
      <4>. QED  BY <4>6, <4>7 DEF DispatchTakesATask
    <3>. QED  BY <3>4, <3>5, <3>6, <3>7, <3>8 DEF IInv
  <2>. QED  BY <1>7, <2>1, <2>2 DEF Audit
<1>8. CASE WriteSucceeds
  <2>1. TypeOK'
    BY <1>8, <1>t DEF WriteSucceeds, GoOn, TypeOK, stateVars, trailVars
  <2>2. StateIsPrivate' /\ AnswersAreOlder'
    BY <1>8, <1>t, <1>n
       DEF WriteSucceeds, GoOn, StateIsPrivate, MetaOnlyBySetMeta, AnswersAreOlder, stateVars
  <2>3. OnlyTheLastIsMissing' /\ DispatchTakesATask'
    BY <1>8, WriteEnds DEF WriteSucceeds, Persisted, trailVars
  <2>. QED  BY <2>1, <2>2, <2>3 DEF IInv
<1>9. CASE WriteFails
  <2>a. now' \in 1 .. MaxTasks /\ pc' = "running"
    BY <1>9, <1>t DEF WriteFails, GoOn, TypeOK
  <2>b. failed' \subseteq sent
    <3>1. Len(entries) \in sent /\ failed \subseteq sent /\ failed' = failed \cup {Len(entries)}
      BY <1>9, <1>t DEF WriteFails, TypeOK
    <3>. QED  BY <3>1
  <2>1. TypeOK'
    BY <1>9, <1>t, <2>a, <2>b DEF WriteFails, TypeOK, stateVars
  <2>2. StateIsPrivate' /\ AnswersAreOlder'
    BY <1>9, <1>t, <1>n
       DEF WriteFails, GoOn, StateIsPrivate, MetaOnlyBySetMeta, AnswersAreOlder, stateVars
  <2>3. OnlyTheLastIsMissing' /\ DispatchTakesATask'
    BY <1>9, WriteEnds DEF WriteFails
  <2>. QED  BY <2>1, <2>2, <2>3 DEF IInv
<1>10. CASE WriteCanceled
  <2>1. TypeOK'
    BY <1>10, <1>t DEF WriteCanceled, GoOn, TypeOK, stateVars, trailVars
  <2>2. StateIsPrivate' /\ AnswersAreOlder'
    BY <1>10, <1>t, <1>n
       DEF WriteCanceled, GoOn, StateIsPrivate, MetaOnlyBySetMeta, AnswersAreOlder, stateVars
  <2>3. OnlyTheLastIsMissing' /\ DispatchTakesATask'
    BY <1>10, WriteEnds DEF WriteCanceled, trailVars
  <2>. QED  BY <2>1, <2>2, <2>3 DEF IInv
<1>11. ASSUME NEW n \in sent, SinkPersists(n) PROVE IInv'
  <2>1. trail \in Seq(sent) /\ trail' = Append(trail, n)
        /\ UNCHANGED <<pc, now, ctxCanceled, stateVars, writer, entries, sent, failed, seen>>
    BY <1>11, <1>t DEF SinkPersists, TypeOK
  <2>2. trail' \in Seq(sent) /\ Len(trail') = Len(trail) + 1
        /\ \A m \in 1 .. Len(trail) : trail'[m] = trail[m]
    BY <2>1
  <2>3. TypeOK'
    BY <1>t, <2>1, <2>2 DEF TypeOK, stateVars
  <2>4. StateIsPrivate' /\ AnswersAreOlder'
    BY <1>t, <2>1 DEF StateIsPrivate, MetaOnlyBySetMeta, AnswersAreOlder, stateVars
  <2>5. \A k : Persisted(k) => Persisted(k)'
    <3>1. Len(trail) \in Nat /\ \A m \in 1 .. Len(trail) : m \in 1 .. Len(trail')
      BY <2>1, <2>2
    <3>. QED  BY <2>2, <3>1 DEF Persisted
  <2>6. OnlyTheLastIsMissing'
    BY <2>1, <2>5 DEF IInv, OnlyTheLastIsMissing
  <2>7. DispatchTakesATask'
    BY <2>1 DEF IInv, DispatchTakesATask
  <2>. QED  BY <2>3, <2>4, <2>6, <2>7 DEF IInv
<1>12. CASE Block \/ CloseWorkflow \/ CancelWorkflow
  <2>1. /\ UNCHANGED <<now, stateVars, trailVars, seen>>
        /\ ctxCanceled' \in BOOLEAN /\ (ctxCanceled => ctxCanceled')
        /\ \/ pc' = pc \/ (pc = "running" /\ pc' \in {"blocked", "closed"})
    BY <1>12, <1>t DEF Block, CloseWorkflow, CancelWorkflow, TypeOK
  <2>2. TypeOK'
    BY <1>t, <2>1 DEF TypeOK, stateVars, trailVars
  <2>3. StateIsPrivate' /\ AnswersAreOlder'
    BY <1>t, <2>1 DEF StateIsPrivate, MetaOnlyBySetMeta, AnswersAreOlder, stateVars
  <2>4. OnlyTheLastIsMissing' /\ DispatchTakesATask'
    BY <1>n, <2>1, TrailUntouched DEF trailVars
  <2>. QED  BY <2>2, <2>3, <2>4 DEF IInv
<1>13. CASE Unblock
  <2>1. TypeOK'
    BY <1>13, <1>t DEF Unblock, GoOn, TypeOK, stateVars, trailVars
  <2>2. StateIsPrivate' /\ AnswersAreOlder'
    BY <1>13, <1>t, <1>n
       DEF Unblock, GoOn, StateIsPrivate, MetaOnlyBySetMeta, AnswersAreOlder, stateVars
  <2>3. OnlyTheLastIsMissing' /\ DispatchTakesATask'
    BY <1>13, <1>n, TrailUntouched DEF Unblock, GoOn, trailVars
  <2>. QED  BY <2>1, <2>2, <2>3 DEF IInv
<1>14. CASE UNCHANGED vars
  <2>1. TypeOK' /\ StateIsPrivate' /\ AnswersAreOlder'
    BY <1>14, <1>t
       DEF vars, stateVars, trailVars, TypeOK, StateIsPrivate, MetaOnlyBySetMeta, AnswersAreOlder
  <2>2. OnlyTheLastIsMissing' /\ DispatchTakesATask'
    BY <1>14, <1>n, TrailUntouched DEF vars, trailVars
  <2>. QED  BY <2>1, <2>2 DEF IInv
<1>. QED  BY <1>1, <1>2, <1>3, <1>4, <1>5, <1>6, <1>7, <1>8, <1>9, <1>10, <1>11, <1>12,
             <1>13, <1>14 DEF Next

\* In every reachable state a query's answer is older than the state it differs
\* from, and only the newest audit entry can still be on its way: the inductive
\* invariant of state.go and audit.go.
THEOREM AuditIInv == Spec => []IInv
PROOF
  BY IInvInit, IInvStep, PTL DEF Spec

\* Whatever the workflow does to copies it got from Snapshot(), state.go's
\* metadata is what SetMeta made it.
THEOREM AuditMetaOnlyBySetMeta == Spec => []MetaOnlyBySetMeta
PROOF
<1>1. IInv => MetaOnlyBySetMeta
  BY DEF IInv, StateIsPrivate
<1>. QED  BY AuditIInv, <1>1, PTL

\* A poller of state.go's query that compares UpdatedAt misses no change.
THEOREM AuditUpdatedAtShowsChanges == Spec => UpdatedAtShowsChanges
PROOF
<1>1. IInv /\ [Next]_vars => [seen' # seen => seen'.UpdatedAt > seen.UpdatedAt]_vars
  <2> SUFFICES ASSUME IInv, Next, seen' # seen PROVE seen'.UpdatedAt > seen.UpdatedAt
    BY DEF vars
  <2>1. Query
    BY DEF Next, SetStage, SetMeta, WriteToCopy, Snapshot, WithAuditTrail, Audit,
           WriteSucceeds, WriteFails, WriteCanceled, SinkPersists, Block, Unblock,
           CloseWorkflow, CancelWorkflow
  <2>. QED  BY <2>1, BoundsAssumption DEF Query, IInv, AnswersAreOlder, TypeOK, Snapshots
<1>. QED  BY AuditIInv, <1>1, PTL DEF Spec, UpdatedAtShowsChanges

\* activityAuditWriter.Write: an uncancelled workflow goes on only when what it
\* audited is persisted or its write has failed.
THEOREM AuditedBeforeGoingOnHolds == Spec => []AuditedBeforeGoingOn
PROOF
<1>1. IInv => AuditedBeforeGoingOn
  BY DEF IInv, OnlyTheLastIsMissing, AuditedBeforeGoingOn
<1>. QED  BY AuditIInv, <1>1, PTL

\* OccurredAt, set by buildEntry, orders the persisted entries of audit.go.
THEOREM AuditOccurredAtRecoversOrder == Spec => []OccurredAtRecoversOrder
PROOF
<1>1. ASSUME IInv PROVE OccurredAtRecoversOrder
  <2>1. \A n : Persisted(n) => n \in sent
    BY <1>1 DEF IInv, TypeOK, Persisted
  <2>. QED  BY <1>1, <2>1 DEF IInv, DispatchTakesATask, OccurredAtRecoversOrder
<1>. QED  BY AuditIInv, <1>1, PTL
=============================================================================
