----------------------------- MODULE AuditTrail -----------------------------
(***************************************************************************)
(* workflow/state.go and workflow/audit.go: one workflow that tracks its   *)
(* stage and metadata, answers state queries and writes an audit trail.    *)
(*                                                                         *)
(* The workflow runs in tasks.  Within a task workflow.Now does not move   *)
(* and nothing else happens; between tasks the workflow is blocked, on its *)
(* business or in Write, and queries are answered.  External, as in module *)
(* Saga: on a cancelled context an activity is not dispatched, a pending   *)
(* one resolves with CanceledError, and attempts that are running go on.   *)
(***************************************************************************)
EXTENDS Integers, Sequences

CONSTANTS
  Stages,      \* business stages other than INIT
  Kinds,       \* audit event kinds
  Values,      \* values of the one metadata key
  MaxChanges,  \* bound: calls of SetStage and SetMeta
  MaxEntries,  \* bound: audit calls
  MaxTasks     \* bound: workflow tasks

ASSUME BoundsAssumption ==
  MaxChanges \in Nat /\ MaxEntries \in Nat /\ MaxTasks \in Nat \ {0}

VARIABLES
  pc,           \* "running", "blocked", "writing" or "closed"
  now,          \* workflow.Now, counted in tasks
  ctxCanceled,
  snapshot,     \* the WorkflowState
  held,         \* a copy the workflow got from Snapshot(): "none" or its Meta
  shared,       \* does that copy share the state's map?
  writer,       \* the AuditWriter in the context: "none", "noop", "activity"
  \* history
  meta,         \* the metadata according to the calls of SetMeta
  changes,
  entries,      \* every AuditEntry built while a trail was attached
  sent,         \* indices of entries whose activity was dispatched
  failed,       \* indices of entries whose activity used up its attempts
  trail,        \* indices of entries in the order the sink persisted them
  seen          \* the answer to the latest query

stateVars == <<snapshot, held, shared, meta, changes>>
trailVars == <<writer, entries, sent, failed, trail>>
vars == <<pc, now, ctxCanceled, stateVars, trailVars, seen>>

Snapshots == [Stage : Stages \cup {"INIT"}, StartedAt : 0 .. MaxTasks,
              UpdatedAt : 0 .. MaxTasks, Meta : Values \cup {"unset"}]

AuditEntries == [Kind : Kinds, OccurredAt : 1 .. MaxTasks]

\* Before the first query.
NoAnswer == [Stage |-> "INIT", StartedAt |-> 0, UpdatedAt |-> 0, Meta |-> "unset"]

\* The workflow begins with NewWorkflowState, which registers the query handler.
NewWorkflowState ==
  [Stage |-> "INIT", StartedAt |-> now, UpdatedAt |-> now, Meta |-> "unset"]

Init ==
  /\ pc = "running" /\ now = 1 /\ ctxCanceled = FALSE
  /\ snapshot = NewWorkflowState
  /\ held = "none" /\ shared = FALSE /\ meta = "unset" /\ changes = 0
  /\ writer = "none"
  /\ entries = <<>> /\ sent = {} /\ failed = {} /\ trail = <<>>
  /\ seen = NoAnswer

-----------------------------------------------------------------------------
(* state.go.                                                               *)

SetStage(stage) ==
  /\ pc = "running" /\ changes < MaxChanges
  /\ snapshot' = [snapshot EXCEPT !.Stage = stage, !.UpdatedAt = now]
  /\ changes' = changes + 1
  /\ UNCHANGED <<pc, now, ctxCanceled, held, shared, meta, trailVars, seen>>

\* Mistake: UpdatedAt is, as its comment says, the time of the last SetStage.
SetMetaUntimed(value) ==
  /\ pc = "running" /\ changes < MaxChanges
  /\ snapshot' = [snapshot EXCEPT !.Meta = value]
  /\ meta' = value
  /\ changes' = changes + 1
  /\ UNCHANGED <<pc, now, ctxCanceled, held, shared, trailVars, seen>>

SetMeta(value) ==
  /\ pc = "running" /\ changes < MaxChanges
  /\ snapshot' = [snapshot EXCEPT !.Meta = value, !.UpdatedAt = now]
  /\ meta' = value
  /\ changes' = changes + 1
  /\ UNCHANGED <<pc, now, ctxCanceled, held, shared, trailVars, seen>>

\* Mistake: the struct is copied and its map is not.
SnapshotShallow ==
  /\ pc = "running"
  /\ held' = snapshot.Meta
  /\ shared' = TRUE
  /\ UNCHANGED <<pc, now, ctxCanceled, snapshot, meta, changes, trailVars, seen>>

\* Snapshot(): a copy with a map of its own.
Snapshot ==
  /\ pc = "running"
  /\ held' = snapshot.Meta
  /\ shared' = FALSE
  /\ UNCHANGED <<pc, now, ctxCanceled, snapshot, meta, changes, trailVars, seen>>

\* The workflow code writes to the map of the copy it holds.
WriteToCopy(value) ==
  /\ pc = "running" /\ held # "none"
  /\ held' = value
  /\ snapshot' = IF shared THEN [snapshot EXCEPT !.Meta = value] ELSE snapshot
  /\ UNCHANGED <<pc, now, ctxCanceled, shared, meta, changes, trailVars, seen>>

\* The query handler, whose answer is encoded before the workflow goes on.
Query ==
  /\ pc \in {"blocked", "writing", "closed"}
  /\ seen' = snapshot
  /\ UNCHANGED <<pc, now, ctxCanceled, stateVars, trailVars>>

-----------------------------------------------------------------------------
(* audit.go.                                                               *)

\* WithAuditTrail: from here on the code uses the context that has the writer.
WithAuditTrail(w) ==
  /\ pc = "running" /\ writer = "none"
  /\ writer' = w
  /\ UNCHANGED <<pc, now, ctxCanceled, stateVars, entries, sent, failed, trail, seen>>

buildEntry(kind) == [Kind |-> kind, OccurredAt |-> now]

\* Mistake: the activity is started and its result is not awaited.
WriteAsync(entry) ==
  /\ entries' = Append(entries, entry)
  /\ sent' = IF ctxCanceled THEN sent ELSE sent \cup {Len(entries) + 1}
  /\ UNCHANGED pc

\* activityAuditWriter.Write: on a cancelled context the call fails at once.
Write(entry) ==
  /\ entries' = Append(entries, entry)
  /\ \/ ~ctxCanceled /\ sent' = sent \cup {Len(entries) + 1} /\ pc' = "writing"
     \/ ctxCanceled /\ UNCHANGED <<sent, pc>>

\* AuditStep, AuditApproval, AuditCompensation, AuditStageChange, AuditCustom:
\* they differ in the kind, and all go to the writer in the context.
Audit(kind) ==
  /\ pc = "running" /\ Len(entries) < MaxEntries
  /\ \/ writer = "activity" /\ Write(buildEntry(kind))
     \/ writer # "activity" /\ UNCHANGED <<pc, entries, sent>>
  /\ UNCHANGED <<now, ctxCanceled, stateVars, writer, failed, trail, seen>>

\* The next workflow task; what Get returned is ignored.
GoOn == /\ now < MaxTasks /\ pc' = "running" /\ now' = now + 1

\* The sink persisted the entry and its answer arrived.
WriteSucceeds ==
  /\ pc = "writing"
  /\ \E n \in 1 .. Len(trail) : trail[n] = Len(entries)
  /\ GoOn
  /\ UNCHANGED <<ctxCanceled, stateVars, trailVars, seen>>

\* The ten attempts are used up; a late one may still be running.
WriteFails ==
  /\ pc = "writing"
  /\ GoOn
  /\ failed' = failed \cup {Len(entries)}
  /\ UNCHANGED <<ctxCanceled, stateVars, writer, entries, sent, trail, seen>>

WriteCanceled ==
  /\ pc = "writing" /\ ctxCanceled
  /\ GoOn
  /\ UNCHANGED <<ctxCanceled, stateVars, trailVars, seen>>

\* An attempt of a dispatched write reaches the sink, in time or late; the sink
\* keeps one copy of an entry.
SinkPersists(n) ==
  /\ n \in sent
  /\ \A m \in 1 .. Len(trail) : trail[m] # n
  /\ trail' = Append(trail, n)
  /\ UNCHANGED <<pc, now, ctxCanceled, stateVars, writer, entries, sent, failed, seen>>

-----------------------------------------------------------------------------
(* The workflow's own business, and its end.                               *)

Block ==
  /\ pc = "running"
  /\ pc' = "blocked"
  /\ UNCHANGED <<now, ctxCanceled, stateVars, trailVars, seen>>

Unblock ==
  /\ pc = "blocked"
  /\ GoOn
  /\ UNCHANGED <<ctxCanceled, stateVars, trailVars, seen>>

CloseWorkflow ==
  /\ pc = "running"
  /\ pc' = "closed"
  /\ UNCHANGED <<now, ctxCanceled, stateVars, trailVars, seen>>

CancelWorkflow ==
  /\ pc \in {"blocked", "writing"} /\ ~ctxCanceled
  /\ ctxCanceled' = TRUE
  /\ UNCHANGED <<pc, now, stateVars, trailVars, seen>>

Next ==
  \/ \E s \in Stages : SetStage(s)
  \/ \E v \in Values : SetMeta(v) \/ WriteToCopy(v)
  \/ Snapshot
  \/ Query
  \/ \E w \in {"noop", "activity"} : WithAuditTrail(w)
  \/ \E kind \in Kinds : Audit(kind)
  \/ WriteSucceeds \/ WriteFails \/ WriteCanceled
  \/ \E n \in sent : SinkPersists(n)
  \/ Block \/ Unblock \/ CloseWorkflow \/ CancelWorkflow

Spec == Init /\ [][Next]_vars

-----------------------------------------------------------------------------
(* Properties.                                                             *)

Persisted(n) == \E m \in 1 .. Len(trail) : trail[m] = n

\* Every variable has its type, and the workflow waits in Write for an entry
\* that was dispatched.
TypeOK ==
  /\ pc \in {"running", "blocked", "writing", "closed"}
  /\ now \in 1 .. MaxTasks
  /\ ctxCanceled \in BOOLEAN
  /\ snapshot \in Snapshots /\ seen \in Snapshots
  /\ held \in Values \cup {"none", "unset"} /\ shared \in BOOLEAN
  /\ meta \in Values \cup {"unset"} /\ changes \in 0 .. MaxChanges
  /\ writer \in {"none", "noop", "activity"}
  /\ entries \in Seq(AuditEntries) /\ Len(entries) <= MaxEntries
  /\ sent \subseteq 1 .. Len(entries) /\ failed \subseteq sent
  /\ trail \in Seq(sent)
  /\ pc = "writing" => Len(entries) \in sent

\* The metadata is what SetMeta made it, whatever the workflow does to copies.
MetaOnlyBySetMeta == snapshot.Meta = meta

\* Two queries with different answers have different UpdatedAt, the later one
\* the larger: a poller that compares UpdatedAt misses no change.
UpdatedAtShowsChanges ==
  [][seen' # seen => seen'.UpdatedAt > seen.UpdatedAt]_vars

\* When the workflow goes on with its business, or closes, what it audited is
\* in the trail, unless it was cancelled or the write itself failed.
AuditedBeforeGoingOn ==
  (pc # "writing" /\ ~ctxCanceled) =>
    \A n \in 1 .. Len(entries) : n \notin failed => Persisted(n)

\* OccurredAt tells the persisted entries apart and puts them into the order in
\* which the workflow made them, although late attempts persist them in another.
OccurredAtRecoversOrder ==
  \A m, n \in 1 .. Len(entries) :
    (m < n /\ Persisted(m) /\ Persisted(n)) =>
      entries[m].OccurredAt < entries[n].OccurredAt
=============================================================================
