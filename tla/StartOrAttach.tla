--------------------------- MODULE StartOrAttach ----------------------------
(***************************************************************************)
(* client/start.go: callers that concurrently call StartOrAttach for one   *)
(* workflow ID, while executions of that ID close and answers get lost.    *)
(*                                                                         *)
(* External, modelled from how start.go uses it: the server keeps at most  *)
(* one open run per workflow ID and recognises a repeated start request of *)
(* the current run; the SDK's ExecuteWorkflow repeats a request whose      *)
(* answer is lost.  What happens when a run is open is up to the caller's  *)
(* StartWorkflowOptions, of which start.go overrides the ID and the reuse  *)
(* policy only: by default, and with the conflict policy USE_EXISTING, the *)
(* SDK returns a handle to the run that is open and no error ("attach");   *)
(* with WorkflowExecutionErrorWhenAlreadyStarted it returns the server's   *)
(* WorkflowExecutionAlreadyStarted ("error"); with TERMINATE_EXISTING the  *)
(* server replaces the run ("terminate").                                  *)
(***************************************************************************)
EXTENDS Integers

CONSTANTS
  Callers,  \* concurrent calls of StartOrAttach(WithOptions)
  MaxLost   \* bound: lost answers

ASSUME MaxLostAssumption == MaxLost \in Nat
ASSUME NoCallerAssumption == "nobody" \notin Callers

VARIABLES
  \* the server
  current,         \* the latest run of the workflow ID, 0 if there is none
  open,            \* is it running?
  creator,         \* the call whose request started it
  \* the calls
  pc,              \* "started" and "exists" are the server's two answers
  onConflict,      \* what each call's options ask for when a run is open
  answer,          \* the run the server answered with
  RunID,           \* the RunID of the WorkflowHandle returned
  AlreadyRunning,  \* calls whose handle has AlreadyRunning set
  \* history
  lost,
  before,          \* the current run when the call was made
  foundOpen,       \* calls that were made while it was open
  startedRuns      \* the runs each call's requests have started

serverVars == <<current, open, creator, startedRuns>>
handleVars == <<RunID, AlreadyRunning>>
callVars == <<onConflict, before, foundOpen>>
vars == <<serverVars, pc, answer, handleVars, lost, callVars>>

NoCaller == "nobody"
ConflictOptions == {"attach", "error", "terminate"}
Locations == {"idle", "requesting", "started", "exists", "describing", "done", "failed"}

Init ==
  /\ current = 0
  /\ open = FALSE
  /\ creator = NoCaller
  /\ pc = [c \in Callers |-> "idle"]
  /\ onConflict \in [Callers -> ConflictOptions]
  /\ answer = [c \in Callers |-> 0]
  /\ RunID = [c \in Callers |-> 0]
  /\ AlreadyRunning = {}
  /\ lost = 0
  /\ before = [c \in Callers |-> 0]
  /\ foundOpen = {}
  /\ startedRuns = [c \in Callers |-> {}]

Goto(c, l) == pc' = [pc EXCEPT ![c] = l]

-----------------------------------------------------------------------------
\* The call is made.  An empty workflow ID is refused at once.
Call(c) ==
  /\ pc[c] = "idle"
  /\ Goto(c, "requesting")
  /\ before' = [before EXCEPT ![c] = current]
  /\ foundOpen' = IF open THEN foundOpen \cup {c} ELSE foundOpen
  /\ UNCHANGED <<serverVars, onConflict, answer, handleVars, lost>>

RefuseEmptyID(c) ==
  /\ pc[c] = "idle"
  /\ Goto(c, "failed")
  /\ UNCHANGED <<serverVars, answer, handleVars, lost, callVars>>

\* Mistake: another policy is picked.
RejectDuplicate == "REJECT_DUPLICATE"

\* opts.WorkflowIDReusePolicy, whatever the caller's options say.
ReusePolicy == "ALLOW_DUPLICATE"

\* May the server start a new run for this call?
MayStart(c) ==
  \/ current = 0
  \/ ReusePolicy = "ALLOW_DUPLICATE" /\ (~open \/ onConflict[c] = "terminate")

\* c.ExecuteWorkflow reaches the server, which starts a run,
ServerStarts(c) ==
  /\ pc[c] = "requesting" /\ creator # c /\ MayStart(c)
  /\ current' = current + 1
  /\ open' = TRUE
  /\ creator' = c
  /\ startedRuns' = [startedRuns EXCEPT ![c] = @ \cup {current + 1}]
  /\ answer' = [answer EXCEPT ![c] = current + 1]
  /\ Goto(c, "started")
  /\ UNCHANGED <<handleVars, lost, callVars>>

\* recognises the request that started the current run, or reports that run.
ServerAnswers(c) ==
  /\ pc[c] = "requesting"
  /\ \/ creator = c /\ Goto(c, "started")
     \/ creator # c /\ ~MayStart(c) /\ Goto(c, "exists")
  /\ answer' = [answer EXCEPT ![c] = current]
  /\ UNCHANGED <<serverVars, handleVars, lost, callVars>>

\* The answer is lost and the client sends the same request again.
AnswerLost(c) ==
  /\ pc[c] \in {"started", "exists"}
  /\ lost < MaxLost
  /\ lost' = lost + 1
  /\ Goto(c, "requesting")
  /\ UNCHANGED <<serverVars, answer, handleVars, callVars>>

\* err == nil: a run was started, or the SDK attached to the existing one.
ExecuteWorkflowReturns(c) ==
  /\ pc[c] = "started" \/ (pc[c] = "exists" /\ onConflict[c] # "error")
  /\ RunID' = [RunID EXCEPT ![c] = answer[c]]
  /\ Goto(c, "done")
  /\ UNCHANGED <<serverVars, answer, AlreadyRunning, lost, callVars>>

\* Mistake: the refusal, which names the run, is taken for a start.
RefusedAsStarted(c) ==
  /\ pc[c] = "exists" /\ onConflict[c] = "error"
  /\ RunID' = [RunID EXCEPT ![c] = answer[c]]
  /\ Goto(c, "done")
  /\ UNCHANGED <<serverVars, answer, AlreadyRunning, lost, callVars>>

\* The WorkflowExecutionAlreadyStarted error: go on to describe the ID.
ExecuteWorkflowRefused(c) ==
  /\ pc[c] = "exists" /\ onConflict[c] = "error"
  /\ Goto(c, "describing")
  /\ UNCHANGED <<serverVars, answer, handleVars, lost, callVars>>

\* Any other error of ExecuteWorkflow or of DescribeWorkflowExecution.
CallFails(c) ==
  /\ pc[c] \in {"requesting", "describing"}
  /\ Goto(c, "failed")
  /\ UNCHANGED <<serverVars, answer, handleVars, lost, callVars>>

\* Mistake: the handle is filled in as after a start.
DescribeAsStarted(c) ==
  /\ pc[c] = "describing"
  /\ RunID' = [RunID EXCEPT ![c] = current]
  /\ Goto(c, "done")
  /\ UNCHANGED <<serverVars, answer, AlreadyRunning, lost, callVars>>

\* DescribeWorkflowExecution(ctx, workflowID, "") answers with the latest run.
Describe(c) ==
  /\ pc[c] = "describing"
  /\ RunID' = [RunID EXCEPT ![c] = current]
  /\ AlreadyRunning' = AlreadyRunning \cup {c}
  /\ Goto(c, "done")
  /\ UNCHANGED <<serverVars, answer, lost, callVars>>

CloseRun ==
  /\ open
  /\ open' = FALSE
  /\ UNCHANGED <<current, creator, startedRuns, pc, answer, handleVars, lost, callVars>>

Next ==
  \/ \E c \in Callers :
       \/ Call(c) \/ RefuseEmptyID(c) \/ ServerStarts(c) \/ ServerAnswers(c)
       \/ AnswerLost(c) \/ ExecuteWorkflowReturns(c) \/ ExecuteWorkflowRefused(c)
       \/ CallFails(c) \/ Describe(c)
  \/ CloseRun

Spec == Init /\ [][Next]_vars

-----------------------------------------------------------------------------
\* Every variable has its type, and an open run exists.
TypeOK ==
  /\ current \in Nat
  /\ open \in BOOLEAN
  /\ open => current > 0
  /\ creator \in Callers \cup {NoCaller}
  /\ pc \in [Callers -> Locations]
  /\ onConflict \in [Callers -> ConflictOptions]
  /\ answer \in [Callers -> Nat]
  /\ RunID \in [Callers -> Nat]
  /\ AlreadyRunning \subseteq Callers
  /\ lost \in 0 .. MaxLost
  /\ before \in [Callers -> Nat]
  /\ foundOpen \subseteq Callers
  /\ startedRuns \in [Callers -> SUBSET Nat]

\* A call that succeeds returns a run that was current at some moment of the
\* call; in particular, if the previous run had completed when the call was
\* made, the handle is to a newer one.
HandleIsFresh ==
  \A c \in Callers :
    pc[c] = "done" =>
      /\ RunID[c] \in 1 .. current
      /\ RunID[c] >= before[c]
      /\ c \notin foundOpen => RunID[c] > before[c]

\* AlreadyRunning never claims somebody else's run where the call started it
\* itself, also when answers were lost and sent again; and a caller that asks
\* for WorkflowExecutionErrorWhenAlreadyStarted can rely on it both ways.
AlreadyRunningWhenAsked ==
  \A c \in Callers :
    pc[c] = "done" =>
      /\ c \in AlreadyRunning => RunID[c] \notin startedRuns[c]
      /\ (onConflict[c] = "error" /\ RunID[c] \notin startedRuns[c]) => c \in AlreadyRunning

\* "This prevents double-execution from API retries": of all the callers that do
\* not silently attach, at most one is told that it has started a given run, in
\* whatever order they race, runs close, and answers are lost and sent again.
OneStarterPerRun ==
  \A c, d \in {e \in Callers \ AlreadyRunning :
                 pc[e] = "done" /\ onConflict[e] # "attach"} :
    RunID[c] = RunID[d] => c = d
=============================================================================
