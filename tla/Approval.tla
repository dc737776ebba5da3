------------------------------ MODULE Approval ------------------------------
(***************************************************************************)
(* workflow/approval.go: a workflow that passes through approval gates,    *)
(* calling WaitForApproval once per gate, while approvers signal it, gate  *)
(* timers fire and the workflow may be cancelled.                          *)
(*                                                                         *)
(* External, modelled from how approval.go uses it (go.temporal.io/sdk):   *)
(* a signal channel is one FIFO buffer per signal name for the whole       *)
(* execution; a Selector takes the first ready case in the order they were *)
(* added, or, when it has to block, the case whose event comes first;      *)
(* cancelling a context resolves its timer futures with CanceledError.     *)
(* The coroutine runs after the events of a workflow task were applied, so *)
(* more events may arrive between the one that unblocks the Selector and   *)
(* the moment WaitForApproval goes on.                                     *)
(***************************************************************************)
EXTENDS Integers, Sequences

CONSTANTS
  ApprovalIDs,  \* the approvals this workflow asks for
  MaxGates,     \* bound: calls of WaitForApproval
  MaxSignals    \* bound: signals sent to the execution

ASSUME BoundsAssumption == MaxGates \in Nat /\ MaxSignals \in Nat

VARIABLES
  pc,           \* "running", "selecting" (in sel.Select) or "closed"
  req,          \* the ApprovalRequest of the gate that is waiting
  readyBranch,  \* the Selector case that will run: "none", "receive", "timer"
  signalCh,     \* buffered signals, oldest first
  ctxCanceled,
  \* history
  sent,         \* every signal ever sent, oldest first
  consumed,     \* the signals received by gates, oldest first
  window,       \* has the waiting gate's Timeout elapsed?
  backlog,      \* was a signal buffered when the waiting gate was opened?
  results       \* what each call of WaitForApproval returned

vars == <<pc, req, readyBranch, signalCh, ctxCanceled, sent, consumed, window,
          backlog, results>>

NoID == ""
Requests == [ApprovalID : ApprovalIDs \cup {NoID}, Timeout : {0, 1}]
NoRequest == [ApprovalID |-> NoID, Timeout |-> 0]

\* The channel carries an ApprovalResult as its sender has filled it in, the
\* field TimedOut included; it names no approval.  "n" tells two identical
\* payloads apart.
Signals == [Approved : BOOLEAN, TimedOut : BOOLEAN, n : 1 .. MaxSignals]

Results == [ApprovalID : ApprovalIDs \cup {NoID}, Approved : BOOLEAN,
            TimedOut : BOOLEAN, err : BOOLEAN,
            by : 0 .. MaxSignals, expired : BOOLEAN, hadBacklog : BOOLEAN]

Init ==
  /\ pc = "running"
  /\ req = NoRequest
  /\ readyBranch = "none"
  /\ signalCh = <<>>
  /\ ctxCanceled = FALSE
  /\ sent = <<>>
  /\ consumed = <<>>
  /\ window = FALSE
  /\ backlog = FALSE
  /\ results = <<>>

-----------------------------------------------------------------------------
\* The validation at the top of WaitForApproval: an error, and nothing else.
RejectRequest(r) ==
  /\ pc = "running"
  /\ Len(results) < MaxGates
  /\ r.ApprovalID = NoID \/ r.Timeout <= 0
  /\ results' = Append(results,
       [ApprovalID |-> r.ApprovalID, Approved |-> FALSE, TimedOut |-> FALSE,
        err |-> TRUE, by |-> 0, expired |-> FALSE, hadBacklog |-> FALSE])
  /\ UNCHANGED <<pc, req, readyBranch, signalCh, ctxCanceled, sent, consumed,
                 window, backlog>>

\* Mistake: the timer is added to the Selector before the signal channel.
ReadyAtOnceTimerFirst ==
  IF ctxCanceled THEN "timer"
  ELSE IF signalCh # <<>> THEN "receive" ELSE "none"

\* The case sel.Select finds ready: the receive case was added first; the
\* timer of a cancelled context is resolved as soon as it is created.
ReadyAtOnce ==
  IF signalCh # <<>> THEN "receive"
  ELSE IF ctxCanceled THEN "timer" ELSE "none"

\* WaitForApproval up to sel.Select.
WaitForApproval(r) ==
  /\ pc = "running"
  /\ Len(results) < MaxGates
  /\ r.ApprovalID # NoID /\ r.Timeout > 0
  /\ pc' = "selecting"
  /\ req' = r
  /\ window' = FALSE
  /\ backlog' = (signalCh # <<>>)
  /\ readyBranch' = ReadyAtOnce
  /\ UNCHANGED <<signalCh, ctxCanceled, sent, consumed, results>>

\* An event unblocks the Selector unless another one already has.
Unblock(branch) ==
  readyBranch' = IF pc = "selecting" /\ readyBranch = "none" THEN branch
                                                             ELSE readyBranch

\* client.SignalWorkflow: at any moment of the execution's life, for a gate
\* that is waiting, past or still to come, and possibly twice.
SignalWorkflow(approved, timedOut) ==
  /\ pc # "closed"
  /\ Len(sent) < MaxSignals
  /\ LET m == [Approved |-> approved, TimedOut |-> timedOut, n |-> Len(sent) + 1]
     IN /\ sent' = Append(sent, m)
        /\ signalCh' = Append(signalCh, m)
  /\ Unblock("receive")
  /\ UNCHANGED <<pc, req, ctxCanceled, consumed, window, backlog, results>>

\* Mistake: no timer case is added to the Selector.
TimerIgnored ==
  /\ pc = "selecting" /\ ~window /\ ~ctxCanceled
  /\ window' = TRUE
  /\ UNCHANGED <<pc, req, readyBranch, signalCh, ctxCanceled, sent, consumed,
                 backlog, results>>

TimerFires ==
  /\ pc = "selecting" /\ ~window /\ ~ctxCanceled
  /\ window' = TRUE
  /\ Unblock("timer")
  /\ UNCHANGED <<pc, req, signalCh, ctxCanceled, sent, consumed, backlog, results>>

CancelWorkflow ==
  /\ pc # "closed"
  /\ ~ctxCanceled
  /\ ctxCanceled' = TRUE
  /\ Unblock("timer")
  /\ UNCHANGED <<pc, req, signalCh, sent, consumed, window, backlog, results>>

\* Mistake: the decision is read off the channel without being removed.
ReceiveByPeeking ==
  consumed' = Append(consumed, Head(signalCh)) /\ UNCHANGED signalCh

\* ch.Receive(ctx, &result)
Receive ==
  consumed' = Append(consumed, Head(signalCh)) /\ signalCh' = Tail(signalCh)

\* Mistake: the last decision received stands when a later gate times out.
TimeoutKeepingOldDecision ==
  [ApprovalID |-> req.ApprovalID,
   Approved |-> consumed # <<>> /\ consumed[Len(consumed)].Approved,
   TimedOut |-> TRUE, err |-> FALSE, by |-> 0,
   expired |-> window, hadBacklog |-> backlog]

\* The timer callback looks at neither the future's value nor its error.
TimeoutResult ==
  [ApprovalID |-> req.ApprovalID, Approved |-> FALSE, TimedOut |-> TRUE,
   err |-> FALSE, by |-> 0, expired |-> window, hadBacklog |-> backlog]

\* The signal's payload is returned as it was received.
SignalResult(m) ==
  [ApprovalID |-> req.ApprovalID, Approved |-> m.Approved, TimedOut |-> m.TimedOut,
   err |-> FALSE, by |-> m.n, expired |-> window, hadBacklog |-> backlog]

\* The coroutine resumes: the ready case's callback runs and WaitForApproval
\* returns.
SelectReturns ==
  /\ pc = "selecting"
  /\ \/ /\ readyBranch = "receive"
        /\ Receive
        /\ results' = Append(results, SignalResult(Head(signalCh)))
     \/ /\ readyBranch = "timer"
        /\ results' = Append(results, TimeoutResult)
        /\ UNCHANGED <<signalCh, consumed>>
  /\ pc' = "running"
  /\ req' = NoRequest
  /\ readyBranch' = "none"
  /\ window' = FALSE
  /\ backlog' = FALSE
  /\ UNCHANGED <<ctxCanceled, sent>>

\* The workflow function returns; signals still buffered are dropped with it.
CloseWorkflow ==
  /\ pc = "running"
  /\ pc' = "closed"
  /\ UNCHANGED <<req, readyBranch, signalCh, ctxCanceled, sent, consumed, window,
                 backlog, results>>

Next ==
  \/ \E r \in Requests : RejectRequest(r)
  \/ \E r \in Requests : WaitForApproval(r)
  \/ \E approved, timedOut \in BOOLEAN : SignalWorkflow(approved, timedOut)
  \/ TimerFires
  \/ CancelWorkflow
  \/ SelectReturns
  \/ CloseWorkflow

Spec == Init /\ [][Next]_vars

\* Durable timers fire and a workflow that can go on is scheduled; approvers
\* promise nothing.
FairSpec == Spec /\ WF_vars(TimerFires) /\ WF_vars(SelectReturns)

-----------------------------------------------------------------------------
\* Every variable has its type, a waiting gate has a valid request and
\* room for its result, and the receive case is only chosen when there is
\* something to receive.
TypeOK ==
  /\ pc \in {"running", "selecting", "closed"}
  /\ req \in Requests
  /\ pc = "selecting" => req.ApprovalID # NoID /\ req.Timeout > 0
  /\ readyBranch \in {"none", "receive", "timer"}
  /\ signalCh \in Seq(Signals)
  /\ readyBranch = "receive" => signalCh # <<>>
  /\ ctxCanceled \in BOOLEAN
  /\ sent \in Seq(Signals) /\ Len(sent) <= MaxSignals
  /\ consumed \in Seq(Signals)
  /\ window \in BOOLEAN
  /\ backlog \in BOOLEAN
  /\ results \in Seq(Results) /\ Len(results) <= MaxGates
  /\ pc = "selecting" => Len(results) < MaxGates

\* No decision is lost or used twice: what the gates received, followed by
\* what is still buffered, is exactly what was sent, in that order, even when
\* a signal and the timer are applied in the same workflow task.
SignalsConserved == sent = consumed \o signalCh

\* A gate is passed only on a human's word: an approval comes from a received
\* signal that approves, never from a timeout, a cancellation or an error.
ApprovedOnlyBySignal ==
  \A i \in 1 .. Len(results) :
    results[i].Approved =>
      \E j \in 1 .. Len(consumed) :
        consumed[j].n = results[i].by /\ consumed[j].Approved

\* A gate is reported as timed out only if its window had expired or the
\* workflow was cancelled (the caller cannot tell which, because the timer
\* callback does not look at the future's error) and no decision was waiting
\* when the gate was opened; or because the very signal it received says so.
TimedOutIsExplained ==
  \A i \in 1 .. Len(results) :
    results[i].TimedOut =>
      \/ /\ results[i].by = 0
         /\ results[i].expired \/ ctxCanceled
         /\ ~results[i].hadBacklog
      \/ \E j \in 1 .. Len(consumed) :
           consumed[j].n = results[i].by /\ consumed[j].TimedOut

\* Every gate that is opened is decided, whether or not anybody answers.
EveryGateIsDecided == pc = "selecting" ~> pc # "selecting"

-----------------------------------------------------------------------------
(* What the repository says of the gate and the code does not do.          *)

\* approval.go says in the timer's callback "Timer fired - approval window
\* expired": a gate that was left by its timer has been open for its Timeout.
TimerMeansExpired ==
  \A i \in 1 .. Len(results) :
    (results[i].TimedOut /\ results[i].by = 0) => results[i].expired
=============================================================================
