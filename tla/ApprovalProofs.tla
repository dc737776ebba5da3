--------------------------- MODULE ApprovalProofs ---------------------------
(***************************************************************************)
(* What module Approval promises, for any approvals and any number of      *)
(* gates and signals.                                                      *)
(***************************************************************************)
EXTENDS Approval, SequenceTheorems, TLAPS

\* The case that will run is consistent with what made it ready: there is a
\* signal to receive, or a timer that was resolved while no decision waited.
ReadyIsJustified ==
  /\ pc # "selecting" => readyBranch = "none"
  /\ readyBranch = "receive" => signalCh # <<>>
  /\ readyBranch = "timer" => (window \/ ctxCanceled) /\ ~backlog
  /\ (pc = "selecting" /\ backlog) => readyBranch = "receive"

IInv == TypeOK /\ ReadyIsJustified /\ SignalsConserved /\ ApprovedOnlyBySignal
          /\ TimedOutIsExplained

\* What one result must satisfy.
Genuine(r, received, canceled) ==
  /\ r.Approved =>
       \E j \in 1 .. Len(received) : received[j].n = r.by /\ received[j].Approved
  /\ r.TimedOut =>
       \/ r.by = 0 /\ (r.expired \/ canceled) /\ ~r.hadBacklog
       \/ \E j \in 1 .. Len(received) : received[j].n = r.by /\ received[j].TimedOut

\* The two properties of results, as one about each of them.
LEMMA ResultsAreGenuine ==
  (ApprovedOnlyBySignal /\ TimedOutIsExplained) <=>
    \A i \in 1 .. Len(results) : Genuine(results[i], consumed, ctxCanceled)
PROOF
  BY DEF ApprovedOnlyBySignal, TimedOutIsExplained, Genuine

\* Before the first WaitForApproval nothing was received.
LEMMA IInvInit == Init => IInv
PROOF
<1> SUFFICES ASSUME Init PROVE IInv
  OBVIOUS
<1>1. TypeOK
  <2>1. req \in Requests
    BY DEF Init, NoRequest, Requests
  <2>2. <<>> \in Seq(Signals) /\ <<>> \in Seq(Results)
    OBVIOUS
  <2>3. /\ Len(sent) <= MaxSignals
        /\ Len(results) <= MaxGates
    BY BoundsAssumption DEF Init
  <2>. QED  BY <2>1, <2>2, <2>3 DEF Init, TypeOK
<1>2. ReadyIsJustified /\ SignalsConserved
  BY DEF Init, ReadyIsJustified, SignalsConserved
<1>3. ApprovedOnlyBySignal /\ TimedOutIsExplained
  BY DEF Init, ApprovedOnlyBySignal, TimedOutIsExplained
<1>. QED  BY <1>1, <1>2, <1>3 DEF IInv

\* Appending a genuine result keeps all of them genuine, and so does receiving
\* more signals or being cancelled.
LEMMA GenuineStays ==
  ASSUME IInv, consumed' \in Seq(Signals), Len(consumed) <= Len(consumed'),
         \A j \in 1 .. Len(consumed) : consumed'[j] = consumed[j],
         ctxCanceled => ctxCanceled',
         \/ results' = results
         \/ \E r \in Results : /\ results' = Append(results, r)
                               /\ Genuine(r, consumed', ctxCanceled')
  PROVE  ApprovedOnlyBySignal' /\ TimedOutIsExplained'
PROOF
<1>1. results \in Seq(Results) /\ consumed \in Seq(Signals)
  BY DEF IInv, TypeOK
<1>2. ASSUME NEW i \in 1 .. Len(results)
      PROVE  Genuine(results[i], consumed', ctxCanceled')
  <2>1. Genuine(results[i], consumed, ctxCanceled)
    BY ResultsAreGenuine DEF IInv
  <2>2. Len(consumed) \in Nat /\ Len(consumed') \in Nat
    BY <1>1
  <2>3. \A j \in 1 .. Len(consumed) : j \in 1 .. Len(consumed')
    BY <2>2
  <2>. QED  BY <2>1, <2>3 DEF Genuine
<1>3. CASE results' = results
  BY <1>2, <1>3 DEF ApprovedOnlyBySignal, TimedOutIsExplained, Genuine
<1>4. ASSUME NEW r \in Results, results' = Append(results, r),
             Genuine(r, consumed', ctxCanceled')
      PROVE  ApprovedOnlyBySignal' /\ TimedOutIsExplained'
  <2>1. \A i \in 1 .. Len(results') :
          results'[i] = r \/ (i \in 1 .. Len(results) /\ results'[i] = results[i])
    BY <1>1, <1>4
  <2>2. \A i \in 1 .. Len(results') : Genuine(results'[i], consumed', ctxCanceled')
    BY <1>2, <1>4, <2>1
  <2>. QED  BY <2>2 DEF ApprovedOnlyBySignal, TimedOutIsExplained, Genuine
<1>. QED  BY <1>3, <1>4

\* A signal that arrives goes to the end of all signals.
LEMMA ConcatAppend ==
  ASSUME NEW S, NEW s \in Seq(S), NEW t \in Seq(S), NEW e \in S
  PROVE  s \o Append(t, e) = Append(s \o t, e)
PROOF
  OBVIOUS

\* Receiving moves a signal from the channel to what was consumed.
LEMMA ConcatMove ==
  ASSUME NEW S, NEW s \in Seq(S), NEW t \in Seq(S), t # <<>>
  PROVE  /\ Append(s, Head(t)) \o Tail(t) = s \o t
         /\ Append(s, Head(t)) \in Seq(S) /\ Tail(t) \in Seq(S) /\ Head(t) \in S
PROOF
  OBVIOUS

\* Signals, timers, cancellation and the Selector keep every result explained.
LEMMA IInvStep == IInv /\ [Next]_vars => IInv'
PROOF
<1> SUFFICES ASSUME IInv, [Next]_vars PROVE IInv'
  OBVIOUS
<1> USE BoundsAssumption
<1>t. TypeOK /\ ReadyIsJustified /\ SignalsConserved
  BY DEF IInv
<1>1. ASSUME NEW r \in Requests, RejectRequest(r) PROVE IInv'
  <2> DEFINE res == [ApprovalID |-> r.ApprovalID, Approved |-> FALSE, TimedOut |-> FALSE,
                     err |-> TRUE, by |-> 0, expired |-> FALSE, hadBacklog |-> FALSE]
  <2>1. res \in Results
    BY DEF Results, Requests
  <2>2. Genuine(res, consumed', ctxCanceled')
    BY DEF Genuine
  <2>3. /\ results' = Append(results, res) /\ Len(results) < MaxGates /\ pc = "running"
        /\ UNCHANGED <<pc, req, readyBranch, signalCh, ctxCanceled, sent, consumed,
                       window, backlog>>
    BY <1>1 DEF RejectRequest
  <2>4. results' \in Seq(Results) /\ Len(results') <= MaxGates
    BY <1>t, <2>1, <2>3 DEF TypeOK
  <2>5. TypeOK'
    BY <1>t, <2>3, <2>4 DEF TypeOK
  <2>6. ReadyIsJustified' /\ SignalsConserved'
    BY <1>t, <2>3 DEF ReadyIsJustified, SignalsConserved
  <2>7. ApprovedOnlyBySignal' /\ TimedOutIsExplained'
    BY <1>t, <2>1, <2>2, <2>3, GenuineStays DEF TypeOK
  <2>. QED  BY <2>5, <2>6, <2>7 DEF IInv
<1>2. ASSUME NEW r \in Requests, WaitForApproval(r) PROVE IInv'
  <2>1. TypeOK'
    BY <1>t, <1>2 DEF WaitForApproval, TypeOK, ReadyAtOnce
  <2>2. ReadyIsJustified'
    BY <1>t, <1>2 DEF WaitForApproval, ReadyIsJustified, ReadyAtOnce
  <2>3. SignalsConserved'
    BY <1>t, <1>2 DEF WaitForApproval, SignalsConserved
  <2>4. ApprovedOnlyBySignal' /\ TimedOutIsExplained'
    BY <1>t, <1>2, GenuineStays DEF WaitForApproval, TypeOK
  <2>. QED  BY <2>1, <2>2, <2>3, <2>4 DEF IInv
<1>3. ASSUME NEW approved \in BOOLEAN, NEW timedOut \in BOOLEAN,
             SignalWorkflow(approved, timedOut)
      PROVE  IInv'
  <2> DEFINE m == [Approved |-> approved, TimedOut |-> timedOut, n |-> Len(sent) + 1]
  <2>1. Len(sent) + 1 \in 1 .. MaxSignals
    BY <1>t, <1>3 DEF SignalWorkflow, TypeOK
  <2>2. m \in Signals
    BY <2>1 DEF Signals
  <2>3. /\ sent' = Append(sent, m) /\ signalCh' = Append(signalCh, m)
        /\ Unblock("receive")
        /\ UNCHANGED <<pc, req, ctxCanceled, consumed, window, backlog, results>>
    BY <1>3 DEF SignalWorkflow
  <2> HIDE DEF m
  <2>s. /\ sent \in Seq(Signals) /\ signalCh \in Seq(Signals) /\ consumed \in Seq(Signals)
        /\ Len(sent) < MaxSignals
    BY <1>t, <1>3 DEF TypeOK, SignalWorkflow
  <2>4. /\ sent' \in Seq(Signals) /\ signalCh' \in Seq(Signals) /\ signalCh' # <<>>
        /\ Len(sent') <= MaxSignals
    BY <2>2, <2>3, <2>s
  <2>5. TypeOK'
    BY <1>t, <2>3, <2>4 DEF TypeOK, Unblock
  <2>6. ReadyIsJustified'
    BY <1>t, <2>3, <2>4 DEF ReadyIsJustified, Unblock
  <2>7. SignalsConserved'
    <3>1. consumed \o Append(signalCh, m) = Append(consumed \o signalCh, m)
      BY <2>2, <2>s, ConcatAppend
    <3>2. sent = consumed \o signalCh
      BY <1>t DEF SignalsConserved
    <3>. QED  BY <2>3, <3>1, <3>2 DEF SignalsConserved
  <2>8. ApprovedOnlyBySignal' /\ TimedOutIsExplained'
    BY <1>t, <2>3, GenuineStays DEF TypeOK
  <2>. QED  BY <2>5, <2>6, <2>7, <2>8 DEF IInv
<1>4. CASE TimerFires
  <2>1. TypeOK'
    BY <1>t, <1>4 DEF TimerFires, TypeOK, Unblock
  <2>2. ReadyIsJustified'
    BY <1>t, <1>4 DEF TimerFires, ReadyIsJustified, Unblock
  <2>3. SignalsConserved'
    BY <1>t, <1>4 DEF TimerFires, SignalsConserved
  <2>4. ApprovedOnlyBySignal' /\ TimedOutIsExplained'
    BY <1>t, <1>4, GenuineStays DEF TimerFires, TypeOK
  <2>. QED  BY <2>1, <2>2, <2>3, <2>4 DEF IInv
<1>5. CASE CancelWorkflow
  <2>1. TypeOK'
    BY <1>t, <1>5 DEF CancelWorkflow, TypeOK, Unblock
  <2>2. ReadyIsJustified'
    BY <1>t, <1>5 DEF CancelWorkflow, ReadyIsJustified, Unblock
  <2>3. SignalsConserved'
    BY <1>t, <1>5 DEF CancelWorkflow, SignalsConserved
  <2>4. ApprovedOnlyBySignal' /\ TimedOutIsExplained'
    BY <1>t, <1>5, GenuineStays DEF CancelWorkflow, TypeOK
  <2>. QED  BY <2>1, <2>2, <2>3, <2>4 DEF IInv
<1>6. CASE SelectReturns
  <2>1. /\ pc = "selecting" /\ pc' = "running" /\ req' = NoRequest
        /\ readyBranch' = "none" /\ window' = FALSE /\ backlog' = FALSE
        /\ UNCHANGED <<ctxCanceled, sent>>
    BY <1>6 DEF SelectReturns
  <2>2. req' \in Requests
    BY <2>1 DEF NoRequest, Requests
  <2>3. ReadyIsJustified'
    BY <2>1 DEF ReadyIsJustified
  <2>4. Len(results) < MaxGates
    BY <1>t, <2>1 DEF TypeOK
  <2>5. CASE readyBranch = "receive"
    <3> DEFINE m == Head(signalCh)
    <3>1. consumed' = Append(consumed, m) /\ signalCh' = Tail(signalCh)
          /\ results' = Append(results, SignalResult(m))
      BY <1>6, <2>5 DEF SelectReturns, Receive
    <3>2. signalCh \in Seq(Signals) /\ consumed \in Seq(Signals) /\ signalCh # <<>>
      BY <1>t, <2>5 DEF ReadyIsJustified, TypeOK
    <3>3. /\ m \in Signals
          /\ consumed' \in Seq(Signals) /\ signalCh' \in Seq(Signals)
          /\ consumed' \o signalCh' = consumed \o signalCh
      BY <3>1, <3>2, ConcatMove
    <3> HIDE DEF m
    <3>4. SignalResult(m) \in Results
      BY <1>t, <3>3 DEF SignalResult, Results, Signals, TypeOK, Requests
    <3>5. Len(consumed') = Len(consumed) + 1 /\ consumed'[Len(consumed')] = m
          /\ \A j \in 1 .. Len(consumed) : consumed'[j] = consumed[j]
      BY <3>1, <3>2, <3>3
    <3>6. Genuine(SignalResult(m), consumed', ctxCanceled')
      <4>1. Len(consumed') \in 1 .. Len(consumed')
        BY <3>2, <3>5
      <4>. QED  BY <3>5, <4>1 DEF Genuine, SignalResult
    <3>7. results' \in Seq(Results) /\ Len(results') <= MaxGates
      BY <1>t, <2>4, <3>1, <3>4 DEF TypeOK
    <3>8. TypeOK'
      BY <1>t, <2>1, <2>2, <3>3, <3>7 DEF TypeOK
    <3>9. SignalsConserved'
      BY <1>t, <2>1, <3>3 DEF SignalsConserved
    <3>10. ApprovedOnlyBySignal' /\ TimedOutIsExplained'
      <4>1. Len(consumed) <= Len(consumed')
        BY <3>2, <3>5
      <4>. QED  BY <2>1, <3>1, <3>3, <3>4, <3>5, <3>6, <4>1, GenuineStays
    <3>. QED  BY <2>3, <3>8, <3>9, <3>10 DEF IInv
  <2>6. CASE readyBranch = "timer"
    <3>1. results' = Append(results, TimeoutResult) /\ UNCHANGED <<signalCh, consumed>>
      BY <1>6, <2>6 DEF SelectReturns
    <3>2. TimeoutResult \in Results
      BY <1>t DEF TimeoutResult, Results, TypeOK, Requests
    <3>3. Genuine(TimeoutResult, consumed', ctxCanceled')
      BY <1>t, <2>1, <2>6 DEF Genuine, TimeoutResult, ReadyIsJustified
    <3>4. results' \in Seq(Results) /\ Len(results') <= MaxGates
      BY <1>t, <2>4, <3>1, <3>2 DEF TypeOK
    <3>5. TypeOK'
      BY <1>t, <2>1, <2>2, <3>1, <3>4 DEF TypeOK
    <3>6. SignalsConserved'
      BY <1>t, <2>1, <3>1 DEF SignalsConserved
    <3>7. ApprovedOnlyBySignal' /\ TimedOutIsExplained'
      BY <1>t, <2>1, <3>1, <3>2, <3>3, GenuineStays DEF TypeOK
    <3>. QED  BY <2>3, <3>5, <3>6, <3>7 DEF IInv
  <2>. QED  BY <1>6, <2>5, <2>6 DEF SelectReturns
<1>7. CASE CloseWorkflow
  <2>1. TypeOK' /\ ReadyIsJustified' /\ SignalsConserved'
    BY <1>t, <1>7 DEF CloseWorkflow, TypeOK, ReadyIsJustified, SignalsConserved
  <2>2. ApprovedOnlyBySignal' /\ TimedOutIsExplained'
    BY <1>t, <1>7, GenuineStays DEF CloseWorkflow, TypeOK
  <2>. QED  BY <2>1, <2>2 DEF IInv
<1>8. CASE UNCHANGED vars
  <2>1. TypeOK' /\ ReadyIsJustified' /\ SignalsConserved'
    BY <1>t, <1>8 DEF vars, TypeOK, ReadyIsJustified, SignalsConserved
  <2>2. ApprovedOnlyBySignal' /\ TimedOutIsExplained'
    BY <1>t, <1>8, GenuineStays DEF vars, TypeOK
  <2>. QED  BY <2>1, <2>2 DEF IInv
<1>. QED  BY <1>1, <1>2, <1>3, <1>4, <1>5, <1>6, <1>7, <1>8 DEF Next

\* In every reachable state the case a Selector will run was put there by an
\* event, and no signal is lost on its way through the channel: the inductive
\* invariant of WaitForApproval.
THEOREM ApprovalIInv == Spec => []IInv
PROOF
  BY IInvInit, IInvStep, PTL DEF Spec

\* No decision sent to an execution is lost, used twice or reordered by its
\* gates, for any number of gates and signals: the one channel of approval.go.
THEOREM ApprovalSignalsConserved == Spec => []SignalsConserved
PROOF
<1>1. IInv => SignalsConserved
  BY DEF IInv
<1>. QED  BY ApprovalIInv, <1>1, PTL

\* WaitForApproval reports an approval only for a received signal that approves.
THEOREM ApprovalOnlyBySignal == Spec => []ApprovedOnlyBySignal
PROOF
<1>1. IInv => ApprovedOnlyBySignal
  BY DEF IInv
<1>. QED  BY ApprovalIInv, <1>1, PTL

\* WaitForApproval reports a timeout only for an expired window or a cancelled
\* workflow with no decision waiting as the gate was opened, or because the
\* payload of the signal it received says so.
THEOREM ApprovalTimedOutIsExplained == Spec => []TimedOutIsExplained
PROOF
<1>1. IInv => TimedOutIsExplained
  BY DEF IInv
<1>. QED  BY ApprovalIInv, <1>1, PTL
=============================================================================
