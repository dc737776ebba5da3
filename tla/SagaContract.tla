---------------------------- MODULE SagaContract ----------------------------
(***************************************************************************)
(* What workflow/saga.go promises its caller, without cancellation,        *)
(* activities or the dead-letter queue: a saga either keeps every step it  *)
(* registered, or settles them one at a time, last registered first, each  *)
(* exactly once.  A step is settled when its compensation succeeded        *)
(* ("undone") or when its permanent failure was reported ("escalated").    *)
(***************************************************************************)
EXTENDS Integers

CONSTANT MaxSteps  \* bound on the steps one saga registers

VARIABLES
  phase,       \* how far the workflow that owns the saga has come
  registered,  \* how many steps have registered a compensation
  settled      \* what became of the step at each (0-based) index

contractVars == <<phase, registered, settled>>

Phases == {"running", "committed", "rollingBack", "rolledBack", "terminated"}

Init ==
  /\ phase = "running"
  /\ registered = 0
  /\ settled = [k \in 0 .. MaxSteps - 1 |-> "none"]

Register ==
  /\ phase = "running"
  /\ registered < MaxSteps
  /\ registered' = registered + 1
  /\ UNCHANGED <<phase, settled>>

\* The workflow function returns: with its steps kept, or rolling them back.
Return ==
  /\ phase = "running"
  /\ phase' \in IF registered = 0 THEN {"committed", "rolledBack"}
                                  ELSE {"committed", "rollingBack"}
  /\ UNCHANGED <<registered, settled>>

\* The last registered step that is not settled yet, and no other, may settle.
Settle(k) ==
  /\ phase = "rollingBack"
  /\ k \in 0 .. registered - 1
  /\ settled[k] = "none"
  /\ \A j \in k + 1 .. registered - 1 : settled[j] # "none"
  /\ \E v \in {"undone", "escalated"} : settled' = [settled EXCEPT ![k] = v]
  /\ phase' \in IF k = 0 THEN {"rollingBack", "rolledBack"} ELSE {"rollingBack"}
  /\ UNCHANGED registered

Finish ==
  /\ phase = "rollingBack"
  /\ \A k \in 0 .. registered - 1 : settled[k] # "none"
  /\ phase' = "rolledBack"
  /\ UNCHANGED <<registered, settled>>

\* The Temporal server may terminate an open execution at any moment.
Terminate ==
  /\ phase \in {"running", "rollingBack"}
  /\ phase' = "terminated"
  /\ UNCHANGED <<registered, settled>>

Next ==
  \/ Register
  \/ Return
  \/ \E k \in 0 .. MaxSteps - 1 : Settle(k)
  \/ Finish
  \/ Terminate

Spec == Init /\ [][Next]_contractVars
=============================================================================
