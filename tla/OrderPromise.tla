---------------------------- MODULE OrderPromise ----------------------------
(***************************************************************************)
(* What a placed order promises its customer and its shop, without the     *)
(* handlers, rows and requests that keep it: the stages of order-policy.ts,*)
(* a basket that only ever shrinks with the customer's agreement, a        *)
(* canceller who is named once, and a review of an order that arrived.     *)
(***************************************************************************)
EXTENDS OrderPolicy

CONSTANT Items

VARIABLES stage, basket, canceller, reviewed

Finished == {"DELIVERED", "CANCELLED"}

Init ==
    /\ stage = "PENDING" /\ basket = Items
    /\ canceller = "NONE" /\ reviewed = FALSE

\* The order moves to the next stage of the table, one at a time.
Advance ==
    /\ stage' \in FORWARD_TRANSITIONS[stage]
    /\ UNCHANGED <<basket, canceller, reviewed>>

\* It is cancelled by someone while it is not finished.
Cancel ==
    /\ stage \notin Finished
    /\ stage' = "CANCELLED" /\ canceller' \in Cancellers
    /\ UNCHANGED <<basket, reviewed>>

\* Its driver, assigned before it was cancelled, reports a failed delivery.
FailLate ==
    /\ stage = "CANCELLED"
    /\ canceller' = "SYSTEM"
    /\ UNCHANGED <<stage, basket, reviewed>>

\* It loses some of its lines, never all of them, while it is not finished.
Trim ==
    /\ stage \notin Finished
    /\ basket' \in (SUBSET basket) \ {{}, basket}
    /\ UNCHANGED <<stage, canceller, reviewed>>

\* It is reviewed once it has arrived, for good.
Review ==
    /\ stage = "DELIVERED" /\ ~reviewed
    /\ reviewed' = TRUE
    /\ UNCHANGED <<stage, basket, canceller>>

Next == Advance \/ Cancel \/ FailLate \/ Trim \/ Review

Spec == Init /\ [][Next]_<<stage, basket, canceller, reviewed>>
=============================================================================
