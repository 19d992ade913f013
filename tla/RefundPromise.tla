--------------------------- MODULE RefundPromise ----------------------------
(***************************************************************************)
(* What the refund pipeline promises for one approved case, seen from      *)
(* outside: the money moves at most once, the case is refunded only after  *)
(* it moved, and a refunded case stays so.  Until then the case is either  *)
(* left to the workers (refund_pending), doubtful (refund_unknown) or on   *)
(* the finance desk (needs_reconciliation).                                *)
(***************************************************************************)
EXTENDS Naturals, ReturnStates

VARIABLES
    payments,  \* how many times the provider has executed the refund
    status     \* the status of the case

promise == <<payments, status>>

PromiseInit == payments = 0 /\ status = "refund_pending"

Pay == payments = 0 /\ payments' = 1 /\ UNCHANGED status

Confirm ==
    /\ payments = 1
    /\ status \in Unsettled
    /\ status' = "refunded"
    /\ UNCHANGED payments

Suspect == status = "refund_pending" /\ status' = "refund_unknown" /\ UNCHANGED payments

Escalate == status \in Doubtful /\ status' = "needs_reconciliation" /\ UNCHANGED payments

Retry == status = "needs_reconciliation" /\ status' = "refund_pending" /\ UNCHANGED payments

PromiseNext == Pay \/ Confirm \/ Suspect \/ Escalate \/ Retry

PromiseSpec == PromiseInit /\ [][PromiseNext]_promise
=============================================================================
