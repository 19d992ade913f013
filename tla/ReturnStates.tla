---------------------------- MODULE ReturnStates ----------------------------
(***************************************************************************)
(* The pure domain tables of domain/states.py: the statuses of a return    *)
(* case and of its refund attempt, the declared state machine, and the     *)
(* roles that may ask for each target.  Nothing here has state.            *)
(***************************************************************************)

EXTENDS Naturals

RefundAttemptStatus ==
    {"planned", "dispatching", "succeeded", "failed", "unknown"}

ReturnStatus ==
    {"requested", "authorized", "received", "inspected", "refund_approved",
     "refund_pending", "refund_unknown", "needs_reconciliation", "refunded",
     "reconciled", "closed", "rejected"}

\* The targets declared for each status.
TRANSITIONS ==
    [s \in ReturnStatus |->
        CASE s = "requested"            -> {"authorized", "rejected"}
          [] s = "authorized"           -> {"received"}
          [] s = "received"             -> {"inspected"}
          [] s = "inspected"            -> {"refund_approved", "rejected"}
          [] s = "refund_approved"      -> {"refund_pending"}
          [] s = "refund_pending"       -> {"refunded", "refund_unknown",
                                            "needs_reconciliation"}
          [] s = "refund_unknown"       -> {"refunded", "needs_reconciliation"}
          [] s = "needs_reconciliation" -> {"refunded", "refund_pending"}
          [] s = "refunded"             -> {"reconciled"}
          [] s = "reconciled"           -> {"closed"}
          [] s \in {"closed", "rejected"} -> {}]

\* The targets only the system may ask for.
SYSTEM_TARGETS ==
    {"refund_pending", "refund_unknown", "needs_reconciliation", "refunded"}

Role == {"customer_service", "warehouse", "finance", "admin", "automation"}

\* The roles that may ask for a target owned by people.
ROLE_BY_TARGET ==
    [s \in ReturnStatus |->
        CASE s = "authorized"                 -> {"customer_service", "admin"}
          [] s \in {"received", "inspected"}  -> {"warehouse", "admin"}
          [] s \in {"refund_approved", "reconciled", "closed"} -> {"finance", "admin"}
          [] s = "rejected" -> {"customer_service", "finance", "admin"}
          [] OTHER          -> {}]

\* The amounts a refund may be approved for.
AssertApprovedAmount(requested, approved) == 0 < approved /\ approved <= requested

\* The statuses from which provider evidence settles the refund.
Unsettled == {"refund_pending", "refund_unknown", "needs_reconciliation"}

\* The statuses a failed or doubtful dispatch leaves for the finance desk.
Doubtful == {"refund_pending", "refund_unknown"}
=============================================================================
