--------------------------- MODULE OperatorViews ---------------------------
(***************************************************************************)
(* The attention list of the overview (services/operator_queries.py): the  *)
(* cases of an organization whose next action belongs to people, the one   *)
(* updated longest ago first, cut to a limit.  There is no second page, so *)
(* that the order decides which cases are ever seen.                       *)
(*                                                                         *)
(* The cases move as CaseLifecycle and RefundPipeline have them move; what *)
(* matters here is that each write of a case renews its updated_at.        *)
(***************************************************************************)
EXTENDS Naturals, FiniteSetsExt, TLC, ReturnStates

CONSTANTS
    Cases,
    AttentionLimit   \* the limit asked for

ASSUME LimitAssumption == AttentionLimit \in Nat

VARIABLES
    rows,     \* return_cases
    older,    \* by case: the rows whose updated_at is before its own
    status,   \* by case: the status of its row
    half      \* the ones with the first of two approvals

vars == <<rows, older, status, half>>

\* Rows keep their types.
TypeOK ==
    /\ rows \in SUBSET Cases
    /\ older \in [Cases -> SUBSET Cases]
    /\ status \in [Cases -> ReturnStatus]
    /\ half \in SUBSET Cases

Init ==
    /\ rows = {}
    /\ older = [c \in Cases |-> {}]
    /\ status = [c \in Cases |-> "requested"]
    /\ half = {}

-----------------------------------------------------------------------------
(***************************************************************************)
(* The query.                                                              *)
(***************************************************************************)
Limit == Max({1, Min({AttentionLimit, 50})})

\* The statuses somebody owns the next action of.
ATTENTION_OWNER_BY_STATUS ==
    [s \in {"requested"} |-> "customer_service"]
      @@ [s \in {"authorized", "received"} |-> "warehouse"]
      @@ [s \in {"inspected", "refund_unknown", "needs_reconciliation", "refunded",
                 "reconciled"} |-> "finance"]

NeedsAttention(c) == c \in rows /\ status[c] \in DOMAIN ATTENTION_OWNER_BY_STATUS

Waiting == {c \in rows : NeedsAttention(c)}

\* Mutated form: the case updated last comes first.
attention_itemsNewest == {c \in Waiting : Cardinality({d \in Waiting : c \in older[d]}) < Limit}

\* The cases of which the list has room for those that come before them.
attention_items == {c \in Waiting : Cardinality(older[c] \cap Waiting) < Limit}

-----------------------------------------------------------------------------
(***************************************************************************)
(* The cases.                                                              *)
(***************************************************************************)
\* updated_at is renewed by each write.
Touch(c) ==
    /\ rows' = rows \cup {c}
    /\ older' = [d \in Cases |-> IF d = c THEN rows \ {c} ELSE older[d] \ {c}]

Create(c) ==
    /\ c \notin rows
    /\ Touch(c)
    /\ UNCHANGED <<status, half>>

\* A transition; an approval that plans the refund makes two in one commit.
MoveTo(c, to) ==
    /\ Touch(c)
    /\ status' = [status EXCEPT ![c] = to]
    /\ UNCHANGED half

Move(c) ==
    \E to \in TRANSITIONS[status[c]] :
        MoveTo(c, IF to = "refund_approved" THEN "refund_pending" ELSE to)

\* The first of two approvals renews the row and leaves the status.
HalfApprove(c) ==
    /\ c \in rows \ half /\ status[c] = "inspected"
    /\ Touch(c)
    /\ half' = half \cup {c}
    /\ UNCHANGED status

\* Whoever owns the next action of a case takes it.
Handle(c) == NeedsAttention(c) /\ Move(c)

\* Workers, webhooks and the provider settle a pending refund or give it up.
Settle(c) == c \in rows /\ status[c] = "refund_pending" /\ Move(c)

Next == \E c \in Cases : Create(c) \/ Handle(c) \/ HalfApprove(c) \/ Settle(c)

Spec == Init /\ [][Next]_vars

HandleFirst == \E c \in attention_items : older[c] \cap attention_items = {} /\ Handle(c)

\* Operators work the attention list from its head, and can.  Nothing is assumed
\* of the pending refunds, nor that other cases ever stop coming and going.
AttendedSpec == Spec /\ WF_vars(HandleFirst)

-----------------------------------------------------------------------------
(***************************************************************************)
(* Properties.                                                             *)
(***************************************************************************)

\* A case that is shown to its owner stays in the list until somebody writes it,
\* however many other cases are opened, moved or handled.
ListedUntilHandled ==
    [][\A c \in attention_items :
         c \in attention_items' \/ status'[c] # status[c] \/ (c \in half' /\ c \notin half)]_vars

\* Every case that waits for people is brought to where none is needed, although
\* the list shows a few cases only and other refunds may go back and forth
\* between finance and the workers for ever.
EveryCaseIsReached ==
    \A c \in Cases : NeedsAttention(c) ~> ~NeedsAttention(c)
=============================================================================
