------------------------ MODULE OperatorViewsProofs -------------------------
(***************************************************************************)
(* What the attention list guarantees for any number of cases and every    *)
(* limit, proved with TLAPS.                                               *)
(***************************************************************************)
EXTENDS OperatorViews, FiniteSetTheorems, TLAPS

-----------------------------------------------------------------------------
(***************************************************************************)
(* The inductive invariant.                                                *)
(***************************************************************************)

\* The order of updated_at is one: it relates the rows, any two of them, none to
\* itself, and it is transitive.
Ordered ==
    /\ \A c \in Cases : older[c] \subseteq rows \ {c}
    /\ \A c, d \in rows : c = d \/ c \in older[d] \/ d \in older[c]
    /\ \A c, d \in rows : c \in older[d] => older[c] \subseteq older[d]

ViewInv == TypeOK /\ IsFiniteSet(rows) /\ Ordered

LEMMA DeclaredMoves ==
    \A s \in ReturnStatus : TRANSITIONS[s] \subseteq ReturnStatus /\ s \notin TRANSITIONS[s]
BY DEF TRANSITIONS, ReturnStatus

\* A write puts the row at the end of the order and leaves the others.
LEMMA TouchOrders ==
    ASSUME ViewInv, NEW c \in Cases, Touch(c)
    PROVE  /\ rows' \in SUBSET Cases /\ older' \in [Cases -> SUBSET Cases]
           /\ IsFiniteSet(rows') /\ Ordered'
<1>1. rows \in SUBSET Cases /\ older \in [Cases -> SUBSET Cases] /\ IsFiniteSet(rows)
  BY DEF ViewInv, TypeOK
<1>2. rows' = rows \cup {c} /\ \A d \in Cases : older'[d] = IF d = c THEN rows \ {c} ELSE older[d] \ {c}
  BY DEF Touch
<1>3. rows' \in SUBSET Cases /\ older' \in [Cases -> SUBSET Cases]
  BY <1>1 DEF Touch
<1>4. IsFiniteSet(rows')
  <2>1. IsFiniteSet(rows \cup {c})
    BY <1>1, FS_AddElement
  <2> QED BY <1>2, <2>1
<1>5. ASSUME NEW x \in Cases PROVE older'[x] \subseteq rows' \ {x}
  <2>1. older[x] \subseteq rows \ {x}
    BY DEF ViewInv, Ordered
  <2>2. CASE x = c
    BY <1>2, <2>2
  <2>3. CASE x # c
    BY <1>2, <2>1, <2>3
  <2> QED BY <2>2, <2>3
<1>6. ASSUME NEW x \in rows', NEW y \in rows', x # y
      PROVE  x \in older'[y] \/ y \in older'[x]
  <2>1. x \in Cases /\ y \in Cases
    BY <1>3
  <2>2. CASE y = c
    BY <1>2, <1>6, <2>1, <2>2
  <2>3. CASE x = c
    BY <1>2, <1>6, <2>1, <2>3
  <2>4. CASE x # c /\ y # c
    <3>1. x \in rows /\ y \in rows
      BY <1>2, <2>4
    <3>2. x \in older[y] \/ y \in older[x]
      BY <1>6, <3>1 DEF ViewInv, Ordered
    <3> QED BY <1>2, <2>1, <2>4, <3>2
  <2> QED BY <2>2, <2>3, <2>4
<1>7. ASSUME NEW x \in rows', NEW y \in rows', x \in older'[y] PROVE older'[x] \subseteq older'[y]
  <2>1. x \in Cases /\ y \in Cases /\ x # c
    BY <1>2, <1>3, <1>7
  <2>2. x \in rows /\ older'[x] = older[x] \ {c} /\ older[x] \subseteq rows
    BY <1>2, <2>1 DEF ViewInv, Ordered
  <2>3. CASE y = c
    BY <1>2, <2>1, <2>2, <2>3
  <2>4. CASE y # c
    <3>1. y \in rows /\ older'[y] = older[y] \ {c}
      BY <1>2, <2>1, <2>4
    <3>2. older[x] \subseteq older[y]
      BY <1>7, <2>2, <3>1 DEF ViewInv, Ordered
    <3> QED BY <2>2, <3>1, <3>2
  <2> QED BY <2>3, <2>4
<1> QED BY <1>3, <1>4, <1>5, <1>6, <1>7 DEF Ordered

\* A transition changes the status of the case, and of no other.
LEMMA MoveFacts ==
    ASSUME ViewInv, NEW c \in Cases, Move(c)
    PROVE  /\ Touch(c) /\ UNCHANGED half
           /\ status' \in [Cases -> ReturnStatus] /\ status'[c] # status[c]
           /\ \A d \in Cases : d # c => status'[d] = status[d]
<1>1. PICK to \in TRANSITIONS[status[c]] :
          MoveTo(c, IF to = "refund_approved" THEN "refund_pending" ELSE to)
  BY DEF Move
<1>2. status \in [Cases -> ReturnStatus]
  BY DEF ViewInv, TypeOK
<1>3. PICK next : next = IF to = "refund_approved" THEN "refund_pending" ELSE to
  OBVIOUS
<1>4. next \in ReturnStatus /\ next # status[c]
  <2>1. to \in ReturnStatus /\ to # status[c]
    BY <1>1, <1>2, DeclaredMoves
  <2>2. to = "refund_approved" => status[c] = "inspected"
    BY <1>1, <1>2 DEF TRANSITIONS, ReturnStatus
  <2> QED BY <1>3, <2>1, <2>2 DEF ReturnStatus
<1>5. /\ Touch(c) /\ status' = [status EXCEPT ![c] = next] /\ UNCHANGED half
  BY <1>1, <1>3 DEF MoveTo
<1> QED BY <1>2, <1>4, <1>5

LEMMA InitView == Init => ViewInv
<1> SUFFICES ASSUME Init PROVE ViewInv
  OBVIOUS
<1>1. IsFiniteSet(rows)
  BY FS_EmptySet DEF Init
<1>2. "requested" \in ReturnStatus
  BY DEF ReturnStatus
<1> QED BY <1>1, <1>2 DEF Init, ViewInv, TypeOK, Ordered

\* Each action is a write of one case.
LEMMA Writes ==
    ASSUME ViewInv, NEW c \in Cases, Create(c) \/ Handle(c) \/ HalfApprove(c) \/ Settle(c)
    PROVE  /\ Touch(c) /\ status' \in [Cases -> ReturnStatus] /\ half' \in SUBSET Cases
           /\ \A d \in Cases : d # c => status'[d] = status[d]
           /\ c \in rows => status'[c] # status[c] \/ (c \in half' /\ c \notin half)
<1>1. status \in [Cases -> ReturnStatus] /\ half \in SUBSET Cases
  BY DEF ViewInv, TypeOK
<1>2. CASE Create(c)
  BY <1>1, <1>2 DEF Create
<1>3. CASE Handle(c) \/ Settle(c)
  <2>1. Move(c)
    BY <1>3 DEF Handle, Settle
  <2> QED BY <1>1, <2>1, MoveFacts
<1>4. CASE HalfApprove(c)
  BY <1>1, <1>4 DEF HalfApprove
<1> QED BY <1>2, <1>3, <1>4

LEMMA NextView == ViewInv /\ [Next]_vars => ViewInv'
<1> SUFFICES ASSUME ViewInv, [Next]_vars PROVE ViewInv'
  OBVIOUS
<1>1. ASSUME NEW c \in Cases, Create(c) \/ Handle(c) \/ HalfApprove(c) \/ Settle(c)
      PROVE  ViewInv'
  BY <1>1, Writes, TouchOrders DEF ViewInv, TypeOK
<1>2. CASE UNCHANGED vars
  BY <1>2 DEF vars, ViewInv, TypeOK, Ordered
<1> QED BY <1>1, <1>2 DEF Next

\* The rows are in the order of their last writes, whoever writes them.
THEOREM RowsStayOrdered == Spec => []ViewInv
BY InitView, NextView, PTL DEF Spec

-----------------------------------------------------------------------------
(***************************************************************************)
(* The list.                                                               *)
(***************************************************************************)
LEMMA LimitType == Limit \in Nat
<1>1. AttentionLimit \in Nat
  BY LimitAssumption
<1>2. PICK m : m = Min({AttentionLimit, 50})
  OBVIOUS
<1>3. m \in Nat
  <2>1. \E x \in {AttentionLimit, 50} : \A y \in {AttentionLimit, 50} : x <= y
    BY <1>1
  <2> QED BY <1>1, <1>2, <2>1 DEF Min
<1>4. \E x \in {1, m} : \A y \in {1, m} : x >= y
  BY <1>3
<1> QED BY <1>2, <1>3, <1>4 DEF Limit, Max

\* What comes before a row that is not written only gets less.
LEMMA RowsAhead ==
    ASSUME ViewInv, NEW c \in rows, NEW d \in Cases, d # c, Touch(d),
           \A x \in Cases : x # d => status'[x] = status[x]
    PROVE  older'[c] \cap Waiting' \subseteq older[c] \cap Waiting
<1>1. /\ rows \in SUBSET Cases /\ rows' = rows \cup {d}
      /\ older'[c] = older[c] \ {d}
  BY DEF ViewInv, TypeOK, Touch
<1>2. ASSUME NEW x \in older'[c] \cap Waiting' PROVE x \in older[c] \cap Waiting
  <2>1. x \in older[c] /\ x # d /\ x \in rows' /\ NeedsAttention(x)'
    BY <1>1, <1>2 DEF Waiting
  <2>2. x \in rows /\ x \in Cases
    BY <1>1, <2>1
  <2>3. status'[x] = status[x]
    BY <2>1, <2>2
  <2>4. NeedsAttention(x)
    BY <2>1, <2>2, <2>3 DEF NeedsAttention, ATTENTION_OWNER_BY_STATUS
  <2> QED BY <2>1, <2>2, <2>4 DEF Waiting
<1> QED BY <1>2

LEMMA ItemStays ==
    ASSUME ViewInv, NEW c \in attention_items, NEW d \in Cases, d # c, Touch(d),
           \A x \in Cases : x # d => status'[x] = status[x]
    PROVE  c \in attention_items'
<1>1. c \in rows /\ c \in Cases /\ NeedsAttention(c) /\ Cardinality(older[c] \cap Waiting) < Limit
  BY DEF attention_items, Waiting, ViewInv, TypeOK
<1>2. c \in Waiting'
  BY <1>1 DEF Waiting, NeedsAttention, Touch, ATTENTION_OWNER_BY_STATUS
<1>3. PICK before, after : before = older[c] \cap Waiting /\ after = older'[c] \cap Waiting'
  OBVIOUS
<1>4. after \subseteq before
  BY <1>1, <1>3, RowsAhead
<1>5. IsFiniteSet(before)
  <2>1. before \in SUBSET rows
    BY <1>3 DEF Waiting
  <2> QED BY <2>1, FS_Subset DEF ViewInv
<1>6. /\ IsFiniteSet(after) /\ Cardinality(after) <= Cardinality(before)
      /\ Cardinality(after) \in Nat /\ Cardinality(before) \in Nat
  BY <1>4, <1>5, FS_Subset, FS_CardinalityType
<1>7. Cardinality(after) < Limit
  BY <1>1, <1>3, <1>6, LimitType
<1>8. Limit' = Limit
  BY DEF Limit
<1> QED BY <1>2, <1>3, <1>7, <1>8 DEF attention_items

Stand ==
    \A c \in attention_items :
        c \in attention_items' \/ status'[c] # status[c] \/ (c \in half' /\ c \notin half)

LEMMA NextStand == ViewInv /\ [Next]_vars => [Stand]_vars
<1> SUFFICES ASSUME ViewInv, Next PROVE Stand
  OBVIOUS
<1>1. PICK d \in Cases : Create(d) \/ Handle(d) \/ HalfApprove(d) \/ Settle(d)
  BY DEF Next
<1>2. ASSUME NEW c \in attention_items
      PROVE  c \in attention_items' \/ status'[c] # status[c] \/ (c \in half' /\ c \notin half)
  <2>1. c \in rows
    BY DEF attention_items, Waiting
  <2> QED BY <1>1, <2>1, Writes, ItemStays
<1> QED BY <1>2 DEF Stand

\* No write of other cases takes a case from the list before its owner has acted:
\* what is shown stays shown, for every limit and every number of cases.
THEOREM ListStands == Spec => ListedUntilHandled
<1>1. ViewInv /\ [Next]_vars => [\A c \in attention_items :
          c \in attention_items' \/ status'[c] # status[c] \/ (c \in half' /\ c \notin half)]_vars
  BY NextStand DEF Stand
<1> QED BY <1>1, RowsStayOrdered, PTL DEF Spec, ListedUntilHandled

\* No case that waits less long than another takes its place in the list.
NoneOvertakes == \A c \in attention_items : older[c] \cap Waiting \subseteq attention_items

\* The list is the beginning of the queue: what waits longer than a case that is
\* shown by attention_items is shown too, for every limit.
THEOREM ListIsFirst == Spec => []NoneOvertakes
<1>1. ViewInv => NoneOvertakes
  <2> SUFFICES ASSUME ViewInv, NEW c \in attention_items, NEW d \in older[c] \cap Waiting
               PROVE  d \in attention_items
    BY DEF NoneOvertakes
  <2>1. c \in rows /\ d \in rows /\ Cardinality(older[c] \cap Waiting) < Limit
    BY DEF attention_items, Waiting
  <2>2. PICK before, ahead : before = older[d] \cap Waiting /\ ahead = older[c] \cap Waiting
    OBVIOUS
  <2>3. before \subseteq ahead /\ ahead \subseteq rows
    BY <2>1, <2>2 DEF ViewInv, Ordered, Waiting
  <2>4. /\ IsFiniteSet(ahead) /\ IsFiniteSet(before)
        /\ Cardinality(before) <= Cardinality(ahead)
    <3>1. IsFiniteSet(ahead)
      BY <2>3, FS_Subset DEF ViewInv
    <3> QED BY <2>3, <3>1, FS_Subset
  <2>5. Cardinality(before) \in Nat /\ Cardinality(ahead) \in Nat
    BY <2>4, FS_CardinalityType
  <2>6. Cardinality(before) < Limit
    BY <2>1, <2>2, <2>4, <2>5, LimitType
  <2> QED BY <2>2, <2>6 DEF attention_items
<1> QED BY <1>1, RowsStayOrdered, PTL
=============================================================================
