------------------------ MODULE CaseLifecycleProofs -------------------------
(***************************************************************************)
(* What CaseLifecycle guarantees for every staff, every set of amounts and *)
(* thresholds and every number of requests that overlap, proved with       *)
(* TLAPS.                                                                  *)
(***************************************************************************)
EXTENDS CaseLifecycle, TLAPS

-----------------------------------------------------------------------------
(***************************************************************************)
(* The inductive invariant.                                                *)
(***************************************************************************)

\* The statuses of a case whose refund is planned.
After == {"refund_pending", "refund_unknown", "needs_reconciliation", "refunded",
          "reconciled", "closed"}

\* What a request was allowed to do stays true of the row it loaded.
Entitled(q) ==
    /\ q.saw.status \in ReturnStatus
    /\ Target[q.op] \in TRANSITIONS[q.saw.status]
    /\ RoleOf[q.user] \in ROLE_BY_TARGET[Target[q.op]]
    /\ q.op = "approve_refund" =>
          q.amount \in Amounts /\ AssertApprovedAmount(q.saw.requested, q.amount)

\* The row it loaded is the case as it is or as it was.
Loaded(r) ==
    req[r].pc # "idle" =>
        /\ Entitled(req[r])
        /\ req[r].saw.version <= case.version
        /\ req[r].saw.requested = case.requested
        /\ case.status # "absent"

\* The approvals it judged are the ones there are, unless the case has moved.
Judged(r) ==
    req[r].pc = "judged" =>
        /\ req[r].op = "approve_refund"
        /\ AcceptsApproval(req[r].user, req[r].amount, req[r].rows)
        /\ case.version = req[r].saw.version => RefundApprovals = req[r].rows

RequestsHold == \A r \in Requests : Loaded(r) /\ Judged(r)

\* Refunds are approved by finance, planned only from an approved case, and the
\* provider is asked only for planned ones.
ApproversHold == \A x \in RefundApprovals : RoleOf[x.user] \in {"finance", "admin"}

PlanHolds ==
    /\ case.status = "absent" => case = NoCase /\ approvals = {}
    /\ attempt = NoAttempt => payments = 0
    /\ attempt # NoAttempt => case.status \in After

IInv ==
    /\ TypeOK /\ RequestsHold /\ ApproversHold /\ PlanHolds
    /\ FourEyes /\ PlannedAsApproved

-----------------------------------------------------------------------------
(***************************************************************************)
(* Lemmas about the tables and the rows.                                   *)
(***************************************************************************)

\* A planned refund is never unplanned by a declared transition, and only an
\* inspected case may be approved.
LEMMA DeclaredMoves ==
    /\ \A s \in After : TRANSITIONS[s] \subseteq After
    /\ \A s \in ReturnStatus : "refund_approved" \in TRANSITIONS[s] => s = "inspected"
    /\ \A s \in ReturnStatus : TRANSITIONS[s] \subseteq ReturnStatus
    /\ TRANSITIONS["rejected"] = {}
    /\ "inspected" \notin After /\ "rejected" \notin After /\ "absent" \notin ReturnStatus
BY DEF TRANSITIONS, ReturnStatus, After

LEMMA Targets ==
    /\ Target \in [Ops -> ReturnStatus]
    /\ Target["approve_refund"] = "refund_approved"
    /\ ROLE_BY_TARGET["refund_approved"] = {"finance", "admin"}
BY DEF Target, Ops, ReturnStatus, ROLE_BY_TARGET

LEMMA DefaultTypes == NoCase \in CaseRow /\ NoRequest \in Request /\ NoRequest.pc = "idle"
BY MembersAssumption DEF NoCase, CaseRow, NoRequest, Request, Ops

\* One row more keeps the approvals typed.
LEMMA AddApprovalType ==
    ASSUME TypeOK, NEW r \in Requests,
           NEW kind \in RefundKinds \cup {"eligibility"}, AddApproval(kind, r)
    PROVE  approvals' \in SUBSET Approval
<1>1. req[r].user \in Users /\ req[r].amount \in Nat
  BY DEF TypeOK, Request
<1>2. [kind |-> kind, user |-> req[r].user, amount |-> req[r].amount] \in Approval
  BY <1>1 DEF Approval
<1> QED
  BY <1>2 DEF AddApproval, TypeOK

\* An eligibility approval is none of a refund, a refund approval is.
LEMMA AddedApprovals ==
    ASSUME TypeOK, NEW r \in Requests, NEW kind, AddApproval(kind, r)
    PROVE  /\ kind = "eligibility" => RefundApprovals' = RefundApprovals
           /\ kind \in RefundKinds =>
                 RefundApprovals' = RefundApprovals \cup
                     {[kind |-> kind, user |-> req[r].user, amount |-> req[r].amount]}
BY DEF AddApproval, RefundApprovals, RefundKinds

\* A row under a new status and version is a row.
LEMMA SwapType ==
    ASSUME NEW row \in CaseRow, NEW status \in ReturnStatus, NEW version \in Nat
    PROVE  [row EXCEPT !.status = status, !.version = version] \in CaseRow
BY DEF CaseRow

LEMMA MovedType ==
    ASSUME case \in CaseRow, NEW to \in ReturnStatus
    PROVE  /\ Moved(to) \in CaseRow
           /\ Moved(to).status = to
           /\ Moved(to).version = case.version + 1
           /\ Moved(to).requested = case.requested
           /\ Moved(to).approved = case.approved
<1>1. case.version \in Nat /\ case.version + 1 \in Nat
  BY DEF CaseRow
<1>2. Moved(to) \in CaseRow
  BY <1>1, SwapType DEF Moved
<1>3. /\ Moved(to).status = to
      /\ Moved(to).version = case.version + 1
      /\ Moved(to).requested = case.requested
      /\ Moved(to).approved = case.approved
  BY DEF Moved, CaseRow
<1> QED
  BY <1>2, <1>3

-----------------------------------------------------------------------------
(***************************************************************************)
(* What holds of a request goes on to hold.                                *)
(***************************************************************************)

\* A step that does not touch a request, keeps what was asked for, and writes an
\* approval only together with the case.
LEMMA RequestKept ==
    ASSUME TypeOK, NEW r \in Requests, Loaded(r), Judged(r), case' \in CaseRow,
           req'[r] = req[r] \/ req'[r] = NoRequest,
           threshold' = threshold,
           \/ UNCHANGED <<case, RefundApprovals>>
           \/ /\ case'.version > case.version
              /\ case.status # "absent" =>
                    case'.requested = case.requested /\ case'.status # "absent"
    PROVE  Loaded(r)' /\ Judged(r)'
<1>1. CASE req'[r] = NoRequest
  BY <1>1, DefaultTypes DEF Loaded, Judged
<1>2. CASE req'[r] = req[r]
  <2>1. case.version \in Nat /\ case'.version \in Nat /\ req[r].saw.version \in Nat
    BY DEF TypeOK, CaseRow, Request
  <2>2. Loaded(r)'
    BY <1>2, <2>1 DEF Loaded, Entitled
  <2>3. Judged(r)'
    BY <1>2, <2>1 DEF Loaded, Judged, AcceptsApproval, HighValue
  <2> QED BY <2>2, <2>3
<1> QED
  BY <1>1, <1>2

-----------------------------------------------------------------------------
(***************************************************************************)
(* Types.                                                                  *)
(***************************************************************************)
LEMMA DoneType ==
    ASSUME TypeOK, NEW r \in Requests, Done(r)
    PROVE  /\ req' \in [Requests -> Request]
           /\ \A q \in Requests : req'[q].pc # "idle" => req'[q].saw.status # "absent"
BY DefaultTypes DEF TypeOK, Done

\* A row of the trail, from the case as it is.
LEMMA TrailType ==
    ASSUME case \in CaseRow, case.status # "absent",
           NEW actor \in Users \cup {"system"}, NEW to \in ReturnStatus
    PROVE  Trail(actor, to) \in AuditRow
BY DEF Trail, AuditRow, CaseRow

LEMMA CreateType == ASSUME TypeOK, NEW u \in Users, Create(u) PROVE TypeOK'
<1>1. PICK a \in Amounts :
          case' = [status |-> "requested", version |-> 1, requested |-> a, approved |-> 0]
  BY DEF Create
<1>2. case' \in CaseRow
  BY <1>1, AmountsAssumption DEF CaseRow, ReturnStatus
<1>3. audit' \in Seq(AuditRow)
  BY DEF Create, AuditRow, ReturnStatus
<1> QED
  BY <1>2, <1>3 DEF Create, TypeOK

LEMMA LoadType == ASSUME TypeOK, NEW r \in Requests, Load(r) PROVE TypeOK'
<1>1. PICK u \in Users, op \in Ops, a \in Amounts \cup {0} :
          /\ case.status # "absent"
          /\ req' = [req EXCEPT ![r] = [pc |-> "loaded", user |-> u, op |-> op,
                                       amount |-> a, saw |-> case, rows |-> {}]]
  BY DEF Load, Permits
<1>2. a \in Nat
  BY AmountsAssumption
<1>3. [pc |-> "loaded", user |-> u, op |-> op, amount |-> a, saw |-> case, rows |-> {}]
        \in Request
  BY <1>2 DEF TypeOK, Request
<1> QED
  BY <1>1, <1>3 DEF Load, TypeOK

LEMMA JudgeType == ASSUME TypeOK, NEW r \in Requests, JudgeApproval(r) PROVE TypeOK'
<1>1. RefundApprovals \in SUBSET Approval
  BY DEF TypeOK, RefundApprovals
<1>2. [req[r] EXCEPT !.pc = "judged", !.rows = RefundApprovals] \in Request
  BY <1>1 DEF TypeOK, Request
<1>3. req' = [req EXCEPT ![r] = [req[r] EXCEPT !.pc = "judged", !.rows = RefundApprovals]]
  BY DEF JudgeApproval
<1>4. [req[r] EXCEPT !.pc = "judged", !.rows = RefundApprovals].saw = req[r].saw
  BY DEF TypeOK, Request
<1> QED
  BY <1>2, <1>3, <1>4 DEF JudgeApproval, TypeOK

LEMMA CommitTransitionType ==
    ASSUME TypeOK, NEW r \in Requests, CommitTransition(r) PROVE TypeOK'
<1>1. /\ req[r].user \in Users /\ Target[req[r].op] \in ReturnStatus
      /\ case.status # "absent" /\ case \in CaseRow
  BY Targets DEF TypeOK, Request, CommitTransition, Swapped
<1>2. case' \in CaseRow
  BY <1>1, MovedType DEF CommitTransition
<1>3. audit' \in Seq(AuditRow)
  <2>1. Trail(req[r].user, Target[req[r].op]) \in AuditRow
    BY <1>1, TrailType
  <2> QED
    BY <2>1 DEF TypeOK, CommitTransition
<1>4. approvals' \in SUBSET Approval
  BY AddApprovalType DEF CommitTransition, TypeOK
<1> QED
  BY <1>2, <1>3, <1>4, DoneType DEF CommitTransition, TypeOK

LEMMA CommitFirstApprovalType ==
    ASSUME TypeOK, NEW r \in Requests, CommitFirstApproval(r) PROVE TypeOK'
<1>1. case' \in CaseRow
  <2>1. case \in CaseRow /\ case.version + 1 \in Nat
    BY DEF TypeOK, CaseRow
  <2>2. ASSUME NEW version \in Nat PROVE [case EXCEPT !.version = version] \in CaseRow
    BY <2>1 DEF CaseRow
  <2> QED
    BY <2>1, <2>2 DEF CommitFirstApproval
<1>2. audit' \in Seq(AuditRow)
  <2>1. [actor |-> req[r].user, from |-> "none", to |-> "none"] \in AuditRow
    BY DEF TypeOK, Request, AuditRow
  <2> QED
    BY <2>1 DEF TypeOK, CommitFirstApproval
<1>3. approvals' \in SUBSET Approval
  BY AddApprovalType DEF CommitFirstApproval, RefundKinds
<1> QED
  BY <1>1, <1>2, <1>3, DoneType DEF CommitFirstApproval, TypeOK

LEMMA CommitApprovalType ==
    ASSUME TypeOK, NEW r \in Requests, CommitApproval(r) PROVE TypeOK'
<1>1. /\ req[r].user \in Users /\ req[r].amount \in Nat
      /\ case.status # "absent" /\ case \in CaseRow
  BY DEF TypeOK, Request, CommitApproval, Swapped
<1>2. "refund_approved" \in ReturnStatus /\ "refund_pending" \in ReturnStatus
  BY DEF ReturnStatus
<1>3. case' \in CaseRow
  <2>1. case.version + 1 \in Nat /\ case.version + 2 \in Nat
    BY <1>1 DEF CaseRow
  <2>2. ASSUME NEW status \in ReturnStatus, NEW version \in Nat
        PROVE  [case EXCEPT !.status = status, !.version = version,
                            !.approved = req[r].amount] \in CaseRow
    BY <1>1 DEF CaseRow
  <2>3. CASE attempt = NoAttempt
    BY <1>2, <2>1, <2>2, <2>3 DEF CommitApproval
  <2>4. CASE attempt # NoAttempt
    <3>1. Moved("refund_approved") \in CaseRow
      BY <1>1, <1>2, MovedType
    <3>2. [Moved("refund_approved") EXCEPT !.approved = req[r].amount] \in CaseRow
      BY <1>1, <3>1 DEF CaseRow
    <3> QED
      BY <2>4, <3>2 DEF CommitApproval
  <2> QED
    BY <2>3, <2>4
<1>4. audit' \in Seq(AuditRow)
  <2>1. Trail(req[r].user, "refund_approved") \in AuditRow
    BY <1>1, <1>2, TrailType
  <2>2. [actor |-> "system", from |-> "refund_approved", to |-> "refund_pending"] \in AuditRow
    BY <1>2 DEF AuditRow
  <2>3. CASE attempt = NoAttempt
    <3>1. <<Trail(req[r].user, "refund_approved"),
            [actor |-> "system", from |-> "refund_approved", to |-> "refund_pending"]>>
            \in Seq(AuditRow)
      BY <2>1, <2>2
    <3> QED
      BY <2>3, <3>1 DEF TypeOK, CommitApproval
  <2>4. CASE attempt # NoAttempt
    BY <2>1, <2>4 DEF TypeOK, CommitApproval
  <2> QED
    BY <2>3, <2>4
<1>5. approvals' \in SUBSET Approval
  BY AddApprovalType DEF CommitApproval, RefundKinds
<1>6. attempt' \in [amount : Nat, limit : Nat]
  BY <1>1, ThresholdAssumption DEF TypeOK, CommitApproval
<1> QED
  BY <1>3, <1>4, <1>5, <1>6, DoneType DEF CommitApproval, TypeOK

LEMMA RestartType == ASSUME TypeOK, Restart PROVE TypeOK'
BY DefaultTypes DEF TypeOK, Restart

LEMMA PipelineType == ASSUME TypeOK, PipelineStep PROVE TypeOK'
<1>1. PICK s \in Unsettled \cup {"refunded"} :
          /\ case'  = IF s = case.status THEN case ELSE Moved(s)
          /\ audit' = IF s = case.status THEN audit ELSE Append(audit, Trail("system", s))
  BY DEF PipelineStep
<1>2. s \in ReturnStatus /\ case \in CaseRow
  BY DEF Unsettled, ReturnStatus, TypeOK
<1>3. case' \in CaseRow
  BY <1>1, <1>2, MovedType
<1>4. /\ payments' \in Nat
      /\ case'.status # case.status => case.status # "absent"
  BY DEF TypeOK, PipelineStep, Promise!PromiseNext, Promise!Pay, Promise!Confirm,
         Promise!Suspect, Promise!Escalate, Promise!Retry, Promise!Unsettled, Promise!Doubtful
<1>5. audit' \in Seq(AuditRow)
  <2>1. CASE s = case.status
    BY <1>1, <2>1 DEF TypeOK
  <2>2. CASE s # case.status
    <3>1. case.status # "absent"
      BY <1>1, <1>2, <1>4, <2>2, MovedType
    <3>2. Trail("system", s) \in AuditRow
      BY <1>2, <3>1, TrailType
    <3> QED
      BY <1>1, <2>2, <3>2 DEF TypeOK
  <2> QED
    BY <2>1, <2>2
<1> QED
  BY <1>3, <1>4, <1>5 DEF PipelineStep, TypeOK

LEMMA InitType == Init => TypeOK
BY DefaultTypes DEF Init, TypeOK, NoAttempt

LEMMA NextType == TypeOK /\ [Next]_vars => TypeOK'
<1> SUFFICES ASSUME TypeOK, [Next]_vars PROVE TypeOK'
  OBVIOUS
<1>1. ASSUME NEW u \in Users, Create(u) PROVE TypeOK'
  BY <1>1, CreateType
<1>2. ASSUME NEW r \in Requests, RequestStep(r) PROVE TypeOK'
  <2>1. CASE EndsInError(r)
    BY <2>1, DoneType DEF EndsInError, TypeOK
  <2> QED
    BY <1>2, <2>1, LoadType, CommitTransitionType, JudgeType, CommitFirstApprovalType,
       CommitApprovalType DEF RequestStep
<1>3. CASE UNCHANGED vars
  BY <1>3 DEF TypeOK, vars
<1> QED
  BY <1>1, <1>2, <1>3, RestartType, PipelineType DEF Next, Ended

-----------------------------------------------------------------------------
(***************************************************************************)
(* The requests.                                                           *)
(***************************************************************************)
LEMMA DoneRequests ==
    ASSUME TypeOK, NEW r \in Requests, Done(r), NEW q \in Requests
    PROVE  req'[q] = req[q] \/ req'[q] = NoRequest
BY DEF Done, TypeOK

\* A request whose swap succeeds meets the case it loaded; an approval meets an
\* inspected one, whose refund is not planned.
LEMMA SwapMeets ==
    ASSUME IInv, NEW r \in Requests, req[r].pc # "idle", Swapped(r)
    PROVE  /\ case.status \in ReturnStatus
           /\ req[r].op \in Ops
           /\ Target[req[r].op] \in TRANSITIONS[case.status]
           /\ RoleOf[req[r].user] \in ROLE_BY_TARGET[Target[req[r].op]]
           /\ req[r].op = "approve_refund" =>
                 /\ case.status = "inspected" /\ attempt = NoAttempt
                 /\ req[r].amount \in Amounts
                 /\ AssertApprovedAmount(case.requested, req[r].amount)
                 /\ RoleOf[req[r].user] \in {"finance", "admin"}
<1>1. Loaded(r) /\ req[r] \in Request /\ req[r].op \in Ops
  BY DEF IInv, RequestsHold, TypeOK, Request
<1>2. /\ Entitled(req[r])
      /\ req[r].saw.status = case.status /\ req[r].saw.requested = case.requested
  BY <1>1 DEF Loaded, Swapped
<1>3. CASE req[r].op = "approve_refund"
  <2>1. case.status = "inspected"
    BY <1>2, <1>3, DeclaredMoves, Targets DEF Entitled
  <2>2. attempt = NoAttempt
    BY <2>1, DeclaredMoves DEF IInv, PlanHolds
  <2> QED
    BY <1>1, <1>2, <1>3, <2>1, <2>2, Targets DEF Entitled
<1> QED
  BY <1>1, <1>2, <1>3 DEF Entitled

LEMMA CommitRequests ==
    ASSUME IInv, NEW r \in Requests,
           CommitTransition(r) \/ CommitFirstApproval(r) \/ CommitApproval(r)
    PROVE  RequestsHold'
<1>1. TypeOK /\ TypeOK' /\ case \in CaseRow /\ case' \in CaseRow /\ threshold' = threshold
  BY CommitTransitionType, CommitFirstApprovalType, CommitApprovalType
     DEF IInv, TypeOK, CommitTransition, CommitFirstApproval, CommitApproval
<1>2. Done(r) /\ req[r].pc # "idle" /\ Swapped(r)
  BY DEF CommitTransition, CommitFirstApproval, CommitApproval
<1>3. case.version \in Nat
  BY <1>1 DEF CaseRow
<1>4. /\ case'.version > case.version
      /\ case'.requested = case.requested /\ case'.status # "absent"
  <2>1. CASE CommitTransition(r)
    <3>1. Target[req[r].op] \in ReturnStatus
      BY <1>2, SwapMeets, Targets
    <3>2. case' = Moved(Target[req[r].op])
      BY <2>1 DEF CommitTransition
    <3> QED
      BY <1>1, <1>3, <3>1, <3>2, MovedType, DeclaredMoves
  <2>2. CASE CommitFirstApproval(r)
    <3>1. case' = [case EXCEPT !.version = @ + 1] /\ case.status # "absent"
      BY <1>2, <2>2, SwapMeets, DeclaredMoves DEF CommitFirstApproval
    <3> QED
      BY <1>1, <1>3, <3>1 DEF CaseRow
  <2>3. CASE CommitApproval(r)
    <3>1. req[r].op = "approve_refund"
      BY <2>3 DEF IInv, RequestsHold, Judged, CommitApproval
    <3>2. case' = [case EXCEPT !.status = "refund_pending", !.version = @ + 2,
                               !.approved = req[r].amount]
      BY <1>2, <2>3, <3>1, SwapMeets DEF CommitApproval
    <3> QED
      BY <1>1, <1>3, <3>2 DEF CaseRow
  <2> QED
    BY <2>1, <2>2, <2>3
<1>5. ASSUME NEW q \in Requests PROVE Loaded(q)' /\ Judged(q)'
  <2>1. Loaded(q) /\ Judged(q)
    BY DEF IInv, RequestsHold
  <2>2. req'[q] = req[q] \/ req'[q] = NoRequest
    BY <1>1, <1>2, DoneRequests
  <2> QED
    BY <1>1, <1>4, <2>1, <2>2, RequestKept
<1> QED
  BY <1>5 DEF RequestsHold

LEMMA LoadRequests == ASSUME IInv, NEW r \in Requests, Load(r) PROVE RequestsHold'
<1>1. PICK u \in Users, op \in Ops, a \in Amounts \cup {0} :
          /\ Permits(u, op, case)
          /\ IF op = "approve_refund" THEN AssertApprovedAmount(case.requested, a) ELSE a = 0
          /\ req' = [req EXCEPT ![r] = [pc |-> "loaded", user |-> u, op |-> op,
                                       amount |-> a, saw |-> case, rows |-> {}]]
  BY DEF Load
<1>2. TypeOK /\ case \in CaseRow /\ UNCHANGED <<case, approvals, threshold>>
  BY DEF IInv, TypeOK, Load
<1>3. Loaded(r)' /\ Judged(r)'
  <2>1. req'[r] = [pc |-> "loaded", user |-> u, op |-> op, amount |-> a,
                   saw |-> case, rows |-> {}]
    BY <1>1, <1>2 DEF TypeOK
  <2>2. case.status \in ReturnStatus /\ case.version \in Nat /\ case.status # "absent"
    BY <1>1, <1>2 DEF CaseRow, Permits
  <2>3. op = "approve_refund" => a \in Amounts
    BY <1>1 DEF AssertApprovedAmount
  <2>4. Entitled(req'[r])
    BY <1>1, <2>1, <2>2, <2>3
       DEF Entitled, Permits, assert_transition, assert_actor_can_transition
  <2> QED
    BY <1>2, <2>1, <2>2, <2>4 DEF Loaded, Judged, Entitled
<1>4. ASSUME NEW q \in Requests, q # r PROVE Loaded(q)' /\ Judged(q)'
  <2>1. req'[q] = req[q] /\ Loaded(q) /\ Judged(q)
    BY <1>1, <1>4 DEF IInv, RequestsHold, TypeOK
  <2> QED
    BY <1>2, <2>1, RequestKept DEF RefundApprovals
<1> QED
  BY <1>3, <1>4 DEF RequestsHold

LEMMA JudgeRequests == ASSUME IInv, NEW r \in Requests, JudgeApproval(r) PROVE RequestsHold'
<1>1. /\ TypeOK /\ case \in CaseRow
      /\ UNCHANGED <<case, approvals, threshold>>
      /\ RefundApprovals' = RefundApprovals
  BY DEF IInv, TypeOK, JudgeApproval, RefundApprovals
<1>2. Loaded(r)' /\ Judged(r)'
  <2>1. req'[r] = [req[r] EXCEPT !.pc = "judged", !.rows = RefundApprovals]
    BY <1>1 DEF TypeOK, JudgeApproval
  <2>2. req[r] \in Request /\ Loaded(r) /\ req[r].pc = "loaded"
          /\ req[r].op = "approve_refund"
          /\ AcceptsApproval(req[r].user, req[r].amount, RefundApprovals)
    BY <1>1 DEF IInv, RequestsHold, TypeOK, JudgeApproval
  <2>3. /\ req'[r].pc = "judged" /\ req'[r].rows = RefundApprovals
        /\ req'[r].user = req[r].user /\ req'[r].op = req[r].op
        /\ req'[r].amount = req[r].amount /\ req'[r].saw = req[r].saw
    BY <2>1, <2>2 DEF Request
  <2> QED
    BY <1>1, <2>2, <2>3 DEF Loaded, Judged, Entitled, AcceptsApproval, HighValue
<1>3. ASSUME NEW q \in Requests, q # r PROVE Loaded(q)' /\ Judged(q)'
  <2>1. req'[q] = req[q] /\ Loaded(q) /\ Judged(q)
    BY <1>3 DEF IInv, RequestsHold, TypeOK, JudgeApproval
  <2> QED
    BY <1>1, <2>1, RequestKept
<1> QED
  BY <1>2, <1>3 DEF RequestsHold

LEMMA PipelineRequests == ASSUME IInv, PipelineStep PROVE RequestsHold'
<1>1. PICK s \in Unsettled \cup {"refunded"} :
          case' = IF s = case.status THEN case ELSE Moved(s)
  BY DEF PipelineStep
<1>2. /\ TypeOK /\ case \in CaseRow /\ case.version \in Nat
      /\ s \in ReturnStatus /\ s # "absent"
      /\ UNCHANGED <<req, threshold, approvals, RefundApprovals>>
  BY DEF IInv, TypeOK, CaseRow, PipelineStep, Unsettled, ReturnStatus, RefundApprovals
<1>3. /\ case' \in CaseRow
      /\ \/ UNCHANGED case
         \/ /\ case'.version > case.version
            /\ case'.requested = case.requested /\ case'.status # "absent"
  BY <1>1, <1>2, MovedType
<1>4. ASSUME NEW q \in Requests PROVE Loaded(q)' /\ Judged(q)'
  BY <1>2, <1>3, RequestKept DEF IInv, RequestsHold
<1> QED
  BY <1>4 DEF RequestsHold

LEMMA NextRequests == IInv /\ [Next]_vars => RequestsHold'
<1> SUFFICES ASSUME IInv, [Next]_vars PROVE RequestsHold'
  OBVIOUS
<1>0. TypeOK /\ case \in CaseRow
  BY DEF IInv, TypeOK
<1>1. ASSUME NEW u \in Users, Create(u) PROVE RequestsHold'
  <2>1. /\ TypeOK' /\ case' \in CaseRow /\ case.status = "absent" /\ case.version = 0
        /\ case'.version = 1 /\ threshold' = threshold /\ req' = req
    BY <1>1, CreateType DEF Create, IInv, PlanHolds, NoCase, TypeOK
  <2> QED
    BY <1>0, <2>1, RequestKept DEF IInv, RequestsHold
<1>2. ASSUME NEW r \in Requests, EndsInError(r) PROVE RequestsHold'
  BY <1>0, <1>2, DoneRequests, RequestKept
     DEF EndsInError, IInv, RequestsHold, RefundApprovals
<1>3. CASE Restart
  BY <1>3, DefaultTypes DEF Restart, RequestsHold, Loaded, Judged
<1>4. CASE UNCHANGED vars
  BY <1>0, <1>4, RequestKept DEF vars, IInv, RequestsHold, RefundApprovals
<1> QED
  BY <1>1, <1>2, <1>3, <1>4, CommitRequests, LoadRequests, JudgeRequests, PipelineRequests
     DEF Next, RequestStep, Ended

-----------------------------------------------------------------------------
(***************************************************************************)
(* The money.                                                              *)
(***************************************************************************)
MoneyHolds == ApproversHold /\ PlanHolds /\ FourEyes /\ PlannedAsApproved

\* A step that neither approves nor plans a refund keeps the case of a planned one
\* after its plan.
LEMMA MoneyKept ==
    ASSUME IInv, UNCHANGED <<RefundApprovals, attempt>>,
           attempt = NoAttempt => payments' = payments,
           attempt # NoAttempt => /\ case'.status \in After
                                  /\ case'.requested = case.requested
                                  /\ case'.approved = case.approved,
           case'.status = "absent" => UNCHANGED <<case, approvals>>
    PROVE  MoneyHolds'
<1>1. ApproversHold'
  BY DEF IInv, ApproversHold
<1>2. PlanHolds'
  BY DEF IInv, PlanHolds
<1>3. FourEyes' /\ PlannedAsApproved'
  BY DEF IInv, FourEyes, PlannedAsApproved
<1> QED
  BY <1>1, <1>2, <1>3 DEF MoneyHolds

LEMMA CommitTransitionMoney ==
    ASSUME IInv, NEW r \in Requests, CommitTransition(r) PROVE MoneyHolds'
<1>1. TypeOK /\ case \in CaseRow /\ req[r].pc # "idle" /\ Swapped(r)
  BY DEF IInv, TypeOK, CommitTransition
<1>2. /\ Target[req[r].op] \in ReturnStatus
      /\ Target[req[r].op] \in TRANSITIONS[case.status]
  BY <1>1, SwapMeets, Targets
<1>3. case' = Moved(Target[req[r].op]) /\ UNCHANGED <<attempt, payments>>
  BY DEF CommitTransition
<1>4. RefundApprovals' = RefundApprovals
  BY <1>1, AddedApprovals DEF CommitTransition, RefundApprovals
<1>5. attempt # NoAttempt => Target[req[r].op] \in After
  BY <1>2, DeclaredMoves DEF IInv, PlanHolds
<1> QED
  BY <1>1, <1>2, <1>3, <1>4, <1>5, MovedType, MoneyKept, DeclaredMoves

LEMMA CommitFirstApprovalMoney ==
    ASSUME IInv, NEW r \in Requests, CommitFirstApproval(r) PROVE MoneyHolds'
<1>1. TypeOK /\ case \in CaseRow /\ req[r].op = "approve_refund"
  BY DEF IInv, TypeOK, RequestsHold, Judged, CommitFirstApproval
<1>2. attempt = NoAttempt /\ case.status = "inspected"
        /\ RoleOf[req[r].user] \in {"finance", "admin"}
  BY <1>1, SwapMeets DEF CommitFirstApproval
<1>3. /\ case' = [case EXCEPT !.version = @ + 1] /\ AddApproval("refund", r)
      /\ UNCHANGED <<attempt, payments>>
  BY DEF CommitFirstApproval
<1>4. ApproversHold'
  BY <1>1, <1>2, <1>3, AddedApprovals DEF IInv, ApproversHold, RefundKinds
<1>5. PlanHolds'
  BY <1>1, <1>2, <1>3 DEF IInv, PlanHolds, CaseRow
<1>6. FourEyes' /\ PlannedAsApproved'
  BY <1>2, <1>3 DEF FourEyes, PlannedAsApproved
<1> QED
  BY <1>4, <1>5, <1>6 DEF MoneyHolds

\* What the commit of an approval that plans the refund finds and leaves.
LEMMA PlanFacts ==
    ASSUME IInv, NEW r \in Requests, CommitApproval(r)
    PROVE  /\ case.status = "inspected" /\ attempt = NoAttempt
           /\ req[r].amount \in Amounts
           /\ AssertApprovedAmount(case.requested, req[r].amount)
           /\ RoleOf[req[r].user] \in {"finance", "admin"}
           /\ AcceptsApproval(req[r].user, req[r].amount, RefundApprovals)
           /\ RefundApprovals = {} => ~HighValue(req[r].amount)
           /\ case' = [case EXCEPT !.status = "refund_pending", !.version = @ + 2,
                                   !.approved = req[r].amount]
           /\ attempt' = [amount |-> req[r].amount, limit |-> threshold]
           /\ \E kind \in RefundKinds :
                 RefundApprovals' = RefundApprovals \cup
                     {[kind |-> kind, user |-> req[r].user, amount |-> req[r].amount]}
           /\ UNCHANGED <<payments, threshold>>
<1>1. /\ req[r].pc = "judged" /\ Swapped(r)
      /\ req[r].rows = {} => ~HighValue(req[r].amount)
  BY DEF CommitApproval
<1>2. /\ req[r].op = "approve_refund"
      /\ AcceptsApproval(req[r].user, req[r].amount, req[r].rows)
      /\ RefundApprovals = req[r].rows
  BY <1>1 DEF IInv, RequestsHold, Judged, Swapped
<1>3. /\ case.status = "inspected" /\ attempt = NoAttempt
      /\ req[r].amount \in Amounts
      /\ AssertApprovedAmount(case.requested, req[r].amount)
      /\ RoleOf[req[r].user] \in {"finance", "admin"}
  BY <1>1, <1>2, SwapMeets
<1>4. PICK kind \in RefundKinds : AddApproval(kind, r)
  BY DEF CommitApproval, RefundKinds
<1>5. RefundApprovals' = RefundApprovals \cup
          {[kind |-> kind, user |-> req[r].user, amount |-> req[r].amount]}
  BY <1>4, AddedApprovals DEF IInv
<1>6. /\ case' = [case EXCEPT !.status = "refund_pending", !.version = @ + 2,
                              !.approved = req[r].amount]
      /\ attempt' = [amount |-> req[r].amount, limit |-> threshold]
      /\ UNCHANGED <<payments, threshold>>
  BY <1>3 DEF CommitApproval
<1> QED
  BY <1>1, <1>2, <1>3, <1>5, <1>6

LEMMA CommitApprovalMoney ==
    ASSUME IInv, NEW r \in Requests, CommitApproval(r) PROVE MoneyHolds'
<1> DEFINE a == req[r].amount
           u == req[r].user
<1>1. /\ case \in CaseRow /\ a \in Nat
      /\ a # 0 /\ AssertApprovedAmount(case.requested, a)
  BY PlanFacts, AmountsAssumption DEF IInv, TypeOK
<1>2. PICK kind \in RefundKinds :
          RefundApprovals' = RefundApprovals \cup {[kind |-> kind, user |-> u, amount |-> a]}
  BY PlanFacts
<1>3. attempt' = [amount |-> a, limit |-> threshold] /\ attempt' # NoAttempt
  <2>1. attempt' = [amount |-> a, limit |-> threshold]
    BY PlanFacts
  <2>2. attempt'.amount # NoAttempt.amount
    BY <1>1, <2>1 DEF NoAttempt
  <2> QED
    BY <2>1, <2>2
<1>4. /\ case'.status = "refund_pending" /\ case'.approved = a
      /\ case'.requested = case.requested
  BY <1>1, PlanFacts DEF CaseRow
<1>5. ApproversHold'
  <2>1. RoleOf[u] \in {"finance", "admin"}
    BY PlanFacts
  <2>2. \A x \in RefundApprovals : RoleOf[x.user] \in {"finance", "admin"}
    BY DEF IInv, ApproversHold
  <2> QED
    BY <1>2, <2>1, <2>2 DEF ApproversHold
<1>6. PlanHolds'
  BY <1>3, <1>4 DEF PlanHolds, After
<1>7. FourEyes'
  <2> SUFFICES ASSUME a >= threshold
               PROVE  \E x, y \in RefundApprovals' :
                         /\ x.user # y.user
                         /\ x.amount = a /\ y.amount = a
                         /\ {RoleOf[x.user], RoleOf[y.user]} \subseteq {"finance", "admin"}
    BY <1>3 DEF FourEyes
  <2>1. PICK first \in RefundApprovals : first.amount = a /\ first.user # u
    BY PlanFacts DEF HighValue, AcceptsApproval
  <2>2. /\ first \in RefundApprovals'
        /\ [kind |-> kind, user |-> u, amount |-> a] \in RefundApprovals'
    BY <1>2
  <2>3. RoleOf[first.user] \in {"finance", "admin"} /\ RoleOf[u] \in {"finance", "admin"}
    BY PlanFacts DEF IInv, ApproversHold
  <2> QED
    BY <2>1, <2>2, <2>3
<1>8. PlannedAsApproved'
  <2>1. \A x \in RefundApprovals : x.amount = a
    BY PlanFacts DEF AcceptsApproval
  <2> QED
    BY <1>1, <1>2, <1>3, <1>4, <2>1 DEF PlannedAsApproved
<1> QED
  BY <1>5, <1>6, <1>7, <1>8 DEF MoneyHolds

LEMMA PipelineMoney == ASSUME IInv, PipelineStep PROVE MoneyHolds'
<1>1. PICK s \in Unsettled \cup {"refunded"} :
          case' = IF s = case.status THEN case ELSE Moved(s)
  BY DEF PipelineStep
<1>2. /\ case \in CaseRow /\ s \in ReturnStatus /\ s \in After /\ s # "absent"
  BY DEF IInv, TypeOK, Unsettled, ReturnStatus, After
<1>3. /\ case'.status = s /\ case'.requested = case.requested
      /\ case'.approved = case.approved
  BY <1>1, <1>2, MovedType
<1>4. attempt # NoAttempt /\ UNCHANGED <<RefundApprovals, attempt>>
  BY DEF PipelineStep, RefundApprovals
<1> QED
  BY <1>2, <1>3, <1>4, MoneyKept

LEMMA NextMoney == IInv /\ [Next]_vars => MoneyHolds'
<1> SUFFICES ASSUME IInv, [Next]_vars PROVE MoneyHolds'
  OBVIOUS
<1>1. ASSUME NEW u \in Users, Create(u) PROVE MoneyHolds'
  <2>1. /\ case.status = "absent" /\ case'.status = "requested"
        /\ UNCHANGED <<approvals, attempt, payments, RefundApprovals>>
    BY <1>1 DEF Create, RefundApprovals
  <2>2. attempt = NoAttempt
    BY <2>1 DEF IInv, PlanHolds, After
  <2> QED
    BY <2>1, <2>2, MoneyKept
<1>2. CASE UNCHANGED <<case, approvals, attempt, payments>>
  BY <1>2, MoneyKept DEF IInv, PlanHolds, RefundApprovals
<1> QED
  BY <1>1, <1>2, CommitTransitionMoney, CommitFirstApprovalMoney, CommitApprovalMoney,
     PipelineMoney
     DEF Next, RequestStep, Load, JudgeApproval, EndsInError, Restart, Ended, vars

-----------------------------------------------------------------------------
(***************************************************************************)
(* The theorems.                                                           *)
(***************************************************************************)
LEMMA InitIInv == Init => IInv
<1> SUFFICES ASSUME Init PROVE IInv
  OBVIOUS
<1>1. TypeOK
  BY InitType
<1>2. RequestsHold
  BY DefaultTypes DEF Init, RequestsHold, Loaded, Judged
<1>3. attempt = NoAttempt /\ approvals = {} /\ payments = 0 /\ case = NoCase
  BY DEF Init
<1> QED
  BY <1>1, <1>2, <1>3
     DEF IInv, ApproversHold, PlanHolds, FourEyes, PlannedAsApproved, RefundApprovals

LEMMA NextIInv == IInv /\ [Next]_vars => IInv'
BY NextType, NextRequests, NextMoney DEF IInv, MoneyHolds

\* The invariant holds of every staff, all amounts and all restarts.
THEOREM LifecycleHolds == Spec => []IInv
BY InitIInv, NextIInv, PTL DEF Spec

\* Rows and requests keep their types.
THEOREM LifecycleTyped == Spec => []TypeOK
<1>1. IInv => TypeOK
  BY DEF IInv
<1> QED
  BY <1>1, LifecycleHolds, PTL

\* No refund at or above the threshold it was planned under has fewer than two
\* approvers, however the requests of its approvers overlap.
THEOREM FourEyesHold == Spec => []FourEyes
<1>1. IInv => FourEyes
  BY DEF IInv
<1> QED
  BY <1>1, LifecycleHolds, PTL

\* The planned refund is the approved one.
THEOREM PlanIsApproved == Spec => []PlannedAsApproved
<1>1. IInv => PlannedAsApproved
  BY DEF IInv
<1> QED
  BY <1>1, LifecycleHolds, PTL

\* No refund of a rejected return is planned or made.
THEOREM RejectionIsSafe == Spec => []RejectedMovesNoMoney
<1>1. IInv => RejectedMovesNoMoney
  BY DeclaredMoves DEF IInv, PlanHolds, RejectedMovesNoMoney
<1> QED
  BY <1>1, LifecycleHolds, PTL

-----------------------------------------------------------------------------
(***************************************************************************)
(* The refinement of RefundGate.                                           *)
(***************************************************************************)
GateStep == [Gate!GateNext]_(Gate!gate)

\* The consents are those of the refund approvals, and an approval adds its own.
LEMMA ConsentAdded ==
    ASSUME NEW kind, NEW u, NEW a,
           RefundApprovals' = RefundApprovals \cup {[kind |-> kind, user |-> u, amount |-> a]}
    PROVE  Consents' = Consents \cup {[user |-> u, amount |-> a]}
<1> DEFINE row == [kind |-> kind, user |-> u, amount |-> a]
<1>1. row.user = u /\ row.amount = a
  OBVIOUS
<1>2. Consents' = {[user |-> x.user, amount |-> x.amount] : x \in RefundApprovals \cup {row}}
  BY DEF Consents
<1>3. @ = Consents \cup {[user |-> row.user, amount |-> row.amount]}
  <2> HIDE DEF row
  <2> QED BY Zenon DEF Consents
<1> QED
  BY <1>1, <1>2, <1>3

LEMMA CreateGate == ASSUME IInv, NEW u \in Users, Create(u) PROVE GateStep
<1>1. case = NoCase /\ UNCHANGED <<approvals, attempt, threshold>>
  BY DEF IInv, PlanHolds, Create
<1>2. case.requested = 0 /\ case.status # "rejected"
  BY <1>1 DEF NoCase
<1>3. case'.requested \in Amounts /\ case'.status # "rejected"
  BY DEF Create
<1>4. Consents' = Consents
  BY <1>1 DEF Consents, RefundApprovals
<1> QED
  BY <1>1, <1>2, <1>3, <1>4 DEF GateStep, Gate!GateNext, Gate!Ask

LEMMA TransitionGate ==
    ASSUME IInv, NEW r \in Requests, CommitTransition(r) PROVE GateStep
<1>1. TypeOK /\ case \in CaseRow /\ req[r].pc # "idle" /\ Swapped(r)
  BY DEF IInv, TypeOK, CommitTransition
<1>2. /\ Target[req[r].op] \in ReturnStatus
      /\ Target[req[r].op] \in TRANSITIONS[case.status]
  BY <1>1, SwapMeets, Targets
<1>3. /\ case'.status = Target[req[r].op] /\ case'.requested = case.requested
      /\ UNCHANGED <<attempt, threshold>>
  BY <1>1, <1>2, MovedType DEF CommitTransition
<1>4. Consents' = Consents
  BY <1>1, AddedApprovals DEF CommitTransition, RefundApprovals, Consents
<1>5. case.status # "rejected"
  BY <1>2, DeclaredMoves
<1>6. CASE Target[req[r].op] = "rejected"
  <2>1. attempt = NoAttempt
    BY <1>2, <1>6, DeclaredMoves DEF IInv, PlanHolds
  <2> QED
    BY <1>3, <1>4, <1>6, <2>1 DEF GateStep, Gate!GateNext, Gate!Shut, NoAttempt
<1>7. CASE Target[req[r].op] # "rejected"
  BY <1>3, <1>4, <1>5, <1>7 DEF GateStep, Gate!gate
<1> QED
  BY <1>6, <1>7

LEMMA FirstApprovalGate ==
    ASSUME IInv, NEW r \in Requests, CommitFirstApproval(r) PROVE GateStep
<1> DEFINE a == req[r].amount
           u == req[r].user
<1>1. TypeOK /\ case \in CaseRow /\ u \in Users /\ req[r].op = "approve_refund"
  BY DEF IInv, TypeOK, Request, RequestsHold, Judged, CommitFirstApproval
<1>2. /\ attempt = NoAttempt /\ case.status = "inspected"
      /\ a \in Amounts /\ AssertApprovedAmount(case.requested, a)
  BY <1>1, SwapMeets DEF CommitFirstApproval
<1>3. /\ case'.status = "inspected" /\ case'.requested = case.requested
      /\ UNCHANGED <<attempt, threshold>> /\ a >= threshold
  BY <1>1, <1>2 DEF CommitFirstApproval, CaseRow, HighValue
<1>4. Consents' = Consents \cup {[user |-> u, amount |-> a]}
  BY <1>1, AddedApprovals, ConsentAdded DEF CommitFirstApproval, RefundKinds
<1>5. Gate!Consent(u, a)
  BY <1>2, <1>3, <1>4 DEF Gate!Consent, Gate!Consented, NoAttempt, AssertApprovedAmount
<1> QED
  BY <1>1, <1>2, <1>5 DEF GateStep, Gate!GateNext

LEMMA ApprovalGate == ASSUME IInv, NEW r \in Requests, CommitApproval(r) PROVE GateStep
<1> DEFINE a == req[r].amount
           u == req[r].user
<1>1. case \in CaseRow /\ u \in Users
  BY DEF IInv, TypeOK, Request
<1>2. /\ attempt = NoAttempt /\ case.status = "inspected"
      /\ a \in Amounts /\ AssertApprovedAmount(case.requested, a)
      /\ attempt' = [amount |-> a, limit |-> threshold] /\ UNCHANGED threshold
  BY PlanFacts
<1>3. case'.status = "refund_pending" /\ case'.requested = case.requested
  BY <1>1, PlanFacts DEF CaseRow
<1>4. Consents' = Consents \cup {[user |-> u, amount |-> a]}
  BY PlanFacts, ConsentAdded
<1>5. a >= threshold => \E c \in Consents : c.amount = a /\ c.user # u
  <2> SUFFICES ASSUME a >= threshold PROVE \E c \in Consents : c.amount = a /\ c.user # u
    OBVIOUS
  <2>1. PICK first \in RefundApprovals : first.amount = a /\ first.user # u
    BY PlanFacts DEF HighValue, AcceptsApproval
  <2>2. [user |-> first.user, amount |-> first.amount] \in Consents
    BY DEF Consents
  <2> QED
    BY <2>1, <2>2
<1>6. attempt'.amount = a
  BY <1>2
<1>7. Gate!Plan(u, a)
  BY <1>2, <1>3, <1>4, <1>5, <1>6
     DEF Gate!Plan, Gate!Consented, NoAttempt, AssertApprovedAmount
<1> QED
  BY <1>1, <1>2, <1>7 DEF GateStep, Gate!GateNext

LEMMA PipelineGate == ASSUME IInv, PipelineStep PROVE GateStep
<1>1. PICK s \in Unsettled \cup {"refunded"} :
          case' = IF s = case.status THEN case ELSE Moved(s)
  BY DEF PipelineStep
<1>2. case \in CaseRow /\ s \in ReturnStatus /\ s # "rejected"
  BY DEF IInv, TypeOK, Unsettled, ReturnStatus
<1>3. case'.status = s /\ case'.requested = case.requested
  BY <1>1, <1>2, MovedType
<1>4. /\ case.status # "rejected" /\ Consents' = Consents
      /\ UNCHANGED <<attempt, threshold>>
  BY DeclaredMoves DEF IInv, PlanHolds, PipelineStep, Consents, RefundApprovals
<1> QED
  BY <1>2, <1>3, <1>4 DEF GateStep, Gate!gate

LEMMA NextGate == IInv /\ [Next]_vars => GateStep
<1> SUFFICES ASSUME IInv, [Next]_vars PROVE GateStep
  OBVIOUS
<1>1. CASE UNCHANGED <<case, approvals, attempt, threshold>>
  BY <1>1 DEF GateStep, Gate!gate, Consents, RefundApprovals
<1>2. CASE Restart
  <2>1. threshold' \in Nat /\ UNCHANGED <<case, approvals, attempt>>
    BY <1>2, ThresholdAssumption DEF Restart
  <2> QED
    BY <2>1 DEF GateStep, Gate!GateNext, Gate!Retune, Consents, RefundApprovals
<1> QED
  BY <1>1, <1>2, CreateGate, TransitionGate, FirstApprovalGate, ApprovalGate, PipelineGate
     DEF Next, RequestStep, Load, JudgeApproval, EndsInError, Ended, vars

LEMMA GateStarts == Init => Gate!GateInit
BY DEF Init, Gate!GateInit, NoCase, NoAttempt, Consents, RefundApprovals

\* People's side of a return implements the gate: one plan, for an amount that two
\* people consented to where the limit in force asks for two, and none after a
\* rejection.
THEOREM GateIsKept == Spec => KeepsGate
<1>1. IInv /\ [Next]_vars => [Gate!GateNext]_(Gate!gate)
  BY NextGate DEF GateStep
<1> QED
  BY <1>1, LifecycleHolds, GateStarts, PTL DEF Spec, KeepsGate, Gate!GateSpec
-----------------------------------------------------------------------------
(***************************************************************************)
(* What people are offered.                                                *)
(***************************************************************************)

\* The amounts are ones that may be approved, an approval is given on an inspected
\* case only, and a first one is alone until the second one plans the refund.
PeopleHold ==
    /\ case.status # "absent" => case.requested \in Amounts
    /\ case.status \in {"absent", "requested", "authorized", "received"} => RefundApprovals = {}
    /\ \A x \in RefundApprovals :
          x.amount \in Amounts /\ AssertApprovedAmount(case.requested, x.amount)
    /\ case.status = "inspected" => \A x, y \in RefundApprovals : x = y

\* Before the inspection no refund is approved, and none is unapproved by a move.
LEMMA EarlyMoves ==
    \A s \in ReturnStatus : \A t \in TRANSITIONS[s] :
        /\ t \in {"requested", "authorized", "received"} => s \in {"requested", "authorized"}
        /\ t = "inspected" => s = "received"
        /\ t \in ReturnStatus
BY DEF TRANSITIONS, ReturnStatus

\* A declared transition that writes no refund approval.
LEMMA PeopleMove ==
    ASSUME PeopleHold, case.status \in ReturnStatus, UNCHANGED RefundApprovals,
           NEW to \in TRANSITIONS[case.status],
           case'.status = to, case'.requested = case.requested
    PROVE  PeopleHold'
<1>1. case.status # "absent" /\ to # "absent"
  BY DeclaredMoves
<1>2. /\ to \in {"requested", "authorized", "received"} => RefundApprovals = {}
      /\ to = "inspected" => RefundApprovals = {}
  BY EarlyMoves DEF PeopleHold
<1> QED BY <1>1, <1>2 DEF PeopleHold

\* A step of the planned refund is declared, or leaves the case.
LEMMA PipelineMoves ==
    ASSUME TypeOK, PipelineStep
    PROVE  \E s \in Unsettled \cup {"refunded"} :
              /\ case.status \in ReturnStatus
              /\ case' = IF s = case.status THEN case ELSE Moved(s)
              /\ audit' = IF s = case.status THEN audit ELSE Append(audit, Trail("system", s))
              /\ s # case.status => s \in TRANSITIONS[case.status]
              /\ s \in SYSTEM_TARGETS
<1>1. PICK s \in Unsettled \cup {"refunded"} :
          /\ case'  = IF s = case.status THEN case ELSE Moved(s)
          /\ audit' = IF s = case.status THEN audit ELSE Append(audit, Trail("system", s))
  BY DEF PipelineStep
<1>2. case \in CaseRow /\ s \in ReturnStatus /\ s \in SYSTEM_TARGETS
  BY DEF Unsettled, ReturnStatus, TypeOK, SYSTEM_TARGETS
<1>3. case'.status = s
  BY <1>1, <1>2, MovedType
<1>4. Promise!PromiseNext
  BY DEF PipelineStep
<1>5. case.status \in ReturnStatus /\ (s # case.status => s \in TRANSITIONS[case.status])
  BY <1>2, <1>3, <1>4
  DEF Promise!PromiseNext, Promise!Pay, Promise!Confirm, Promise!Suspect, Promise!Escalate,
      Promise!Retry, Promise!Unsettled, Promise!Doubtful, TRANSITIONS, ReturnStatus
<1> QED BY <1>1, <1>2, <1>5

LEMMA InitPeople == Init => PeopleHold
BY DEF Init, PeopleHold, RefundApprovals, NoCase

LEMMA CreatePeople == ASSUME IInv, NEW u \in Users, Create(u) PROVE PeopleHold'
<1>1. approvals = {} /\ UNCHANGED approvals
  BY DEF Create, IInv, PlanHolds
<1>2. PICK a \in Amounts :
          case' = [status |-> "requested", version |-> 1, requested |-> a, approved |-> 0]
  BY DEF Create
<1>3. RefundApprovals' = {}
  BY <1>1 DEF RefundApprovals
<1> QED BY <1>2, <1>3 DEF PeopleHold

LEMMA TransitionPeople ==
    ASSUME IInv, PeopleHold, NEW r \in Requests, CommitTransition(r) PROVE PeopleHold'
<1>1. TypeOK /\ case \in CaseRow /\ req[r].pc # "idle" /\ Swapped(r)
  BY DEF IInv, TypeOK, CommitTransition
<1>2. /\ case.status \in ReturnStatus
      /\ Target[req[r].op] \in ReturnStatus
      /\ Target[req[r].op] \in TRANSITIONS[case.status]
  BY <1>1, SwapMeets, Targets
<1>3. case' = Moved(Target[req[r].op])
  BY DEF CommitTransition
<1>4. RefundApprovals' = RefundApprovals
  BY <1>1, AddedApprovals DEF CommitTransition, RefundApprovals
<1>5. case'.status = Target[req[r].op] /\ case'.requested = case.requested
  BY <1>1, <1>2, <1>3, MovedType
<1> QED BY <1>2, <1>4, <1>5, PeopleMove

LEMMA FirstApprovalPeople ==
    ASSUME IInv, PeopleHold, NEW r \in Requests, CommitFirstApproval(r) PROVE PeopleHold'
<1>1. /\ TypeOK /\ case \in CaseRow /\ req[r].op = "approve_refund"
      /\ RefundApprovals = req[r].rows
  BY DEF IInv, TypeOK, RequestsHold, Judged, CommitFirstApproval, Swapped
<1>2. /\ case.status = "inspected" /\ req[r].amount \in Amounts
      /\ AssertApprovedAmount(case.requested, req[r].amount)
  BY <1>1, SwapMeets DEF CommitFirstApproval
<1>3. RefundApprovals' = {[kind |-> "refund", user |-> req[r].user, amount |-> req[r].amount]}
  BY <1>1, AddedApprovals DEF CommitFirstApproval, RefundKinds
<1>4. case'.status = "inspected" /\ case'.requested = case.requested
  BY <1>1, <1>2 DEF CommitFirstApproval, CaseRow
<1> QED BY <1>2, <1>3, <1>4 DEF PeopleHold

LEMMA ApprovalPeople ==
    ASSUME IInv, PeopleHold, NEW r \in Requests, CommitApproval(r) PROVE PeopleHold'
<1>1. /\ req[r].amount \in Amounts /\ AssertApprovedAmount(case.requested, req[r].amount)
      /\ case' = [case EXCEPT !.status = "refund_pending", !.version = @ + 2,
                              !.approved = req[r].amount]
      /\ case.status = "inspected"
  BY PlanFacts
<1>2. PICK kind \in RefundKinds :
          RefundApprovals' = RefundApprovals \cup
                     {[kind |-> kind, user |-> req[r].user, amount |-> req[r].amount]}
  BY PlanFacts
<1>3. case'.status = "refund_pending" /\ case'.requested = case.requested
  BY <1>1 DEF IInv, TypeOK, CaseRow
<1> QED BY <1>1, <1>2, <1>3 DEF PeopleHold

LEMMA PipelinePeople == ASSUME IInv, PeopleHold, PipelineStep PROVE PeopleHold'
<1>1. PICK s \in Unsettled \cup {"refunded"} :
          /\ case.status \in ReturnStatus
          /\ case' = IF s = case.status THEN case ELSE Moved(s)
          /\ s # case.status => s \in TRANSITIONS[case.status]
  BY PipelineMoves DEF IInv
<1>2. UNCHANGED RefundApprovals
  BY DEF PipelineStep, RefundApprovals
<1>3. CASE s = case.status
  BY <1>1, <1>2, <1>3 DEF PeopleHold
<1>4. CASE s # case.status
  <2>1. case'.status = s /\ case'.requested = case.requested
    BY <1>1, <1>4, MovedType, DeclaredMoves DEF IInv, TypeOK
  <2> QED BY <1>1, <1>2, <1>4, <2>1, PeopleMove
<1> QED BY <1>3, <1>4

LEMMA NextPeople == IInv /\ PeopleHold /\ [Next]_vars => PeopleHold'
<1> SUFFICES ASSUME IInv, PeopleHold, [Next]_vars PROVE PeopleHold'
  OBVIOUS
<1>1. CASE UNCHANGED <<case, approvals>>
  BY <1>1 DEF PeopleHold, RefundApprovals
<1> QED
  BY <1>1, CreatePeople, TransitionPeople, FirstApprovalPeople, ApprovalPeople, PipelinePeople
  DEF Next, RequestStep, Load, JudgeApproval, EndsInError, Restart, Ended, vars

LEMMA PeopleAlways == Spec => [](IInv /\ PeopleHold)
BY InitIInv, NextIInv, InitPeople, NextPeople, PTL DEF Spec

\* The pages and the services name the same statuses and the same roles, but for
\* the rejection of a requested return.
LEMMA SameStatuses ==
    \A op \in Ops, s \in ReturnStatus : Target[op] \in TRANSITIONS[s] <=> s \in OfferedIn[op]
BY DEF Ops, DoubtOps, Target, OfferedIn, TRANSITIONS, ReturnStatus

LEMMA SameRoles ==
    ASSUME NEW u \in Users, NEW op \in Ops,
           ~(op = "reject" /\ case.status = "requested" /\ RoleOf[u] = "finance")
    PROVE  (require_role(u, RolesFor[op]) /\ assert_actor_can_transition(u, Target[op]))
             <=> OfferedTo(u, op)
<1>1. RoleOf[u] \in Role
  BY MembersAssumption
<1>2. CASE op = "authorize"
  BY <1>1, <1>2 DEF Ops, Target, OfferedTo, require_role, assert_actor_can_transition,
                    RolesFor, ROLE_BY_TARGET, ReturnStatus, Role
<1>3. CASE op \in {"receive", "inspect"}
  BY <1>1, <1>3 DEF Ops, Target, OfferedTo, require_role, assert_actor_can_transition,
                    RolesFor, ROLE_BY_TARGET, ReturnStatus, Role
<1>4. CASE op = "reject"
  BY <1>1, <1>4 DEF Ops, Target, OfferedTo, require_role, assert_actor_can_transition,
                    RolesFor, ROLE_BY_TARGET, ReturnStatus, Role
<1>5. CASE op \in {"approve_refund", "mark_reconciled", "close"}
  BY <1>1, <1>5 DEF Ops, Target, OfferedTo, require_role, assert_actor_can_transition,
                    RolesFor, ROLE_BY_TARGET, ReturnStatus, Role
<1> QED BY <1>2, <1>3, <1>4, <1>5 DEF Ops

\* The service accepts an approval exactly from those who have not approved yet.
LEMMA ApprovalAccepted ==
    ASSUME TypeOK, PeopleHold, case.status = "inspected", ApprovalsStillCount,
           NEW u \in Users
    PROVE  (\E a \in Amounts : /\ AssertApprovedAmount(case.requested, a)
                               /\ AcceptsApproval(u, a, RefundApprovals))
             <=> \A x \in RefundApprovals : x.user # u
<1>1. \A x, y \in RefundApprovals : x = y
  BY DEF PeopleHold
<1>2. ASSUME NEW a \in Amounts, AcceptsApproval(u, a, RefundApprovals)
      PROVE  \A x \in RefundApprovals : x.user # u
  BY <1>2 DEF AcceptsApproval
<1>3. ASSUME \A x \in RefundApprovals : x.user # u
      PROVE  \E a \in Amounts : /\ AssertApprovedAmount(case.requested, a)
                                /\ AcceptsApproval(u, a, RefundApprovals)
  <2>1. CASE RefundApprovals = {}
    <3>1. case.requested \in Amounts /\ case.requested \in Nat \ {0}
      BY AmountsAssumption DEF PeopleHold
    <3>2. AssertApprovedAmount(case.requested, case.requested)
      BY <3>1 DEF AssertApprovedAmount
    <3> QED BY <2>1, <3>1, <3>2 DEF AcceptsApproval
  <2>2. CASE RefundApprovals # {}
    <3>1. PICK first \in RefundApprovals : TRUE
      BY <2>2
    <3>2. RefundApprovals = {first}
      BY <1>1, <3>1
    <3>3. /\ first.amount \in Amounts /\ AssertApprovedAmount(case.requested, first.amount)
          /\ HighValue(first.amount)
      BY <3>1 DEF PeopleHold, ApprovalsStillCount
    <3>4. AcceptsApproval(u, first.amount, RefundApprovals)
      BY <1>3, <3>1, <3>2, <3>3 DEF AcceptsApproval
    <3> QED BY <3>3, <3>4
  <2> QED BY <2>1, <2>2
<1> QED BY <1>2, <1>3

LEMMA OffersOfPeople ==
    ASSUME IInv, PeopleHold, case.status = "inspected" => ApprovalsStillCount,
           NEW u \in Users, NEW op \in Ops, NEW outcome,
           ~(op = "reject" /\ case.status = "requested" /\ RoleOf[u] = "finance")
    PROVE  op \in allowed_actions(u, outcome) <=> ServiceAccepts(u, op)
<1>0. op \notin DoubtOps
  BY DEF Ops, DoubtOps
<1>1. TypeOK /\ case.status \in ReturnStatus \cup {"absent"} /\ "absent" \notin ReturnStatus
  BY DeclaredMoves DEF IInv, TypeOK, CaseRow
<1>2. Permits(u, op, case) <=> case.status \in OfferedIn[op] /\ OfferedTo(u, op)
  <2>1. OfferedIn[op] \subseteq ReturnStatus
    BY DEF Ops, DoubtOps, OfferedIn, ReturnStatus
  <2>2. op = "reject" => OfferedIn[op] = {"requested", "inspected"}
    BY DEF OfferedIn, Ops, DoubtOps
  <2>3. CASE case.status = "absent"
    BY <1>1, <2>1, <2>3 DEF Permits
  <2>4. CASE case.status # "absent"
    BY <1>1, <2>2, <2>4, SameStatuses, SameRoles DEF Permits, assert_transition
  <2> QED BY <2>3, <2>4
<1>3. CASE op # "approve_refund"
  BY <1>0, <1>2, <1>3 DEF allowed_actions, ServiceAccepts
<1>4. CASE op = "approve_refund"
  <2>1. OfferedIn[op] = {"inspected"}
    BY <1>4 DEF OfferedIn, Ops, DoubtOps
  <2>2. CASE case.status # "inspected"
    BY <1>2, <1>4, <2>1, <2>2 DEF allowed_actions, ServiceAccepts
  <2>3. CASE case.status = "inspected"
    <3>1. \A x, y \in RefundApprovals : x = y
      BY <2>3 DEF PeopleHold
    <3> QED
      BY <1>0, <1>1, <1>2, <1>4, <2>3, <3>1, ApprovalAccepted DEF allowed_actions, ServiceAccepts
  <2> QED BY <2>2, <2>3
<1> QED BY <1>3, <1>4

LEMMA OffersInDoubt ==
    ASSUME NEW u \in Users, NEW op \in DoubtOps, NEW outcome
    PROVE  /\ op \in allowed_actions(u, outcome)
                => DoubtAccepts(u, op, outcome) \/ OfferedInVain(op, outcome)
           /\ DoubtAccepts(u, op, outcome)
                => op \in allowed_actions(u, outcome) \/ HiddenFrom(u, op, outcome)
<1>1. op # "approve_refund" /\ OfferedIn[op] = {"refund_unknown", "needs_reconciliation"}
  BY DEF DoubtOps, OfferedIn
<1>2. OfferedTo(u, op) <=> require_role(u, {"finance"})
  BY DEF DoubtOps, OfferedTo, require_role
<1>3. op \in allowed_actions(u, outcome)
        <=> /\ case.status \in {"refund_unknown", "needs_reconciliation"}
            /\ require_role(u, {"finance"})
            /\ outcome = OfferedAt(op)
  BY <1>1, <1>2 DEF allowed_actions
<1> QED
  BY <1>3 DEF DoubtOps, OfferedAt, DoubtAccepts, OfferedInVain, HiddenFrom

LEMMA OffersFollow == IInv /\ PeopleHold => OffersHonoured
<1> SUFFICES ASSUME IInv, PeopleHold, case.status = "inspected" => ApprovalsStillCount,
                    NEW u \in Users, NEW outcome \in RefundAttemptStatus
             PROVE  /\ \A op \in allowed_actions(u, outcome) \ Accepted(u, outcome) :
                          OfferedInVain(op, outcome)
                    /\ \A op \in Accepted(u, outcome) \ allowed_actions(u, outcome) :
                          HiddenFrom(u, op, outcome)
  BY DEF OffersHonoured
<1>1. Ops \cap DoubtOps = {} /\ allowed_actions(u, outcome) \subseteq Ops \cup DoubtOps
  BY DEF Ops, DoubtOps, allowed_actions
<1>2. ASSUME NEW op \in Ops
      PROVE  /\ op \in allowed_actions(u, outcome) => ServiceAccepts(u, op)
             /\ ServiceAccepts(u, op)
                  => op \in allowed_actions(u, outcome) \/ HiddenFrom(u, op, outcome)
  <2>1. CASE op = "reject" /\ case.status = "requested" /\ RoleOf[u] = "finance"
    BY <2>1 DEF allowed_actions, OfferedTo, HiddenFrom
  <2>2. CASE ~(op = "reject" /\ case.status = "requested" /\ RoleOf[u] = "finance")
    BY <2>2, OffersOfPeople
  <2> QED BY <2>1, <2>2
<1> QED BY <1>1, <1>2, OffersInDoubt DEF Accepted

\* What a page offers is what the services accept, for every staff, every status of
\* the attempt and however the requests overlap, with the three exceptions that
\* HiddenFrom and OfferedInVain name: code that is written twice agrees elsewhere.
THEOREM OffersAreHonoured == Spec => []OffersHonoured
BY OffersFollow, PeopleAlways, PTL

\* Two members may approve refunds.
TwoApprovers ==
    \E u, v \in Users : u # v /\ {RoleOf[u], RoleOf[v]} \subseteq {"finance", "admin"}

LEMMA ReachableFollows == ASSUME TwoApprovers PROVE IInv /\ PeopleHold => RefundStaysReachable
<1> SUFFICES ASSUME IInv, PeopleHold, case.status = "inspected", ApprovalsStillCount
             PROVE  \E u \in Users : ServiceAccepts(u, "approve_refund")
  BY DEF RefundStaysReachable
<1>1. PICK u, v \in Users : u # v /\ {RoleOf[u], RoleOf[v]} \subseteq {"finance", "admin"}
  BY DEF TwoApprovers
<1>2. \A x, y \in RefundApprovals : x = y
  BY DEF PeopleHold
<1>3. PICK w \in {u, v} : \A x \in RefundApprovals : x.user # w
  <2>1. CASE RefundApprovals = {}
    BY <2>1
  <2>2. CASE RefundApprovals # {}
    <3>1. PICK first \in RefundApprovals : TRUE
      BY <2>2
    <3>2. \A x \in RefundApprovals : x.user = first.user
      BY <1>2, <3>1
    <3> QED BY <1>1, <3>2
  <2> QED BY <2>1, <2>2
<1>4. w \in Users /\ RoleOf[w] \in {"finance", "admin"}
  BY <1>1, <1>3
<1>5. OfferedTo(w, "approve_refund") /\ "approve_refund" \in Ops
  BY <1>4 DEF OfferedTo, Ops
<1>6. require_role(w, RolesFor["approve_refund"])
        /\ assert_actor_can_transition(w, Target["approve_refund"])
  BY <1>4, <1>5, SameRoles
<1>7. assert_transition("inspected", Target["approve_refund"])
  BY Targets DEF assert_transition, TRANSITIONS, ReturnStatus
<1>8. Permits(w, "approve_refund", case)
  BY <1>6, <1>7 DEF Permits
<1>9. \E a \in Amounts : /\ AssertApprovedAmount(case.requested, a)
                         /\ AcceptsApproval(w, a, RefundApprovals)
  BY <1>3, <1>4, ApprovalAccepted DEF IInv
<1> QED BY <1>4, <1>8, <1>9 DEF ServiceAccepts

\* Where two members may approve refunds, an inspected return never waits for an
\* approval that nobody could give, as long as the threshold is not raised above
\* the approval it has.
THEOREM RefundIsReachable == ASSUME TwoApprovers PROVE Spec => []RefundStaysReachable
BY ReachableFollows, PeopleAlways, PTL
-----------------------------------------------------------------------------
(***************************************************************************)
(* The trail.                                                              *)
(***************************************************************************)
LEMMA AppendedRows ==
    ASSUME NEW trail \in Seq(AuditRow), NEW row \in AuditRow
    PROVE  /\ Append(trail, row) \in Seq(AuditRow)
           /\ Len(trail) \in Nat /\ Len(Append(trail, row)) = Len(trail) + 1
           /\ Append(trail, row)[Len(trail) + 1] = row
           /\ \A i \in 1 .. Len(trail) : Append(trail, row)[i] = trail[i]
           /\ row.to = "none" => Moves(Append(trail, row)) = Moves(trail)
           /\ row.to # "none" => Moves(Append(trail, row)) = Moves(trail) \cup {Len(trail) + 1}
<1>1. Append(trail, row) \in Seq(AuditRow)
  OBVIOUS
<1>2. /\ Len(trail) \in Nat /\ Len(Append(trail, row)) = Len(trail) + 1
      /\ Append(trail, row)[Len(trail) + 1] = row
      /\ \A i \in 1 .. Len(trail) : Append(trail, row)[i] = trail[i]
  OBVIOUS
<1>3. PICK longer : longer = Append(trail, row)
  OBVIOUS
<1>4. 1 .. Len(longer) = (1 .. Len(trail)) \cup {Len(trail) + 1}
  BY <1>2, <1>3
<1>5. /\ row.to = "none" => Moves(longer) = Moves(trail)
      /\ row.to # "none" => Moves(longer) = Moves(trail) \cup {Len(trail) + 1}
  BY <1>2, <1>3, <1>4 DEF Moves
<1> QED BY <1>1, <1>2, <1>3, <1>5

\* A transition written at the end of a trail continues it.
LEMMA TrailGrows ==
    ASSUME NEW trail \in Seq(AuditRow), NEW row \in AuditRow, NEW status,
           Retraces(trail, status),
           row.from = status, row.to # "none", row.to \in TRANSITIONS[status],
           IF row.to \in SYSTEM_TARGETS THEN row.actor = "system"
                                        ELSE RoleOf[row.actor] \in ROLE_BY_TARGET[row.to]
    PROVE  Retraces(Append(trail, row), row.to)
<1> DEFINE n == Len(trail) + 1
<1>1. PICK longer : longer = Append(trail, row)
  OBVIOUS
<1>2. /\ Len(trail) \in Nat /\ longer[n] = row
      /\ \A i \in 1 .. Len(trail) : longer[i] = trail[i]
      /\ Moves(longer) = Moves(trail) \cup {n}
  BY <1>1, AppendedRows
<1>3. \A i \in Moves(trail) : i \in Nat /\ i < n /\ longer[i] = trail[i]
  BY <1>2 DEF Moves
<1>4. PICK last \in Moves(trail) : trail[last].to = status /\ \A k \in Moves(trail) : k <= last
  BY DEF Retraces
<1>5. longer[n].to = row.to /\ \A k \in Moves(longer) : k <= n
  BY <1>2, <1>3
<1>6. ASSUME NEW i \in Moves(longer), NEW j \in Moves(longer), i < j,
             \A k \in Moves(longer) : k <= i \/ j <= k
      PROVE  Follows(longer[j], longer[i])
  <2>1. CASE j = n
    <3>1. i \in Moves(trail)
      BY <1>2, <1>6, <2>1
    <3>2. last <= i
      <4>1. last \in Nat /\ last < n /\ n \in Nat /\ last \in Moves(longer)
        BY <1>2, <1>3, <1>4
      <4>2. last <= i \/ n <= last
        BY <1>6, <2>1, <4>1
      <4> QED BY <4>1, <4>2
    <3>3. i = last
      BY <1>3, <1>4, <3>1, <3>2
    <3>4. longer[i].to = status
      BY <1>3, <1>4, <3>3
    <3> QED BY <1>2, <2>1, <3>4 DEF Follows
  <2>2. CASE j # n
    <3>1. j \in Moves(trail) /\ i \in Moves(trail)
      BY <1>2, <1>3, <1>6, <2>2
    <3>2. \A k \in Moves(trail) : k <= i \/ j <= k
      BY <1>2, <1>6
    <3>3. Follows(trail[j], trail[i])
      BY <1>6, <3>1, <3>2 DEF Retraces
    <3> QED BY <1>3, <3>1, <3>3
  <2> QED BY <2>1, <2>2
<1>7. n \in Moves(longer)
  BY <1>2
<1> QED BY <1>1, <1>5, <1>6, <1>7 DEF Retraces

\* A row that records no transition leaves the trail as it was.
LEMMA TrailNotes ==
    ASSUME NEW trail \in Seq(AuditRow), NEW row \in AuditRow, NEW status,
           Retraces(trail, status), row.to = "none"
    PROVE  Retraces(Append(trail, row), status)
<1>1. PICK longer : longer = Append(trail, row)
  OBVIOUS
<1>2. /\ \A i \in 1 .. Len(trail) : longer[i] = trail[i]
      /\ Moves(longer) = Moves(trail)
  BY <1>1, AppendedRows
<1>3. \A i \in Moves(trail) : longer[i] = trail[i]
  BY <1>2 DEF Moves
<1> QED BY <1>1, <1>2, <1>3 DEF Retraces

\* The rows a transition of the case writes.
LEMMA TrailRow ==
    ASSUME case \in CaseRow, case.status \in ReturnStatus,
           NEW actor \in Users \cup {"system"}, NEW to \in TRANSITIONS[case.status]
    PROVE  /\ Trail(actor, to) \in AuditRow
           /\ Trail(actor, to).actor = actor /\ Trail(actor, to).from = case.status
           /\ Trail(actor, to).to = to /\ to # "none" /\ to \in ReturnStatus
<1>1. to \in ReturnStatus /\ case.status # "absent" /\ "none" \notin ReturnStatus
  BY DeclaredMoves DEF ReturnStatus
<1> QED BY <1>1, TrailType DEF Trail

\* A declared transition of the case by somebody entitled to it, with its row.
LEMMA MoveRetraces ==
    ASSUME TypeOK, AuditRetraces, case.status \in ReturnStatus,
           NEW actor \in Users \cup {"system"}, NEW to \in TRANSITIONS[case.status],
           IF to \in SYSTEM_TARGETS THEN actor = "system" ELSE RoleOf[actor] \in ROLE_BY_TARGET[to],
           audit' = Append(audit, Trail(actor, to)),
           case'.status = to, case'.version = case.version + 1
    PROVE  AuditRetraces'
<1>1. PICK trail, row : trail = audit /\ row = Trail(actor, to)
  OBVIOUS
<1>2. PICK status : status = case.status
  OBVIOUS
<1>3. /\ trail \in Seq(AuditRow) /\ row \in AuditRow /\ row.actor = actor
      /\ row.from = status /\ row.to = to /\ to # "none" /\ to \in ReturnStatus
  <2>1. audit \in Seq(AuditRow) /\ case \in CaseRow
    BY DEF TypeOK
  <2>2. /\ Trail(actor, to) \in AuditRow
        /\ Trail(actor, to).actor = actor /\ Trail(actor, to).from = case.status
        /\ Trail(actor, to).to = to /\ to # "none" /\ to \in ReturnStatus
    BY <2>1, TrailRow
  <2> QED BY <1>1, <1>2, <2>1, <2>2
<1>4. Retraces(trail, status) /\ Len(trail) = case.version
  BY <1>1, <1>2, DeclaredMoves DEF AuditRetraces
<1>5. Retraces(Append(trail, row), to)
  BY <1>2, <1>3, <1>4, TrailGrows
<1>6. audit' = Append(trail, row) /\ Len(Append(trail, row)) = Len(trail) + 1
  BY <1>1, <1>3, AppendedRows
<1> QED BY <1>4, <1>5, <1>6 DEF AuditRetraces

LEMMA CreateRetraces == ASSUME IInv, NEW u \in Users, Create(u) PROVE AuditRetraces'
<1>1. PICK row : row = [actor |-> u, from |-> "none", to |-> "requested"]
  OBVIOUS
<1>2. audit' = <<row>> /\ case'.status = "requested" /\ case'.version = 1
  BY <1>1 DEF Create
<1>3. Len(<<row>>) = 1 /\ <<row>>[1] = row /\ row.to = "requested"
  BY <1>1
<1>4. Moves(<<row>>) = {1}
  BY <1>3 DEF Moves
<1>5. Retraces(<<row>>, "requested")
  BY <1>3, <1>4 DEF Retraces
<1> QED BY <1>2, <1>3, <1>5 DEF AuditRetraces

LEMMA TransitionRetraces ==
    ASSUME IInv, AuditRetraces, NEW r \in Requests, CommitTransition(r) PROVE AuditRetraces'
<1>1. TypeOK /\ case \in CaseRow /\ req[r].pc # "idle" /\ Swapped(r) /\ req[r].user \in Users
  BY DEF IInv, TypeOK, CommitTransition, Request
<1>2. /\ case.status \in ReturnStatus /\ req[r].op \in Ops
      /\ Target[req[r].op] \in ReturnStatus
      /\ Target[req[r].op] \in TRANSITIONS[case.status]
      /\ RoleOf[req[r].user] \in ROLE_BY_TARGET[Target[req[r].op]]
  BY <1>1, SwapMeets, Targets
<1>3. Target[req[r].op] \notin SYSTEM_TARGETS
  BY <1>2 DEF Target, Ops, SYSTEM_TARGETS
<1>4. /\ case' = Moved(Target[req[r].op])
      /\ audit' = Append(audit, Trail(req[r].user, Target[req[r].op]))
  BY DEF CommitTransition
<1>5. case'.status = Target[req[r].op] /\ case'.version = case.version + 1
  BY <1>1, <1>2, <1>4, MovedType
<1> QED BY <1>1, <1>2, <1>3, <1>4, <1>5, MoveRetraces

LEMMA FirstApprovalRetraces ==
    ASSUME IInv, AuditRetraces, NEW r \in Requests, CommitFirstApproval(r) PROVE AuditRetraces'
<1>1. PICK trail, row : trail = audit /\ row = [actor |-> req[r].user, from |-> "none", to |-> "none"]
  OBVIOUS
<1>2. case \in CaseRow /\ req[r].user \in Users /\ trail \in Seq(AuditRow)
  BY <1>1 DEF IInv, TypeOK, Request
<1>3. row \in AuditRow /\ row.to = "none"
  BY <1>1, <1>2 DEF AuditRow
<1>4. /\ case'.status = case.status /\ case'.version = case.version + 1
      /\ audit' = Append(trail, row)
  BY <1>1, <1>2 DEF CommitFirstApproval, CaseRow
<1>5. PICK status : status = case.status
  OBVIOUS
<1>6. status # "absent" => Retraces(Append(trail, row), status)
  BY <1>1, <1>2, <1>3, <1>5, TrailNotes DEF AuditRetraces
<1>7. Len(Append(trail, row)) = Len(trail) + 1 /\ Len(trail) = case.version
  BY <1>1, <1>2, <1>3, AppendedRows DEF AuditRetraces
<1> QED BY <1>4, <1>5, <1>6, <1>7 DEF AuditRetraces

\* The approval and the plan are two transitions of one commit.
LEMMA ApprovalRetraces ==
    ASSUME IInv, AuditRetraces, NEW r \in Requests, CommitApproval(r) PROVE AuditRetraces'
<1>1. /\ TypeOK /\ case \in CaseRow /\ case.version \in Nat /\ req[r].user \in Users
      /\ audit \in Seq(AuditRow)
  BY DEF IInv, TypeOK, Request, CaseRow
<1>2. /\ case.status = "inspected" /\ attempt = NoAttempt
      /\ RoleOf[req[r].user] \in {"finance", "admin"}
      /\ case' = [case EXCEPT !.status = "refund_pending", !.version = @ + 2,
                              !.approved = req[r].amount]
  BY PlanFacts
<1>3. PICK trail, approved, planned :
          /\ trail = audit
          /\ approved = Trail(req[r].user, "refund_approved")
          /\ planned = [actor |-> "system", from |-> "refund_approved", to |-> "refund_pending"]
  OBVIOUS
<1>4. /\ "refund_approved" \in TRANSITIONS["inspected"]
      /\ "refund_pending" \in TRANSITIONS["refund_approved"]
      /\ "inspected" \in ReturnStatus /\ "refund_approved" \in ReturnStatus
      /\ "refund_pending" \in ReturnStatus
      /\ "refund_approved" \notin SYSTEM_TARGETS /\ "refund_pending" \in SYSTEM_TARGETS
  BY DEF TRANSITIONS, ReturnStatus, SYSTEM_TARGETS
<1>5. /\ approved \in AuditRow /\ approved.actor = req[r].user /\ approved.from = "inspected"
      /\ approved.to = "refund_approved"
  BY <1>1, <1>2, <1>3, <1>4, TrailRow
<1>6. /\ planned \in AuditRow /\ planned.actor = "system" /\ planned.from = "refund_approved"
      /\ planned.to = "refund_pending"
  BY <1>3, <1>4 DEF AuditRow
<1>7. Retraces(trail, "inspected") /\ Len(trail) = case.version /\ trail \in Seq(AuditRow)
  BY <1>1, <1>2, <1>3 DEF AuditRetraces
<1>8. RoleOf[approved.actor] \in ROLE_BY_TARGET["refund_approved"]
  BY <1>2, <1>5, Targets
<1>9. PICK middle : middle = Append(trail, approved)
  OBVIOUS
<1>10. /\ middle \in Seq(AuditRow) /\ Len(middle) = case.version + 1
       /\ Retraces(middle, "refund_approved")
  BY <1>4, <1>5, <1>7, <1>8, <1>9, TrailGrows, AppendedRows
<1>11. /\ Len(Append(middle, planned)) = Len(middle) + 1
       /\ Retraces(Append(middle, planned), "refund_pending")
  BY <1>4, <1>6, <1>10, TrailGrows, AppendedRows
<1>12. audit' = Append(middle, planned)
  <2>1. audit' = trail \o <<approved, planned>>
    BY <1>2, <1>3, Zenon DEF CommitApproval
  <2>2. trail \o <<approved, planned>> = Append(middle, planned)
    BY <1>5, <1>6, <1>7, <1>9
  <2> QED BY <2>1, <2>2
<1>13. case'.status = "refund_pending" /\ case'.version = case.version + 2
  BY <1>1, <1>2 DEF CaseRow
<1> QED BY <1>1, <1>10, <1>11, <1>12, <1>13 DEF AuditRetraces

LEMMA PipelineRetraces == ASSUME IInv, AuditRetraces, PipelineStep PROVE AuditRetraces'
<1>1. PICK s \in Unsettled \cup {"refunded"} :
          /\ case.status \in ReturnStatus
          /\ case' = IF s = case.status THEN case ELSE Moved(s)
          /\ audit' = IF s = case.status THEN audit ELSE Append(audit, Trail("system", s))
          /\ s # case.status => s \in TRANSITIONS[case.status]
          /\ s \in SYSTEM_TARGETS
  BY PipelineMoves DEF IInv
<1>2. CASE s = case.status
  BY <1>1, <1>2 DEF AuditRetraces
<1>3. CASE s # case.status
  <2>1. case'.status = s /\ case'.version = case.version + 1
    BY <1>1, <1>3, MovedType, DeclaredMoves DEF IInv, TypeOK
  <2> QED BY <1>1, <1>3, <2>1, MoveRetraces DEF IInv
<1> QED BY <1>2, <1>3

LEMMA InitRetraces == Init => AuditRetraces
BY DEF Init, AuditRetraces, NoCase

LEMMA NextRetraces == IInv /\ AuditRetraces /\ [Next]_vars => AuditRetraces'
<1> SUFFICES ASSUME IInv, AuditRetraces, [Next]_vars PROVE AuditRetraces'
  OBVIOUS
<1>1. CASE UNCHANGED <<case, audit>>
  BY <1>1 DEF AuditRetraces
<1> QED
  BY <1>1, CreateRetraces, TransitionRetraces, FirstApprovalRetraces, ApprovalRetraces,
     PipelineRetraces
  DEF Next, RequestStep, Load, JudgeApproval, EndsInError, Restart, Ended, vars

\* Nobody can move a case past its trail: the audit rows are the life of the case,
\* one for each version, each by somebody entitled to it.
THEOREM TrailRetraces == Spec => []AuditRetraces
BY InitIInv, NextIInv, InitRetraces, NextRetraces, PTL DEF Spec
=============================================================================
