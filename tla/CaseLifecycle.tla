--------------------------- MODULE CaseLifecycle ----------------------------
(***************************************************************************)
(* One return case from its request to its closing, as people move it:     *)
(* customer service opens and authorizes it, the warehouse receives and    *)
(* inspects it, finance approves the refund - two people for a high one -  *)
(* or somebody rejects it, and finance reconciles and closes it            *)
(* (services/returns.py, refunds.py, case_store.py).                       *)
(*                                                                         *)
(* Requests run at the same time, also several of one user, each in a      *)
(* transaction of its own under READ COMMITTED: the server loads the case  *)
(* (Load), an approval then loads the approvals given so far with a second *)
(* statement (JudgeApproval), and the writes are made together at the      *)
(* commit, behind an UPDATE that names the version and the status that     *)
(* were loaded.  A refused request changes nothing.                        *)
(*                                                                         *)
(* The refund between `refund_pending' and `refunded' is the promise of    *)
(* RefundPromise, which RefundPipeline implements.                         *)
(***************************************************************************)
EXTENDS Naturals, Sequences, ReturnStates

CONSTANTS
    Requests,    \* requests the API can be working on at a time
    Users,       \* members of the organization
    RoleOf,      \* the role each member has
    Amounts,     \* amounts a form may hold
    Thresholds,  \* values settings.high_value_threshold takes
    MaxVersion   \* bound: no manual retry of the refund from this version on

ASSUME MembersAssumption == Users # {} /\ RoleOf \in [Users -> Role]
ASSUME AmountsAssumption == Amounts \subseteq Nat \ {0}
ASSUME ThresholdAssumption == Thresholds \subseteq Nat /\ Thresholds # {}
ASSUME VersionAssumption == MaxVersion \in Nat

VARIABLES
    case,       \* row of return_case
    approvals,  \* rows of approval
    attempt,    \* row of refund_attempt: its amount, and the threshold it was planned under
    payments,   \* refunds the provider executed
    audit,      \* rows of audit_event about the case, oldest first
    threshold,  \* high_value_threshold of the running API
    req         \* the requests in process

vars == <<case, approvals, attempt, payments, audit, threshold, req>>

\* The operations people move a case with, by the names allowed_actions gives them.
Ops == {"authorize", "receive", "inspect", "approve_refund", "reject",
        "mark_reconciled", "close"}

\* The two on a doubtful refund.  RefundPipeline models what they do; here they
\* count as what a page offers.
DoubtOps == {"provider_reconcile", "retry_failed_refund"}

Target == [op \in Ops |->
    CASE op = "authorize"       -> "authorized"
      [] op = "receive"         -> "received"
      [] op = "inspect"         -> "inspected"
      [] op = "approve_refund"  -> "refund_approved"
      [] op = "reject"          -> "rejected"
      [] op = "mark_reconciled" -> "reconciled"
      [] op = "close"           -> "closed"]

RefundKinds == {"refund", "high_value_refund_second"}

CaseRow == [status : ReturnStatus \cup {"absent"}, version : Nat,
            requested : Nat, approved : Nat]
Approval == [kind : RefundKinds \cup {"eligibility"}, user : Users, amount : Nat]
AuditRow == [actor : Users \cup {"system"}, from : ReturnStatus \cup {"none"},
             to : ReturnStatus \cup {"none"}]
Request == [pc : {"idle", "loaded", "judged"}, user : Users, op : Ops, amount : Nat,
            saw : CaseRow, rows : SUBSET Approval]

\* Rows and requests keep their types: no request works on a case that does not
\* exist, and amounts and versions are numbers.
TypeOK ==
    /\ case \in CaseRow
    /\ approvals \in SUBSET Approval
    /\ attempt \in [amount : Nat, limit : Nat]
    /\ payments \in Nat
    /\ audit \in Seq(AuditRow)
    /\ threshold \in Thresholds
    /\ req \in [Requests -> Request]
    /\ \A r \in Requests : req[r].pc # "idle" => req[r].saw.status # "absent"

-----------------------------------------------------------------------------
NoCase    == [status |-> "absent", version |-> 0, requested |-> 0, approved |-> 0]
NoAttempt == [amount |-> 0, limit |-> 0]
NoRequest == [pc |-> "idle", user |-> CHOOSE u \in Users : TRUE, op |-> "close",
              amount |-> 0, saw |-> NoCase, rows |-> {}]

Init ==
    /\ case = NoCase
    /\ approvals = {}
    /\ attempt = NoAttempt
    /\ payments = 0
    /\ audit = <<>>
    /\ threshold \in Thresholds
    /\ req = [r \in Requests |-> NoRequest]

-----------------------------------------------------------------------------
(***************************************************************************)
(* What the services require.                                              *)
(***************************************************************************)
require_role(u, roles) == RoleOf[u] \in roles \cup {"admin"}

\* The roles each service names at its start.
RolesFor == [op \in Ops |->
    CASE op = "authorize"              -> {"customer_service"}
      [] op \in {"receive", "inspect"} -> {"warehouse"}
      [] op = "reject"                 -> {"customer_service", "finance"}
      [] OTHER                         -> {"finance"}]

assert_transition(from, to) == to \in TRANSITIONS[from]
assert_actor_can_transition(u, to) == RoleOf[u] \in ROLE_BY_TARGET[to]

\* What is asked of the user and of the loaded case, whatever the operation.
Permits(u, op, row) ==
    /\ row.status # "absent"
    /\ require_role(u, RolesFor[op])
    /\ op = "reject" => row.status \in {"requested", "inspected"}
    /\ assert_transition(row.status, Target[op])
    /\ assert_actor_can_transition(u, Target[op])

RefundApprovals == {x \in approvals : x.kind \in RefundKinds}

HighValue(amount) == amount >= threshold

\* Mutated forms: the second approver, or the second amount, is not compared.
AcceptsApprovalOfAnybody(u, amount, rows) ==
    rows # {} => /\ HighValue(amount)
                 /\ \E first \in rows : rows = {first} /\ first.amount = amount
AcceptsAnyAmount(u, amount, rows) ==
    rows # {} => /\ HighValue(amount)
                 /\ \E first \in rows : rows = {first} /\ first.user # u

\* What is asked of the refund approvals given so far.
AcceptsApproval(u, amount, rows) ==
    rows # {} => /\ HighValue(amount)
                 /\ \E first \in rows : /\ rows = {first}
                                        /\ first.amount = amount
                                        /\ first.user # u
-----------------------------------------------------------------------------
(***************************************************************************)
(* Writes.                                                                 *)
(***************************************************************************)

\* Mutated form: the row is found by its id alone.
SwappedUnchecked(r) == case.status # "absent"

\* The UPDATE of a transition matches the row that was loaded.
Swapped(r) == case.version = req[r].saw.version /\ case.status = req[r].saw.status

\* record_audit of a transition, in the transaction of the transition.
Trail(actor, to) == [actor |-> actor, from |-> case.status, to |-> to]

Moved(to) == [case EXCEPT !.status = to, !.version = @ + 1]

\* uq_approval_case_kind_user.
Unique(row) == \A x \in approvals : ~(x.kind = row.kind /\ x.user = row.user)

AddApproval(kind, r) ==
    LET row == [kind |-> kind, user |-> req[r].user, amount |-> req[r].amount]
    IN  Unique(row) /\ approvals' = approvals \cup {row}

Done(r) == req' = [req EXCEPT ![r] = NoRequest]

-----------------------------------------------------------------------------
(***************************************************************************)
(* Actions.                                                                *)
(***************************************************************************)

\* Mutated form: the trail of a creation starts at the row as it was before.
CreateTrailedFromAbsent(u) ==
    /\ case.status = "absent"
    /\ require_role(u, {"customer_service", "automation"})
    /\ \E a \in Amounts :
          case' = [status |-> "requested", version |-> 1, requested |-> a, approved |-> 0]
    /\ audit' = <<Trail(u, "requested")>>
    /\ UNCHANGED <<approvals, attempt, payments, threshold, req>>

\* create_case: one transaction that meets no other.
Create(u) ==
    /\ case.status = "absent"
    /\ require_role(u, {"customer_service", "automation"})
    /\ \E a \in Amounts :
          case' = [status |-> "requested", version |-> 1, requested |-> a, approved |-> 0]
    /\ audit' = <<[actor |-> u, from |-> "none", to |-> "requested"]>>
    /\ UNCHANGED <<approvals, attempt, payments, threshold, req>>

\* The server loads the case.  The version the form was made from is compared
\* with the loaded one at once: a form made from an older one is refused, so the
\* version a request carries is the one it loaded.
Load(r) ==
    /\ req[r].pc = "idle"
    /\ \E u \in Users, op \in Ops, a \in Amounts \cup {0} :
          /\ Permits(u, op, case)
          /\ IF op = "approve_refund" THEN AssertApprovedAmount(case.requested, a) ELSE a = 0
          /\ req' = [req EXCEPT ![r] = [pc |-> "loaded", user |-> u, op |-> op,
                                        amount |-> a, saw |-> case, rows |-> {}]]
    /\ UNCHANGED <<case, approvals, attempt, payments, audit, threshold>>

\* authorize, receive, inspect, reject, reconcile and close_case commit.
CommitTransition(r) ==
    /\ req[r].pc = "loaded" /\ req[r].op # "approve_refund"
    /\ Swapped(r)
    /\ case' = Moved(Target[req[r].op])
    /\ audit' = Append(audit, Trail(req[r].user, Target[req[r].op]))
    /\ IF req[r].op = "authorize" THEN AddApproval("eligibility", r) ELSE UNCHANGED approvals
    /\ Done(r)
    /\ UNCHANGED <<attempt, payments, threshold>>

\* approve_refund reads the approvals, after the case, and accepts.
JudgeApproval(r) ==
    /\ req[r].pc = "loaded" /\ req[r].op = "approve_refund"
    /\ AcceptsApproval(req[r].user, req[r].amount, RefundApprovals)
    /\ req' = [req EXCEPT ![r].pc = "judged", ![r].rows = RefundApprovals]
    /\ UNCHANGED <<case, approvals, attempt, payments, audit, threshold>>

\* Mutated form: a first approval leaves the row of the case alone.
CommitFirstApprovalInPlace(r) ==
    /\ req[r].pc = "judged" /\ req[r].rows = {} /\ HighValue(req[r].amount)
    /\ AddApproval("refund", r)
    /\ audit' = Append(audit, [actor |-> req[r].user, from |-> "none", to |-> "none"])
    /\ Done(r)
    /\ UNCHANGED <<case, attempt, payments, threshold>>

\* The first approval of a high refund: the version advances, the status stays.
CommitFirstApproval(r) ==
    /\ req[r].pc = "judged" /\ req[r].rows = {} /\ HighValue(req[r].amount)
    /\ Swapped(r)
    /\ case' = [case EXCEPT !.version = @ + 1]
    /\ AddApproval("refund", r)
    /\ audit' = Append(audit, [actor |-> req[r].user, from |-> "none", to |-> "none"])
    /\ Done(r)
    /\ UNCHANGED <<attempt, payments, threshold>>

\* Mutated form: the refund is planned for the requested amount.
CommitApprovalUnconfirmed(r) ==
    /\ req[r].pc = "judged"
    /\ Swapped(r)
    /\ AddApproval(IF req[r].rows = {} THEN "refund" ELSE "high_value_refund_second", r)
    /\ case' = [case EXCEPT !.status = "refund_pending", !.version = @ + 2,
                            !.approved = case.requested]
    /\ attempt' = [amount |-> case.requested, limit |-> threshold]
    /\ audit' = audit \o <<Trail(req[r].user, "refund_approved"),
                           [actor |-> "system", from |-> "refund_approved",
                            to |-> "refund_pending"]>>
    /\ Done(r)
    /\ UNCHANGED <<payments, threshold>>

\* The only approval of a low refund or the second of a high one, and
\* _plan_refund in the same transaction: two transitions of the case.
CommitApproval(r) ==
    LET kind == IF req[r].rows = {} THEN "refund" ELSE "high_value_refund_second"
    IN  /\ req[r].pc = "judged" /\ (req[r].rows = {} => ~HighValue(req[r].amount))
        /\ Swapped(r)
        /\ AddApproval(kind, r)
        /\ IF attempt # NoAttempt
           THEN /\ case' = [Moved("refund_approved") EXCEPT !.approved = req[r].amount]
                /\ audit' = Append(audit, Trail(req[r].user, "refund_approved"))
                /\ UNCHANGED attempt
           ELSE /\ case' = [case EXCEPT !.status = "refund_pending", !.version = @ + 2,
                                        !.approved = req[r].amount]
                /\ attempt' = [amount |-> req[r].amount, limit |-> threshold]
                /\ audit' = audit \o <<Trail(req[r].user, "refund_approved"),
                                       [actor |-> "system", from |-> "refund_approved",
                                        to |-> "refund_pending"]>>
        /\ Done(r)
        /\ UNCHANGED <<payments, threshold>>

\* A refusal after the load, a lost swap, a unique key, a crash: roll-back.
EndsInError(r) ==
    /\ req[r].pc # "idle"
    /\ Done(r)
    /\ UNCHANGED <<case, approvals, attempt, payments, audit, threshold>>

\* The API is restarted, perhaps with another threshold: requests in process are
\* lost.
Restart ==
    /\ threshold' \in Thresholds
    /\ req' = [r \in Requests |-> NoRequest]
    /\ UNCHANGED <<case, approvals, attempt, payments, audit>>

-----------------------------------------------------------------------------
Promise == INSTANCE RefundPromise WITH status <- case.status

\* The workers, webhooks and reconciliations of the planned refund.
PipelineStep ==
    /\ attempt # NoAttempt
    /\ \E s \in Unsettled \cup {"refunded"} :
          /\ s = "refund_pending" /\ s # case.status => case.version < MaxVersion   \* bound
          /\ case'  = IF s = case.status THEN case ELSE Moved(s)
          /\ audit' = IF s = case.status THEN audit ELSE Append(audit, Trail("system", s))
    /\ Promise!PromiseNext
    /\ UNCHANGED <<approvals, attempt, threshold, req>>

\* Nothing is left to do.
Ended == case.status \in {"closed", "rejected"} /\ UNCHANGED vars

RequestStep(r) ==
    \/ Load(r) \/ CommitTransition(r) \/ JudgeApproval(r)
    \/ CommitFirstApproval(r) \/ CommitApproval(r) \/ EndsInError(r)

Next ==
    \/ \E u \in Users : Create(u)
    \/ \E r \in Requests : RequestStep(r)
    \/ Restart \/ PipelineStep \/ Ended

Spec == Init /\ [][Next]_vars

-----------------------------------------------------------------------------
(***************************************************************************)
(* The actions a page of the case offers (operator_queries.py), from rows  *)
(* as they are now.                                                        *)
(***************************************************************************)
OfferedTo(u, op) ==
    CASE op = "authorize"       -> RoleOf[u] \in {"customer_service", "admin"}
      [] op \in {"receive", "inspect"} -> RoleOf[u] \in {"warehouse", "admin"}
      [] op = "reject" -> RoleOf[u] \in IF case.status = "requested"
                                        THEN {"customer_service", "admin"}
                                        ELSE {"customer_service", "finance", "admin"}
      [] OTHER -> RoleOf[u] \in {"finance", "admin"}

OfferedIn == [op \in Ops \cup DoubtOps |->
    CASE op = "authorize"       -> {"requested"}
      [] op = "receive"         -> {"authorized"}
      [] op = "inspect"         -> {"received"}
      [] op = "approve_refund"  -> {"inspected"}
      [] op = "reject"          -> {"requested", "inspected"}
      [] op = "mark_reconciled" -> {"refunded"}
      [] op = "close"           -> {"reconciled"}
      [] op \in DoubtOps        -> {"refund_unknown", "needs_reconciliation"}]

\* The status of the attempt at which an operation on a doubtful refund is offered.
OfferedAt(op) == IF op = "provider_reconcile" THEN "unknown" ELSE "failed"

\* Mutated form: the first approver is offered the second approval.
allowed_actionsToFirst(u, outcome) ==
    {op \in Ops \cup DoubtOps :
        /\ case.status \in OfferedIn[op]
        /\ OfferedTo(u, op)
        /\ op = "approve_refund" => \A x, y \in RefundApprovals : x = y
        /\ op \in DoubtOps => outcome = OfferedAt(op)}

\* What is offered to a user when the attempt's row, if there is one, has the
\* status `outcome'.
allowed_actions(u, outcome) ==
    {op \in Ops \cup DoubtOps :
        /\ case.status \in OfferedIn[op]
        /\ OfferedTo(u, op)
        /\ op = "approve_refund" =>
               /\ \A x \in RefundApprovals : x.user # u
               /\ \A x, y \in RefundApprovals : x = y
        /\ op \in DoubtOps => outcome = OfferedAt(op)}

\* Would the service accept the operation from this user, if nobody interferes?
ServiceAccepts(u, op) ==
    /\ Permits(u, op, case)
    /\ op = "approve_refund" =>
          \E a \in Amounts : /\ AssertApprovedAmount(case.requested, a)
                             /\ AcceptsApproval(u, a, RefundApprovals)

\* The guards of reconcile_unknown_refund and of retry_failed_refund.
DoubtAccepts(u, op, outcome) ==
    /\ require_role(u, {"finance"})
    /\ op = "provider_reconcile"
          => case.status \in {"refund_unknown", "needs_reconciliation"}
    /\ op = "retry_failed_refund"
          => case.status = "needs_reconciliation" /\ outcome = "failed"

Accepted(u, outcome) ==
    {op \in Ops : ServiceAccepts(u, op)} \cup {op \in DoubtOps : DoubtAccepts(u, op, outcome)}

-----------------------------------------------------------------------------
(***************************************************************************)
(* Properties.                                                             *)
(***************************************************************************)

\* A refund at or above the threshold it was planned under was approved, for
\* that amount, by two different finance users or administrators, however many
\* requests of how many browser tabs overlapped.
FourEyes ==
    (attempt # NoAttempt /\ attempt.amount >= attempt.limit) =>
        \E x, y \in RefundApprovals :
            /\ x.user # y.user
            /\ x.amount = attempt.amount /\ y.amount = attempt.amount
            /\ {RoleOf[x.user], RoleOf[y.user]} \subseteq {"finance", "admin"}

\* The planned refund is the one that was approved: the amount on the case, on
\* the attempt and on every refund approval is the same and within the request.
PlannedAsApproved ==
    attempt # NoAttempt =>
        /\ attempt.amount = case.approved
        /\ AssertApprovedAmount(case.requested, attempt.amount)
        /\ \A x \in RefundApprovals : x.amount = attempt.amount

\* A rejected return moves no money: no refund is planned, and none executed,
\* although an approval and a rejection may be in process at the same time.
RejectedMovesNoMoney ==
    case.status = "rejected" => attempt = NoAttempt /\ payments = 0

\* No approval given so far has become one of a low refund: below the threshold
\* in force a first approval is refused as the last one (refunds.py:106), and a
\* restart with a higher threshold strands the case.
ApprovalsStillCount == \A x \in RefundApprovals : HighValue(x.amount)

\* An inspected return is never stuck between approvals: somebody could give the
\* approval that is missing now, unless the threshold has been raised above it.
RefundStaysReachable ==
    case.status = "inspected" /\ ApprovalsStillCount
        => \E u \in Users : ServiceAccepts(u, "approve_refund")

\* The rows of a trail that record a transition.
Moves(trail) == {i \in 1 .. Len(trail) : trail[i].to # "none"}

\* The later transition starts where the earlier one ended, is declared, and was
\* taken by the system or by somebody entitled to it.
Follows(later, earlier) ==
    /\ later.from = earlier.to
    /\ later.to \in TRANSITIONS[later.from]
    /\ IF later.to \in SYSTEM_TARGETS
       THEN later.actor = "system"
       ELSE RoleOf[later.actor] \in ROLE_BY_TARGET[later.to]

\* The last transition of a trail ends in the status, and each follows the one
\* before it.
Retraces(trail, status) ==
    /\ \E i \in Moves(trail) : trail[i].to = status /\ \A k \in Moves(trail) : k <= i
    /\ \A i, j \in Moves(trail) :
          i < j /\ (\A k \in Moves(trail) : k <= i \/ j <= k) => Follows(trail[j], trail[i])

\* The trail retraces the life of the case: every version has one row, each
\* transition starts where the last one ended, the last one ended where the case
\* is, and each step owned by people was taken by somebody entitled to it.
AuditRetraces ==
    /\ Len(audit) = case.version
    /\ case.status # "absent" => Retraces(audit, case.status)

\* The service would take what no page shows: finance may reject a requested
\* return, and look up a refund whose attempt is not unknown.
HiddenFrom(u, op, outcome) ==
    \/ op = "reject" /\ case.status = "requested" /\ RoleOf[u] = "finance"
    \/ op = "provider_reconcile" /\ outcome # "unknown"

\* The page shows what the service refuses: a retry of a failed attempt while the
\* case is still refund_unknown.
OfferedInVain(op, outcome) ==
    op = "retry_failed_refund" /\ case.status = "refund_unknown" /\ outcome = "failed"

\* An action a page offers is one the service accepts, and an action it hides from
\* a user is one the service refuses that user, for every action of the page and
\* every status of the attempt, although the page repeats the rules of the services
\* in code of its own.  The exceptions are three, named above.
OffersHonoured ==
    (case.status = "inspected" => ApprovalsStillCount) =>
        \A u \in Users, outcome \in RefundAttemptStatus :
            LET offered  == allowed_actions(u, outcome)
                accepted == Accepted(u, outcome)
            IN  /\ \A op \in offered \ accepted : OfferedInVain(op, outcome)
                /\ \A op \in accepted \ offered : HiddenFrom(u, op, outcome)

\* People's side of the return is the gate of RefundGate.
Consents == {[user |-> x.user, amount |-> x.amount] : x \in RefundApprovals}
Gate == INSTANCE RefundGate WITH Approvers <- Users, Requestable <- Amounts,
            requested <- case.requested, consents <- Consents, plan <- attempt.amount,
            shut <- (case.status = "rejected"), limit <- threshold
KeepsGate == Gate!GateSpec
=============================================================================
