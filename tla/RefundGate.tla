----------------------------- MODULE RefundGate -----------------------------
(***************************************************************************)
(* What the human side of a return promises about its money, seen from     *)
(* outside: finance users consent to amounts, and a refund is planned      *)
(* once, for an amount its planner consents to and that does not exceed    *)
(* the request; an amount at or above the limit in force needs the consent *)
(* of another user to the same amount first.  A gate that was shut by a    *)
(* rejection never opens.                                                  *)
(***************************************************************************)
EXTENDS Naturals

CONSTANTS Approvers, Requestable   \* who may consent, and to how much

VARIABLES
    requested,  \* the amount asked for, 0 before the return exists
    consents,   \* set of [user, amount]
    plan,       \* the planned amount, 0 before
    shut,       \* was the return rejected?
    limit       \* the amount from which two people are needed

gate == <<requested, consents, plan, shut, limit>>

GateInit == requested = 0 /\ consents = {} /\ plan = 0 /\ ~shut

Ask ==
    /\ requested = 0
    /\ requested' \in Requestable
    /\ UNCHANGED <<consents, plan, shut, limit>>

Consented(u, a) == consents' = consents \cup {[user |-> u, amount |-> a]}

\* A consent alone: one of two for an amount at or above the limit.
Consent(u, a) ==
    /\ plan = 0 /\ ~shut /\ a <= requested
    /\ a >= limit
    /\ Consented(u, a)
    /\ UNCHANGED <<requested, plan, shut, limit>>

Plan(u, a) ==
    /\ plan = 0 /\ ~shut /\ a <= requested
    /\ a >= limit => \E c \in consents : c.amount = a /\ c.user # u
    /\ Consented(u, a)
    /\ plan' = a
    /\ UNCHANGED <<requested, shut, limit>>

Shut == plan = 0 /\ shut' = TRUE /\ UNCHANGED <<requested, consents, plan, limit>>

Retune == limit' \in Nat /\ UNCHANGED <<requested, consents, plan, shut>>

GateNext ==
    \/ Ask \/ Shut \/ Retune
    \/ \E u \in Approvers, a \in Requestable : Consent(u, a) \/ Plan(u, a)

GateSpec == GateInit /\ [][GateNext]_gate
=============================================================================
