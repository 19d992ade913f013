------------------------------ MODULE OnceOnly ------------------------------
(***************************************************************************)
(* What an idempotency key promises: the operation behind a key takes      *)
(* effect at most once, for one form, and every answer given under the key *)
(* tells of that effect.  An answer may be given ahead of the effect: then *)
(* this is the effect the key will have, unless it is broken off, and      *)
(* nobody else is told anything under the key in the meantime.             *)
(***************************************************************************)
CONSTANTS Keys, Results, Nothing

VARIABLES
    done,    \* what took effect under each key, or Nothing
    pledged, \* the result, if any, that was answered and has not taken effect yet
    answers  \* the positive answers given: [key, result]

OnceInit ==
    /\ done = [k \in Keys |-> Nothing]
    /\ pledged = [k \in Keys |-> {}]
    /\ answers = {}

MayTell(k, result) == answers' \in {answers, answers \cup {[key |-> k, result |-> result]}}

Pledge(k) ==
    /\ done[k] = Nothing /\ pledged[k] = {}
    /\ \E result \in pledged'[k] : /\ result \in Results
                                   /\ pledged' = [pledged EXCEPT ![k] = {result}]
                                   /\ MayTell(k, result)
    /\ UNCHANGED done

BreakOff(k) ==
    /\ pledged' = [pledged EXCEPT ![k] = {}]
    /\ UNCHANGED <<done, answers>>

Do(k) ==
    /\ done[k] = Nothing
    /\ done'[k] \in Results
    /\ done' = [done EXCEPT ![k] = done'[k]]
    /\ IF pledged[k] = {} THEN MayTell(k, done'[k])
                          ELSE pledged[k] = {done'[k]} /\ UNCHANGED answers
    /\ pledged' = [pledged EXCEPT ![k] = {}]

Tell(k) ==
    /\ done[k] # Nothing
    /\ answers' = answers \cup {[key |-> k, result |-> done[k]]}
    /\ UNCHANGED <<done, pledged>>

OnceNext == \E k \in Keys : Pledge(k) \/ BreakOff(k) \/ Do(k) \/ Tell(k)

OnceSpec == OnceInit /\ [][OnceNext]_<<done, pledged, answers>>
=============================================================================
