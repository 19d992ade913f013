---------------------------- MODULE DemoSessions ----------------------------
(***************************************************************************)
(* The demo sessions of the API: a dictionary in the memory of the one API *)
(* process, guarded by a lock, and the requests that use it                *)
(* (services/demo_auth.py, api/deps.py, api/routes.py).                    *)
(*                                                                         *)
(* A session is looked up under the lock; its user and membership are then *)
(* read from the database outside of it, so that it may be revoked, or the *)
(* account changed, between these steps.  A row the request has loaded     *)
(* before reads as it was loaded, for as long as the request still refers  *)
(* to the object: the ORM keeps one object a row, by a weak reference.     *)
(*                                                                         *)
(* A browser is its cookie.  Its tabs share it and send what they like at  *)
(* any time, several requests of one tab included (frontend/src/App.tsx    *)
(* loads in parallel and lets the role be switched meanwhile), so that an  *)
(* answer may set the cookie after a later request has gone out.           *)
(***************************************************************************)
EXTENDS Naturals, FiniteSets

CONSTANTS
    Users, Roles,  \* demo identities and the roles they may have
    Tokens,        \* tokens the process draws
    Slots,         \* requests on their way or in process at a time
    MaxChanges,    \* bound: account changes and restarts
    Nobody, NoRole, NoToken

ASSUME NobodyAssumption == Nobody \notin Users /\ NoRole \notin Roles /\ NoToken \notin Tokens
ASSUME ChangesAssumption == MaxChanges \in Nat

VARIABLES
    sessions,  \* _sessions: by token, its user and whether it has expired
    drawn,     \* tokens drawn so far
    account,   \* rows of user_account and membership
    jar,       \* the browser's cookie
    req,       \* the requests on their way or in process
    gone,      \* history: tokens revoked, evicted or expired
    changes

vars == <<sessions, drawn, account, jar, req, gone, changes>>

Session == [user : Users \cup {Nobody}, expired : BOOLEAN]
Account == [active : BOOLEAN, role : Roles \cup {NoRole}]
Kinds == {"sign_in", "status", "act", "sign_out"}
Request == [pc : {"free", "start", "drawn", "look", "found", "read", "resolved",
                  "accepted", "revoked"},
            kind : Kinds, token : Tokens \cup {NoToken},
            user : Users \cup {Nobody}, active : BOOLEAN, role : Roles \cup {NoRole},
            stale : BOOLEAN, wasActive : BOOLEAN, held : SUBSET Roles]

\* Sessions, accounts and requests keep their types, and a request whose account
\* has been read has a role: a membership that goes away meanwhile is no role.
TypeOK ==
    /\ sessions \in [Tokens -> Session]
    /\ drawn \in SUBSET Tokens
    /\ account \in [Users -> Account]
    /\ jar \in Tokens \cup {NoToken}
    /\ req \in [Slots -> Request]
    /\ gone \in SUBSET Tokens
    /\ changes \in Nat
    /\ \A r \in Slots : req[r].pc \in {"resolved", "accepted"} => req[r].role \in Roles

-----------------------------------------------------------------------------
NoSession == [user |-> Nobody, expired |-> FALSE]
Free == [pc |-> "free", kind |-> "status", token |-> NoToken, user |-> Nobody,
         active |-> FALSE, role |-> NoRole, stale |-> FALSE, wasActive |-> FALSE, held |-> {}]

Init ==
    /\ sessions = [k \in Tokens |-> NoSession]
    /\ drawn = {}
    /\ account \in [Users -> [active : {TRUE}, role : Roles]]
    /\ jar = NoToken
    /\ req = [r \in Slots |-> Free]
    /\ gone = {}
    /\ changes = 0

Change == changes < MaxChanges /\ changes' = changes + 1   \* bound

Dropped(k) == sessions' = [sessions EXCEPT ![k] = NoSession] /\ gone' = gone \cup {k}

-----------------------------------------------------------------------------
(***************************************************************************)
(* The browser.                                                            *)
(***************************************************************************)
Drawing == {r \in Slots : req[r].pc \in {"start", "drawn"}}

\* Some tab sends a request with the cookie as it is now.  Once somebody has signed
\* in a tab may show them for ever, and act or sign out, whatever the cookie is.
Send(r, kind) ==
    /\ req[r].pc = "free"
    /\ kind \in {"act", "sign_out"} => drawn # {}
    /\ kind = "sign_in" => Cardinality(Drawing) < Cardinality(Tokens \ drawn)   \* bound
    /\ req' = [req EXCEPT ![r] =
                 [Free EXCEPT !.pc = IF kind = "sign_in" THEN "start" ELSE "look",
                              !.kind = kind, !.token = jar, !.stale = (jar \in gone)]]
    /\ UNCHANGED <<sessions, drawn, account, jar, gone, changes>>

\* An error, or an answer that there is no session: neither sets a cookie.
Refused(r) == req' = [req EXCEPT ![r] = Free]

-----------------------------------------------------------------------------
(***************************************************************************)
(* The API.                                                                *)
(***************************************************************************)
\* issue_demo_session reads the active users of the role that was asked for ...
PickUser(r) ==
    /\ req[r].pc = "start"
    /\ IF \E u \in Users : account[u].active /\ account[u].role # NoRole
       THEN /\ \E u \in Users :
                  /\ account[u].active /\ account[u].role # NoRole
                  /\ req' = [req EXCEPT ![r].pc = "drawn", ![r].user = u,
                                        ![r].active = TRUE, ![r].wasActive = TRUE,
                                        ![r].held = {account[u].role}]
       ELSE Refused(r)
    /\ UNCHANGED <<sessions, drawn, account, jar, gone, changes>>

\* ... and puts a session under a token nobody has had before.
Register(r) ==
    /\ req[r].pc = "drawn"
    /\ \E k \in Tokens \ drawn :
          /\ sessions' = [sessions EXCEPT ![k] = [user |-> req[r].user, expired |-> FALSE]]
          /\ drawn' = drawn \cup {k}
          /\ req' = [req EXCEPT ![r].pc = "look", ![r].token = k, ![r].stale = FALSE]
    /\ UNCHANGED <<account, jar, gone, changes>>

\* resolve_demo_session under the lock.
LookUp(r) ==
    LET k == req[r].token
    IN  /\ req[r].pc = "look" /\ req[r].kind # "sign_out"
        /\ IF k # NoToken /\ sessions[k] # NoSession /\ ~sessions[k].expired
           THEN /\ req' = [req EXCEPT ![r].pc = "found", ![r].user = sessions[k].user,
                              ![r].wasActive = (@ \/ account[sessions[k].user].active),
                              ![r].held = @ \cup ({account[sessions[k].user].role} \ {NoRole})]
                /\ UNCHANGED <<sessions, gone>>
           ELSE /\ IF k = NoToken THEN UNCHANGED <<sessions, gone>> ELSE Dropped(k)
                /\ Refused(r)
        /\ UNCHANGED <<drawn, account, jar, changes>>

\* Mutated form: the session vouches for its user.
ReadUserTrusting(r) ==
    /\ req[r].pc = "found"
    /\ req' = [req EXCEPT ![r].pc = "read", ![r].active = TRUE]
    /\ UNCHANGED <<sessions, drawn, account, jar, gone, changes>>

\* db.get(User): a sign-in has loaded the row already.
ReadUser(r) ==
    /\ req[r].pc = "found"
    /\ req' = [req EXCEPT ![r].pc = "read",
                          ![r].active = (@ \/ account[req[r].user].active)]
    /\ UNCHANGED <<sessions, drawn, account, jar, gone, changes>>

\* Mutated form: a session that was used is prolonged.
ReadMembershipRenewing(r) ==
    LET role == account[req[r].user].role
    IN  /\ req[r].pc = "read"
        /\ IF req[r].active /\ role # NoRole
           THEN /\ req' = [req EXCEPT ![r].role = role,
                              ![r].pc = IF req[r].kind = "act" THEN "resolved" ELSE "accepted"]
                /\ sessions' = [sessions EXCEPT
                                   ![req[r].token] = [user |-> req[r].user, expired |-> FALSE]]
                /\ UNCHANGED gone
           ELSE Dropped(req[r].token) /\ Refused(r)
        /\ UNCHANGED <<drawn, account, jar, changes>>

\* The membership, and the verdict: a session of an inactive identity is evicted.
ReadMembership(r) ==
    LET role == account[req[r].user].role
    IN  /\ req[r].pc = "read"
        /\ IF req[r].active /\ role # NoRole
           THEN /\ req' = [req EXCEPT ![r].role = role,
                              ![r].pc = IF req[r].kind = "act" THEN "resolved" ELSE "accepted"]
                /\ UNCHANGED <<sessions, gone>>
           ELSE Dropped(req[r].token) /\ Refused(r)
        /\ UNCHANGED <<drawn, account, jar, changes>>

\* Mutated form: a membership that is gone is read as one without a role.
ResolveTenantUnchecked(r) ==
    /\ req[r].pc = "resolved"
    /\ \E role \in {req[r].role, account[req[r].user].role} :
          req' = [req EXCEPT ![r].pc = "accepted", ![r].role = role]
    /\ UNCHANGED <<sessions, drawn, account, jar, gone, changes>>

\* resolve_tenant selects the membership again.  Nothing refers to the object that
\* was loaded before: the role is the earlier one if it still exists, else the
\* present one.
ResolveTenant(r) ==
    /\ req[r].pc = "resolved"
    /\ IF account[req[r].user].role # NoRole
       THEN \E role \in {req[r].role, account[req[r].user].role} :
               req' = [req EXCEPT ![r].pc = "accepted", ![r].role = role]
       ELSE Refused(r)
    /\ UNCHANGED <<sessions, drawn, account, jar, gone, changes>>

\* demo_session_delete: the session goes, whether or not it exists.
Revoke(r) ==
    /\ req[r].pc = "look" /\ req[r].kind = "sign_out"
    /\ IF req[r].token = NoToken THEN UNCHANGED <<sessions, gone>> ELSE Dropped(req[r].token)
    /\ req' = [req EXCEPT ![r].pc = "revoked"]
    /\ UNCHANGED <<drawn, account, jar, changes>>

\* The cookie of the answer: a sign-in sets it, a sign-out deletes it.
Cookie(q) ==
    CASE q.kind = "sign_in"  -> q.token
      [] q.kind = "sign_out" -> NoToken
      [] OTHER               -> jar

\* The answer reaches the browser, which keeps its cookie, or is lost.
Reply(r) ==
    /\ req[r].pc \in {"accepted", "revoked"}
    /\ req' = [req EXCEPT ![r] = Free]
    /\ jar' \in {jar, Cookie(req[r])}
    /\ UNCHANGED <<sessions, drawn, account, gone, changes>>

-----------------------------------------------------------------------------
(***************************************************************************)
(* The world.                                                              *)
(***************************************************************************)
\* An administrator changes an account in the database.
ChangeAccount(u) ==
    /\ \E a \in Account : a # account[u] /\ account' = [account EXCEPT ![u] = a]
    /\ req' = [r \in Slots |->
                  IF req[r].user = u /\ req[r].pc # "free"
                  THEN [req[r] EXCEPT !.wasActive = (@ \/ account'[u].active),
                                      !.held = @ \cup ({account'[u].role} \ {NoRole})]
                  ELSE req[r]]
    /\ Change
    /\ UNCHANGED <<sessions, drawn, jar, gone>>

Expire(k) ==
    /\ sessions[k] # NoSession /\ ~sessions[k].expired
    /\ sessions' = [sessions EXCEPT ![k].expired = TRUE]
    /\ gone' = gone \cup {k}
    /\ UNCHANGED <<drawn, account, jar, req, changes>>

\* The API restarts: its dictionary and the requests in process are lost.
Restart ==
    /\ sessions' = [k \in Tokens |-> NoSession]
    /\ gone' = drawn
    /\ req' = [r \in Slots |-> Free]
    /\ Change
    /\ UNCHANGED <<drawn, account, jar>>

ServerStep(r) ==
    \/ PickUser(r) \/ Register(r) \/ LookUp(r) \/ ReadUser(r) \/ ReadMembership(r)
    \/ ResolveTenant(r) \/ Reply(r) \/ Revoke(r)

Next ==
    \/ \E r \in Slots : ServerStep(r) \/ \E kind \in Kinds : Send(r, kind)
    \/ \E u \in Users : ChangeAccount(u)
    \/ \E k \in Tokens : Expire(k)
    \/ Restart

Spec == Init /\ [][Next]_vars

-----------------------------------------------------------------------------
(***************************************************************************)
(* Properties.                                                             *)
(***************************************************************************)
Past == {"found", "read", "resolved", "accepted"}

\* A session that was revoked, evicted, expired or lost by a restart admits no
\* request that starts afterwards, whatever requests were in the middle of
\* resolving it then.
GoneStaysGone == \A r \in Slots : req[r].stale => req[r].pc \notin Past

\* Whoever is accepted was active at some moment of the request, and acts in a
\* role the account had at some moment of it: nothing is remembered from earlier.
FreshAuthority ==
    \A r \in Slots : req[r].pc = "accepted" => req[r].wasActive /\ req[r].role \in req[r].held
=============================================================================
