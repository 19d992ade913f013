------------------------- MODULE DemoSessionsProofs -------------------------
(***************************************************************************)
(* What DemoSessions guarantees for every number of identities, roles,     *)
(* tokens and requests at a time, proved with TLAPS.                       *)
(***************************************************************************)
EXTENDS DemoSessions, TLAPS

-----------------------------------------------------------------------------
(***************************************************************************)
(* The inductive invariant.                                                *)
(***************************************************************************)

\* Sessions exist only for tokens that were drawn, and belong to somebody; what
\* is gone was drawn, and admits nobody.
Dictionary ==
    /\ \A k \in Tokens : sessions[k] # NoSession => k \in drawn /\ sessions[k].user \in Users
    /\ \A k \in gone : k \in drawn /\ (sessions[k] = NoSession \/ sessions[k].expired)

\* Cookies hold tokens that were drawn.
Drawn(k) == k # NoToken => k \in drawn

\* A request that started with a token that was gone is still to be refused, or
\* is a sign-in that has not drawn its own token yet, or a sign-out.
Stale(q) == q.stale => q.pc \in {"start", "drawn", "revoked"} \/ (q.pc = "look" /\ q.token \in gone)

\* What is true of the account now has been true during the request.
Witnessed(q) ==
    /\ q.pc = "drawn" => q.user \in Users
    /\ q.pc \in Past => /\ q.user \in Users /\ q.token # NoToken
                        /\ account[q.user].active => q.wasActive
                        /\ account[q.user].role # NoRole => account[q.user].role \in q.held

\* What the request has read of the account has been true during the request.
Remembered(q) ==
    /\ q.active => q.wasActive
    /\ q.pc \in {"resolved", "accepted"} => q.active /\ q.role \in q.held

RequestHolds(q) == Drawn(q.token) /\ Stale(q) /\ Witnessed(q) /\ Remembered(q)

RequestsHold == \A r \in Slots : RequestHolds(req[r])

IInv == TypeOK /\ Dictionary /\ Drawn(jar) /\ RequestsHold

-----------------------------------------------------------------------------
(***************************************************************************)
(* Types.                                                                  *)
(***************************************************************************)
Store ==
    /\ sessions \in [Tokens -> Session]
    /\ drawn \in SUBSET Tokens
    /\ account \in [Users -> Account]
    /\ gone \in SUBSET Tokens
    /\ changes \in Nat

Talks ==
    /\ jar \in Tokens \cup {NoToken}
    /\ req \in [Slots -> Request]

LEMMA TypeParts == TypeOK => Store /\ Talks
BY DEF TypeOK, Store, Talks

\* What has been read makes the role of a request one of Roles.
LEMMA Together ==
    ASSUME Store', Talks', Dictionary', Drawn(jar)', RequestsHold'
    PROVE  IInv'
<1>1. ASSUME NEW r \in Slots, req'[r].pc \in {"resolved", "accepted"}
      PROVE  req'[r].role \in Roles
  <2>1. req'[r].role \in req'[r].held
    BY <1>1 DEF RequestsHold, RequestHolds, Remembered
  <2> QED
    BY <2>1 DEF Talks, Request
<1>2. TypeOK'
  BY <1>1 DEF TypeOK, Store, Talks
<1> QED
  BY <1>2 DEF IInv

LEMMA FreeType ==
    /\ Free \in Request /\ Free.pc = "free" /\ Free.token = NoToken
    /\ Free.stale = FALSE /\ Free.active = FALSE
BY DEF Free, Request, Kinds

LEMMA NoSessionType == NoSession \in Session
BY DEF NoSession, Session

\* Request r becomes q, and the others stay as they are.
Becomes(r, q) == q \in Request /\ req' = [req EXCEPT ![r] = q]

LEMMA BecomesTalks ==
    ASSUME Talks, NEW r \in Slots, NEW q, Becomes(r, q), jar' \in Tokens \cup {NoToken}
    PROVE  Talks'
BY DEF Talks, Becomes

-----------------------------------------------------------------------------
(***************************************************************************)
(* Requests, one field after another.                                      *)
(***************************************************************************)

LEMMA PickFields ==
    ASSUME NEW row \in Request, NEW u \in Users, NEW role \in Roles
    PROVE  LET q == [row EXCEPT !.pc = "drawn", !.user = u, !.active = TRUE,
                                !.wasActive = TRUE, !.held = {role}]
           IN  /\ q \in Request /\ q.pc = "drawn" /\ q.token = row.token
               /\ q.user = u /\ q.active = TRUE /\ q.stale = row.stale /\ q.wasActive = TRUE
BY DEF Request

LEMMA ReadFields ==
    ASSUME NEW row \in Request, NEW active \in BOOLEAN
    PROVE  LET q == [row EXCEPT !.pc = "read", !.active = active]
           IN  /\ q \in Request /\ q.pc = "read" /\ q.token = row.token
               /\ q.user = row.user /\ q.active = active
               /\ q.stale = row.stale /\ q.wasActive = row.wasActive /\ q.held = row.held
BY DEF Request

-----------------------------------------------------------------------------
(***************************************************************************)
(* The dictionary.                                                         *)
(***************************************************************************)
LEMMA DropKeeps ==
    ASSUME IInv, NEW k \in Tokens, k \in drawn, Dropped(k), UNCHANGED <<drawn, account, changes>>
    PROVE  Store' /\ Dictionary' /\ gone \subseteq gone'
<1>1. /\ sessions' = [sessions EXCEPT ![k] = NoSession] /\ gone' = gone \cup {k}
      /\ sessions \in [Tokens -> Session]
  BY DEF Dropped, IInv, TypeOK
<1>2. Store'
  BY <1>1, NoSessionType DEF IInv, TypeOK, Store
<1>3. \A j \in Tokens : sessions'[j] = NoSession \/ sessions'[j] = sessions[j]
  BY <1>1
<1>4. \A j \in gone' : j \in drawn /\ (sessions'[j] = NoSession \/ sessions'[j].expired)
  <2> SUFFICES ASSUME NEW j \in gone'
               PROVE  j \in drawn /\ (sessions'[j] = NoSession \/ sessions'[j].expired)
    OBVIOUS
  <2>1. CASE j = k
    BY <1>1, <2>1
  <2>2. CASE j \in gone
    <3>1. j \in Tokens /\ j \in drawn /\ (sessions[j] = NoSession \/ sessions[j].expired)
      BY <2>2 DEF IInv, TypeOK, Dictionary
    <3> QED
      BY <1>3, <3>1
  <2> QED
    BY <1>1, <2>1, <2>2
<1>5. \A j \in Tokens : sessions'[j] # NoSession => j \in drawn /\ sessions'[j].user \in Users
  BY <1>3 DEF IInv, Dictionary
<1>6. gone \subseteq gone'
  BY <1>1
<1> QED
  BY <1>2, <1>4, <1>5, <1>6 DEF Dictionary

\* A step of one request leaves the others what they are.
LEMMA OthersHold ==
    ASSUME Talks, RequestsHold, NEW r \in Slots, NEW q, Becomes(r, q), RequestHolds(q)',
           account' = account, drawn \subseteq drawn', gone \subseteq gone'
    PROVE  RequestsHold'
<1> SUFFICES ASSUME NEW s \in Slots PROVE RequestHolds(req[s])'
  BY DEF RequestsHold
<1>1. CASE s = r
  BY <1>1 DEF Becomes, Talks, RequestHolds, Drawn, Stale, Witnessed, Remembered
<1>2. CASE s # r
  <2>1. req'[s] = req[s]
    BY <1>2 DEF Becomes, Talks
  <2>2. RequestHolds(req[s])
    BY DEF RequestsHold
  <2> QED
    BY <2>1, <2>2 DEF RequestHolds, Drawn, Stale, Witnessed, Remembered
<1> QED
  BY <1>1, <1>2

-----------------------------------------------------------------------------
(***************************************************************************)
(* Each step of a request keeps the invariant.                             *)
(***************************************************************************)

\* A request is refused, and the dictionary is as it was or has lost its token.
LEMMA RefusedHolds ==
    ASSUME IInv, NEW r \in Slots, Refused(r), UNCHANGED <<drawn, account, jar, changes>>,
           \/ UNCHANGED <<sessions, gone>>
           \/ req[r].token # NoToken /\ Dropped(req[r].token)
    PROVE  IInv'
<1>1. Talks /\ Store
  BY TypeParts DEF IInv
<1>2. Becomes(r, Free)
  BY FreeType DEF Refused, Becomes
<1>3. Store' /\ Dictionary' /\ gone \subseteq gone'
  <2>1. CASE UNCHANGED <<sessions, gone>>
    BY <1>1, <2>1 DEF Store, IInv, Dictionary
  <2>2. CASE req[r].token # NoToken /\ Dropped(req[r].token)
    <3>1. req[r].token \in Tokens /\ req[r].token \in drawn
      BY <2>2 DEF IInv, TypeOK, Request, RequestsHold, RequestHolds, Drawn
    <3> QED
      BY <2>2, <3>1, DropKeeps
  <2> QED
    BY <2>1, <2>2
<1>4. RequestHolds(Free)'
  BY FreeType DEF RequestHolds, Drawn, Stale, Witnessed, Remembered, Past
<1>5. RequestsHold'
  BY <1>1, <1>2, <1>3, <1>4, OthersHold DEF IInv
<1>6. Talks' /\ Drawn(jar)'
  BY <1>1, <1>2, BecomesTalks DEF Talks, IInv, Drawn
<1> QED
  BY <1>3, <1>5, <1>6, Together

\* A request goes on by itself.
LEMMA GoesHolds ==
    ASSUME IInv, NEW r \in Slots, NEW q, Becomes(r, q), q.pc # "free",
           RequestHolds(q),
           UNCHANGED <<sessions, drawn, account, jar, gone, changes>>
    PROVE  IInv'
<1>1. Talks /\ Store
  BY TypeParts DEF IInv
<1>2. Talks'
  BY <1>1, BecomesTalks DEF Talks
<1>3. Store' /\ Dictionary' /\ Drawn(jar)'
  BY <1>1 DEF Store, IInv, Dictionary, Drawn
<1>4. RequestHolds(q)'
  BY DEF RequestHolds, Drawn, Stale, Witnessed, Remembered
<1>5. RequestsHold'
  BY <1>1, <1>4, OthersHold DEF IInv
<1> QED
  BY <1>2, <1>3, <1>5, Together

LEMMA PickUserHolds ==
    ASSUME IInv, NEW r \in Slots, PickUser(r)
    PROVE  IInv'
<1>0. req[r] \in Request /\ RequestHolds(req[r]) /\ req \in [Slots -> Request]
  BY DEF IInv, TypeOK, RequestsHold
<1>1. CASE Refused(r)
  BY <1>1, RefusedHolds DEF PickUser
<1>2. CASE ~Refused(r)
  <2>1. PICK u \in Users :
            /\ account[u].active /\ account[u].role # NoRole
            /\ req' = [req EXCEPT ![r].pc = "drawn", ![r].user = u, ![r].active = TRUE,
                                  ![r].wasActive = TRUE, ![r].held = {account[u].role}]
    BY <1>2 DEF PickUser
  <2>2. account[u].role \in Roles
    BY <2>1 DEF IInv, TypeOK, Account
  <2> DEFINE q == [req[r] EXCEPT !.pc = "drawn", !.user = u, !.active = TRUE,
                                 !.wasActive = TRUE, !.held = {account[u].role}]
  <2>3. /\ q \in Request /\ q.pc = "drawn" /\ q.token = req[r].token
        /\ q.user = u /\ q.active = TRUE /\ q.stale = req[r].stale /\ q.wasActive = TRUE
    BY <1>0, <2>2, PickFields
  <2>4. req' = [req EXCEPT ![r] = q]
    BY <1>0, <2>1
  <2> HIDE DEF q
  <2>5. RequestHolds(q)
    BY <1>0, <2>3 DEF RequestHolds, Drawn, Stale, Witnessed, Remembered, Past
  <2>6. UNCHANGED <<sessions, drawn, account, jar, gone, changes>>
    BY <1>2 DEF PickUser
  <2> QED
    BY <2>3, <2>4, <2>5, <2>6, GoesHolds DEF Becomes
<1> QED
  BY <1>1, <1>2

LEMMA RegisterHolds ==
    ASSUME IInv, NEW r \in Slots, Register(r)
    PROVE  IInv'
<1>0. /\ req[r] \in Request /\ RequestHolds(req[r]) /\ req \in [Slots -> Request]
      /\ req[r].pc = "drawn"
  BY DEF IInv, TypeOK, RequestsHold, Register
<1>1. PICK k \in Tokens \ drawn :
          /\ sessions' = [sessions EXCEPT ![k] = [user |-> req[r].user, expired |-> FALSE]]
          /\ drawn' = drawn \cup {k}
          /\ req' = [req EXCEPT ![r].pc = "look", ![r].token = k, ![r].stale = FALSE]
  BY DEF Register
<1>2. UNCHANGED <<account, jar, gone, changes>>
  BY DEF Register
<1>3. k \in Tokens
  OBVIOUS
<1>4. PICK row \in Request : row = req[r]
  BY <1>0
<1>5. PICK q : q = [row EXCEPT !.pc = "look", !.token = k, !.stale = FALSE]
  OBVIOUS
<1>6. /\ q \in Request /\ q.pc = "look" /\ q.token = k
      /\ q.active = req[r].active /\ q.stale = FALSE /\ q.wasActive = req[r].wasActive
  BY <1>3, <1>4, <1>5 DEF Request
<1>7. req' = [req EXCEPT ![r] = q]
  <2>1. req'[r] = q /\ \A s \in Slots : s # r => req'[s] = req[s]
    BY <1>0, <1>1, <1>4, <1>5
  <2>2. req' = [s \in Slots |-> req'[s]]
    BY <1>0, <1>1
  <2> QED
    BY <1>0, <2>1, <2>2
<1>8. RequestHolds(q)'
  BY <1>0, <1>1, <1>6 DEF RequestHolds, Drawn, Stale, Witnessed, Remembered, Past
<1>9. req[r].user \in Users
  BY <1>0 DEF RequestHolds, Witnessed
<1>10. Store'
  <2>1. [user |-> req[r].user, expired |-> FALSE] \in Session
    BY <1>9 DEF Session
  <2>2. sessions' \in [Tokens -> Session]
    BY <1>1, <2>1 DEF IInv, TypeOK
  <2> QED
    BY <1>1, <1>2, <2>2 DEF IInv, TypeOK, Store
<1>11. Dictionary'
  <2>1. \A j \in Tokens : j # k => sessions'[j] = sessions[j]
    BY <1>1 DEF IInv, TypeOK
  <2>2. sessions'[k].user \in Users
    BY <1>1, <1>9 DEF IInv, TypeOK
  <2>3. k \notin gone
    BY <1>1 DEF IInv, Dictionary
  <2>4. \A j \in Tokens : sessions'[j] # NoSession => j \in drawn' /\ sessions'[j].user \in Users
    BY <1>1, <2>1, <2>2 DEF IInv, Dictionary
  <2>5. \A j \in gone' : j \in drawn' /\ (sessions'[j] = NoSession \/ sessions'[j].expired)
    BY <1>1, <1>2, <2>1, <2>3 DEF IInv, Dictionary, TypeOK
  <2> QED
    BY <2>4, <2>5 DEF Dictionary
<1>12. Talks
  BY TypeParts DEF IInv
<1>13. Talks'
  BY <1>2, <1>6, <1>7, <1>12, BecomesTalks DEF Becomes, Talks
<1>14. RequestsHold'
  BY <1>1, <1>2, <1>6, <1>7, <1>8, <1>12, OthersHold DEF IInv, Becomes
<1>15. Drawn(jar)'
  BY <1>1, <1>2 DEF IInv, Drawn
<1> QED
  BY <1>10, <1>11, <1>13, <1>14, <1>15, Together

LEMMA LookUpHolds ==
    ASSUME IInv, NEW r \in Slots, LookUp(r)
    PROVE  IInv'
<1> DEFINE k == req[r].token
<1>0. /\ req[r] \in Request /\ RequestHolds(req[r]) /\ req \in [Slots -> Request]
      /\ req[r].pc = "look"
  BY DEF IInv, TypeOK, RequestsHold, LookUp
<1>1. CASE k # NoToken /\ sessions[k] # NoSession /\ ~sessions[k].expired
  <2>1. PICK u \in Users : u = sessions[k].user
    BY <1>0, <1>1 DEF IInv, Dictionary, Request
  <2>2. k \notin gone
    BY <1>1 DEF IInv, Dictionary
  <2>3. account[u].active \in BOOLEAN /\ account[u].role \in Roles \cup {NoRole}
    BY <2>1 DEF IInv, TypeOK, Account
  <2>4. PICK was \in BOOLEAN : was = (req[r].wasActive \/ account[u].active)
    BY <1>0, <2>3 DEF Request
  <2>5. req[r].held \cup ({account[u].role} \ {NoRole}) \in SUBSET Roles
    BY <1>0, <2>3 DEF Request
  <2>6. PICK held \in SUBSET Roles : held = req[r].held \cup ({account[u].role} \ {NoRole})
    BY <2>5
  <2>7. PICK q : q = [req[r] EXCEPT !.pc = "found", !.user = u, !.wasActive = was,
                                    !.held = held]
    OBVIOUS
  <2>8. /\ q \in Request /\ q.pc = "found" /\ q.token = req[r].token
        /\ q.user = u /\ q.active = req[r].active /\ q.stale = req[r].stale
        /\ q.wasActive = was /\ q.held = held
    <3>1. PICK row \in Request : row = req[r]
      BY <1>0
    <3>2. q = [row EXCEPT !.pc = "found", !.user = u, !.wasActive = was, !.held = held]
      BY <2>7, <3>1
    <3> QED
      BY <3>1, <3>2 DEF Request
  <2>9. req' = [req EXCEPT ![r] = q]
    BY <1>0, <1>1, <2>1, <2>4, <2>6, <2>7 DEF LookUp
  <2>10. Drawn(q.token) /\ Stale(q)
    BY <1>0, <2>2, <2>8 DEF RequestHolds, Drawn, Stale
  <2>11. Witnessed(q)
    BY <1>1, <2>1, <2>4, <2>6, <2>8 DEF Witnessed
  <2>12. Remembered(q)
    BY <1>0, <2>4, <2>8 DEF RequestHolds, Remembered
  <2>13. UNCHANGED <<sessions, drawn, account, jar, gone, changes>>
    BY <1>1 DEF LookUp
  <2> QED
    BY <2>8, <2>9, <2>10, <2>11, <2>12, <2>13, GoesHolds DEF Becomes, RequestHolds
<1>2. CASE ~(k # NoToken /\ sessions[k] # NoSession /\ ~sessions[k].expired)
  <2>1. Refused(r) /\ UNCHANGED <<drawn, account, jar, changes>>
    BY <1>2 DEF LookUp
  <2>2. UNCHANGED <<sessions, gone>> \/ (k # NoToken /\ Dropped(k))
    BY <1>2 DEF LookUp
  <2> QED
    BY <2>1, <2>2, RefusedHolds
<1> QED
  BY <1>1, <1>2

LEMMA ReadUserHolds ==
    ASSUME IInv, NEW r \in Slots, ReadUser(r)
    PROVE  IInv'
<1> DEFINE active == req[r].active \/ account[req[r].user].active
           q == [req[r] EXCEPT !.pc = "read", !.active = active]
<1>0. /\ req[r] \in Request /\ RequestHolds(req[r]) /\ req \in [Slots -> Request]
      /\ req[r].pc = "found" /\ req[r].pc \in Past /\ req[r].user \in Users
  BY DEF IInv, TypeOK, RequestsHold, RequestHolds, Witnessed, ReadUser, Past
<1>1. active \in BOOLEAN
  <2>1. account[req[r].user] \in Account /\ req[r].active \in BOOLEAN
    BY <1>0 DEF IInv, TypeOK, Request
  <2> QED
    BY <2>1 DEF Account
<1>2. active => req[r].wasActive
  BY <1>0 DEF RequestHolds, Witnessed, Remembered
<1>3. /\ q \in Request /\ q.pc = "read" /\ q.token = req[r].token
      /\ q.user = req[r].user /\ q.active = active
      /\ q.stale = req[r].stale /\ q.wasActive = req[r].wasActive /\ q.held = req[r].held
  BY <1>0, <1>1, ReadFields
<1>4. req' = [req EXCEPT ![r] = q]
  BY <1>0 DEF ReadUser
<1> HIDE DEF q, active
<1>5. RequestHolds(q)
  BY <1>0, <1>2, <1>3 DEF RequestHolds, Drawn, Stale, Witnessed, Remembered, Past
<1>6. UNCHANGED <<sessions, drawn, account, jar, gone, changes>>
  BY DEF ReadUser
<1> QED
  BY <1>3, <1>4, <1>5, <1>6, GoesHolds DEF Becomes

LEMMA ReadMembershipHolds ==
    ASSUME IInv, NEW r \in Slots, ReadMembership(r)
    PROVE  IInv'
<1> DEFINE now == account[req[r].user].role
<1>0. /\ req[r] \in Request /\ RequestHolds(req[r]) /\ req \in [Slots -> Request]
      /\ req[r].pc = "read" /\ req[r].pc \in Past
      /\ req[r].user \in Users /\ req[r].token # NoToken
  BY DEF IInv, TypeOK, RequestsHold, RequestHolds, Witnessed, ReadMembership, Past
<1>1. CASE req[r].active /\ now # NoRole
  <2>1. PICK role \in Roles : role = now /\ role \in req[r].held
    BY <1>0, <1>1 DEF IInv, TypeOK, Account, RequestHolds, Witnessed
  <2>2. PICK pc \in {"resolved", "accepted"} :
            pc = IF req[r].kind = "act" THEN "resolved" ELSE "accepted"
    OBVIOUS
  <2>3. PICK q : q = [req[r] EXCEPT !.role = role, !.pc = pc]
    OBVIOUS
  <2>4. /\ q \in Request /\ q.pc = pc /\ q.token = req[r].token
        /\ q.user = req[r].user /\ q.active = req[r].active /\ q.role = role
        /\ q.stale = req[r].stale /\ q.wasActive = req[r].wasActive /\ q.held = req[r].held
    BY <1>0, <2>1, <2>2, <2>3 DEF Request
  <2>5. req' = [req EXCEPT ![r] = q]
    BY <1>0, <1>1, <2>1, <2>2, <2>3 DEF ReadMembership
  <2>6. RequestHolds(q)
    BY <1>0, <1>1, <2>1, <2>2, <2>4
       DEF RequestHolds, Drawn, Stale, Witnessed, Remembered, Past
  <2>7. UNCHANGED <<sessions, drawn, account, jar, gone, changes>>
    BY <1>1 DEF ReadMembership
  <2> QED
    BY <2>2, <2>4, <2>5, <2>6, <2>7, GoesHolds DEF Becomes
<1>2. CASE ~(req[r].active /\ now # NoRole)
  <2>1. Refused(r) /\ Dropped(req[r].token) /\ UNCHANGED <<drawn, account, jar, changes>>
    BY <1>2 DEF ReadMembership
  <2> QED
    BY <1>0, <2>1, RefusedHolds
<1> QED
  BY <1>1, <1>2

LEMMA ResolveTenantHolds ==
    ASSUME IInv, NEW r \in Slots, ResolveTenant(r)
    PROVE  IInv'
<1>0. /\ req[r] \in Request /\ RequestHolds(req[r]) /\ req \in [Slots -> Request]
      /\ req[r].pc = "resolved"
  BY DEF IInv, TypeOK, RequestsHold, ResolveTenant
<1>1. CASE account[req[r].user].role # NoRole
  <2>1. PICK role \in {req[r].role, account[req[r].user].role} :
            req' = [req EXCEPT ![r].pc = "accepted", ![r].role = role]
    BY <1>1 DEF ResolveTenant
  <2>2. role \in Roles /\ role \in req[r].held
    <3>1. req[r].role \in req[r].held /\ account[req[r].user].role \in req[r].held
      BY <1>0, <1>1 DEF RequestHolds, Remembered, Witnessed, Past
    <3> QED
      BY <1>0, <3>1 DEF Request
  <2>3. PICK q : q = [req[r] EXCEPT !.pc = "accepted", !.role = role]
    OBVIOUS
  <2>4. /\ q \in Request /\ q.pc = "accepted" /\ q.token = req[r].token
        /\ q.user = req[r].user /\ q.active = req[r].active /\ q.role = role
        /\ q.stale = req[r].stale /\ q.wasActive = req[r].wasActive /\ q.held = req[r].held
    BY <1>0, <2>2, <2>3 DEF Request
  <2>5. req' = [req EXCEPT ![r] = q]
    BY <1>0, <2>1, <2>3
  <2>6. RequestHolds(q)
    BY <1>0, <2>2, <2>4 DEF RequestHolds, Drawn, Stale, Witnessed, Remembered, Past
  <2>7. UNCHANGED <<sessions, drawn, account, jar, gone, changes>>
    BY <1>1 DEF ResolveTenant
  <2> QED
    BY <2>4, <2>5, <2>6, <2>7, GoesHolds DEF Becomes
<1>2. CASE account[req[r].user].role = NoRole
  <2>1. Refused(r) /\ UNCHANGED <<sessions, drawn, account, jar, gone, changes>>
    BY <1>2 DEF ResolveTenant
  <2> QED
    BY <2>1, RefusedHolds
<1> QED
  BY <1>1, <1>2

\* An answer leaves the cookie, sets it to a token that was drawn, or deletes it.
LEMMA ReplyHolds ==
    ASSUME IInv, NEW r \in Slots, Reply(r)
    PROVE  IInv'
<1>0. /\ req[r] \in Request /\ RequestHolds(req[r])
      /\ jar \in Tokens \cup {NoToken} /\ Drawn(jar) /\ Talks
  BY TypeParts DEF IInv, Talks, RequestsHold
<1>1. Becomes(r, Free) /\ UNCHANGED <<sessions, drawn, account, gone, changes>>
  BY FreeType DEF Reply, Becomes
<1>2. Cookie(req[r]) \in Tokens \cup {NoToken} /\ Drawn(Cookie(req[r]))
  BY <1>0 DEF Cookie, Request, RequestHolds, Drawn
<1>3. jar' \in Tokens \cup {NoToken} /\ Drawn(jar)'
  BY <1>0, <1>1, <1>2 DEF Reply, Drawn
<1>4. Store' /\ Dictionary'
  BY <1>1 DEF IInv, TypeOK, Store, Dictionary
<1>5. RequestHolds(Free)'
  BY FreeType DEF RequestHolds, Drawn, Stale, Witnessed, Remembered, Past
<1>6. RequestsHold'
  BY <1>0, <1>1, <1>5, OthersHold DEF IInv
<1> QED
  BY <1>0, <1>1, <1>3, <1>4, <1>6, BecomesTalks, Together

LEMMA RevokeHolds ==
    ASSUME IInv, NEW r \in Slots, Revoke(r)
    PROVE  IInv'
<1>0. /\ req[r] \in Request /\ RequestHolds(req[r]) /\ req \in [Slots -> Request]
      /\ Talks /\ Store
  BY TypeParts DEF IInv, TypeOK, RequestsHold
<1>1. PICK q : q = [req[r] EXCEPT !.pc = "revoked"]
  OBVIOUS
<1>2. /\ q \in Request /\ q.pc = "revoked" /\ q.token = req[r].token
      /\ q.active = req[r].active /\ q.wasActive = req[r].wasActive
  BY <1>0, <1>1 DEF Request
<1>3. Becomes(r, q) /\ UNCHANGED <<drawn, account, jar, changes>>
  BY <1>0, <1>1, <1>2 DEF Revoke, Becomes
<1>4. Store' /\ Dictionary' /\ gone \subseteq gone'
  <2>1. CASE req[r].token = NoToken
    BY <1>0, <1>3, <2>1 DEF Revoke, IInv, Store, Dictionary
  <2>2. CASE req[r].token # NoToken
    <3>1. req[r].token \in Tokens /\ req[r].token \in drawn
      BY <1>0, <2>2 DEF Request, RequestHolds, Drawn
    <3> QED
      BY <1>3, <2>2, <3>1, DropKeeps DEF Revoke
  <2> QED
    BY <2>1, <2>2
<1>5. RequestHolds(q)'
  BY <1>0, <1>2, <1>3 DEF RequestHolds, Drawn, Stale, Witnessed, Remembered, Past
<1>6. RequestsHold'
  BY <1>0, <1>2, <1>3, <1>4, <1>5, OthersHold DEF IInv
<1>7. Talks' /\ Drawn(jar)'
  BY <1>0, <1>3, BecomesTalks DEF Talks, IInv, Drawn
<1> QED
  BY <1>4, <1>6, <1>7, Together

LEMMA ServerHolds ==
    ASSUME IInv, NEW r \in Slots, ServerStep(r)
    PROVE  IInv'
BY PickUserHolds, RegisterHolds, LookUpHolds, ReadUserHolds, ReadMembershipHolds,
   ResolveTenantHolds, ReplyHolds, RevokeHolds DEF ServerStep

-----------------------------------------------------------------------------
(***************************************************************************)
(* Each step of the browser and of the world keeps the invariant.          *)
(***************************************************************************)
LEMMA SendHolds ==
    ASSUME IInv, NEW r \in Slots, NEW kind \in Kinds, Send(r, kind)
    PROVE  IInv'
<1>0. Talks /\ Store /\ jar \in Tokens \cup {NoToken}
  BY TypeParts DEF IInv, Talks
<1>1. PICK pc \in {"start", "look"} : pc = IF kind = "sign_in" THEN "start" ELSE "look"
  OBVIOUS
<1>2. PICK stale \in BOOLEAN : stale = (jar \in gone)
  <2>1. (jar \in gone) \in BOOLEAN
    OBVIOUS
  <2> QED
    BY <2>1, Zenon
<1>3. PICK q : q = [Free EXCEPT !.pc = pc, !.kind = kind, !.token = jar, !.stale = stale]
  OBVIOUS
<1>4. /\ q \in Request /\ q.pc = pc /\ q.token = jar /\ q.stale = stale
      /\ q.active = FALSE
  <2>1. PICK free \in Request : free = Free /\ free.active = FALSE
    BY FreeType
  <2> QED
    BY <1>0, <1>1, <1>3, <2>1 DEF Request
<1>5. req' = [req EXCEPT ![r] = q]
  <2>1. q = [Free EXCEPT !.pc = IF kind = "sign_in" THEN "start" ELSE "look",
                         !.kind = kind, !.token = jar, !.stale = (jar \in gone)]
    BY <1>1, <1>2, <1>3, Zenon
  <2> QED
    BY <2>1, Zenon DEF Send
<1>6. UNCHANGED <<sessions, drawn, account, jar, gone, changes>>
  BY DEF Send
<1>7. RequestHolds(q)
  BY <1>1, <1>2, <1>4 DEF IInv, RequestHolds, Drawn, Stale, Witnessed, Remembered, Past
<1> QED
  BY <1>1, <1>4, <1>5, <1>6, <1>7, GoesHolds DEF Becomes

\* Who holds an open request of the account sees the change.
LEMMA ChangeAccountHolds ==
    ASSUME IInv, NEW u \in Users, ChangeAccount(u)
    PROVE  IInv'
<1>1. PICK a \in Account : account' = [account EXCEPT ![u] = a]
  BY DEF ChangeAccount
<1>2. /\ account' \in [Users -> Account] /\ account'[u] = a
      /\ \A v \in Users : v # u => account'[v] = account[v]
  BY <1>1 DEF IInv, TypeOK
<1>3. UNCHANGED <<sessions, drawn, jar, gone>> /\ changes' \in Nat
  <2>1. Change /\ UNCHANGED <<sessions, drawn, jar, gone>>
    BY Zenon DEF ChangeAccount
  <2> QED
    BY <2>1 DEF Change, IInv, TypeOK
<1>4. a.active \in BOOLEAN /\ a.role \in Roles \cup {NoRole}
  BY DEF Account
<1>5. ASSUME NEW r \in Slots
      PROVE  /\ req'[r] \in Request
             /\ RequestHolds(req[r])'
  <2>0. req[r] \in Request /\ RequestHolds(req[r])
    BY DEF IInv, TypeOK, RequestsHold
  <2>1. CASE req[r].user = u /\ req[r].pc # "free"
    <3>1. PICK was \in BOOLEAN : was = (req[r].wasActive \/ a.active)
      BY <1>4, <2>0 DEF Request
    <3>2. req[r].held \cup ({a.role} \ {NoRole}) \in SUBSET Roles
      BY <1>4, <2>0 DEF Request
    <3>3. PICK held \in SUBSET Roles : held = req[r].held \cup ({a.role} \ {NoRole})
      BY <3>2
    <3>4. PICK q : q = [req[r] EXCEPT !.wasActive = was, !.held = held]
      OBVIOUS
    <3>5. /\ q \in Request /\ q.pc = req[r].pc
          /\ q.token = req[r].token /\ q.user = u
          /\ q.active = req[r].active /\ q.role = req[r].role /\ q.stale = req[r].stale
          /\ q.wasActive = was /\ q.held = held
      BY <2>0, <2>1, <3>1, <3>3, <3>4 DEF Request
    <3>6. req'[r] = q
      BY <1>2, <2>1, <3>1, <3>3, <3>4 DEF ChangeAccount
    <3>7. Drawn(q.token) /\ Stale(q)
      BY <2>0, <3>5 DEF RequestHolds, Stale
    <3>8. Witnessed(q)'
      BY <1>2, <2>0, <3>1, <3>3, <3>5 DEF RequestHolds, Witnessed
    <3>9. Remembered(q)
      BY <2>0, <3>1, <3>3, <3>5 DEF RequestHolds, Remembered
    <3> QED
      BY <1>3, <3>5, <3>6, <3>7, <3>8, <3>9
         DEF RequestHolds, Drawn, Stale, Witnessed, Remembered
  <2>2. CASE ~(req[r].user = u /\ req[r].pc # "free")
    <3>1. req'[r] = req[r]
      BY <2>2 DEF ChangeAccount
    <3>2. req[r].pc \in Past => req[r].user # u
      BY <2>2 DEF Past
    <3>3. Witnessed(req[r])'
      BY <1>2, <2>0, <3>1, <3>2 DEF RequestHolds, Witnessed
    <3> QED
      BY <1>3, <2>0, <3>1, <3>3 DEF RequestHolds, Drawn, Stale, Remembered
  <2> QED
    BY <2>1, <2>2
<1>6. req' \in [Slots -> Request]
  BY <1>5 DEF ChangeAccount
<1>7. Store' /\ Talks'
  BY <1>2, <1>3, <1>6 DEF IInv, TypeOK, Store, Talks
<1>8. RequestsHold'
  BY <1>5 DEF RequestsHold
<1>9. Dictionary' /\ Drawn(jar)'
  BY <1>3 DEF IInv, Dictionary, Drawn
<1> QED
  BY <1>7, <1>8, <1>9, Together

LEMMA ExpireHolds ==
    ASSUME IInv, NEW k \in Tokens, Expire(k)
    PROVE  IInv'
<1>1. /\ sessions[k] # NoSession /\ k \in drawn /\ sessions[k] \in Session
      /\ sessions[k].user \in Users
  BY DEF Expire, IInv, Dictionary, TypeOK
<1>2. PICK x : x = [sessions[k] EXCEPT !.expired = TRUE]
  OBVIOUS
<1>3. x \in Session /\ x.expired = TRUE /\ x.user \in Users
  BY <1>1, <1>2 DEF Session
<1>4. sessions' = [sessions EXCEPT ![k] = x] /\ gone' = gone \cup {k}
  BY <1>2 DEF Expire, IInv, TypeOK
<1>5. UNCHANGED <<drawn, account, jar, req, changes>>
  BY DEF Expire
<1>6. /\ sessions' \in [Tokens -> Session] /\ sessions'[k] = x
      /\ \A j \in Tokens : j # k => sessions'[j] = sessions[j]
  BY <1>3, <1>4 DEF IInv, TypeOK
<1>7. TypeOK'
  BY <1>4, <1>5, <1>6 DEF IInv, TypeOK
<1>8. \A j \in Tokens : sessions'[j] # NoSession => j \in drawn /\ sessions'[j].user \in Users
  BY <1>1, <1>3, <1>6 DEF IInv, Dictionary
<1>9. \A j \in gone' : j \in drawn /\ (sessions'[j] = NoSession \/ sessions'[j].expired)
  BY <1>1, <1>3, <1>4, <1>6 DEF IInv, Dictionary, TypeOK
<1>10. RequestsHold'
  BY <1>4, <1>5 DEF IInv, RequestsHold, RequestHolds, Drawn, Stale, Witnessed, Remembered
<1> QED
  BY <1>5, <1>7, <1>8, <1>9, <1>10 DEF IInv, Dictionary, Drawn

LEMMA RestartHolds ==
    ASSUME IInv, Restart
    PROVE  IInv'
<1>1. /\ sessions' = [k \in Tokens |-> NoSession] /\ gone' = drawn
      /\ req' = [r \in Slots |-> Free]
      /\ UNCHANGED <<drawn, account, jar>> /\ changes' \in Nat
  BY DEF Restart, Change, IInv, TypeOK
<1>4. TypeOK'
  BY <1>1, FreeType, NoSessionType DEF IInv, TypeOK
<1>5. RequestsHold'
  BY <1>1, FreeType
     DEF RequestsHold, RequestHolds, Drawn, Stale, Witnessed, Remembered, Past
<1>6. Dictionary'
  BY <1>1, <1>4 DEF Dictionary, TypeOK
<1> QED
  BY <1>1, <1>4, <1>5, <1>6 DEF IInv, Drawn

LEMMA StepHolds ==
    ASSUME IInv, [Next]_vars
    PROVE  IInv'
<1>1. CASE Next
  BY <1>1, ServerHolds, SendHolds, ChangeAccountHolds, ExpireHolds, RestartHolds
     DEF Next
<1>2. CASE UNCHANGED vars
  BY <1>2 DEF vars, IInv, TypeOK, Dictionary, Drawn, RequestsHold, RequestHolds, Stale,
              Witnessed, Remembered
<1> QED
  BY <1>1, <1>2

LEMMA InitHolds == Init => IInv
<1> SUFFICES ASSUME Init PROVE IInv
  OBVIOUS
<1>1. account \in [Users -> Account]
  BY DEF Init, Account
<1>3. TypeOK
  BY <1>1, FreeType, NoSessionType DEF Init, TypeOK
<1>4. RequestsHold
  BY FreeType
     DEF Init, RequestsHold, RequestHolds, Drawn, Stale, Witnessed, Remembered, Past
<1>5. Dictionary /\ Drawn(jar)
  BY DEF Init, Dictionary, Drawn
<1> QED
  BY <1>3, <1>4, <1>5 DEF IInv

-----------------------------------------------------------------------------
(***************************************************************************)
(* Theorems.                                                               *)
(***************************************************************************)

\* The invariant holds: what is gone admits nobody, and what a request has read
\* was true at some moment of it.
THEOREM SessionsHold == Spec => []IInv
<1>1. IInv /\ [Next]_vars => IInv'
  BY StepHolds
<1> QED
  BY <1>1, InitHolds, PTL DEF Spec

\* Sessions, accounts and requests keep their types, and whoever gets past the
\* membership has a role.
THEOREM SessionsTyped == Spec => []TypeOK
<1>1. IInv => TypeOK
  BY DEF IInv
<1> QED
  BY <1>1, SessionsHold, PTL

\* A session that was revoked, evicted, expired or lost admits no later request.
THEOREM RevocationIsFinal == Spec => []GoneStaysGone
<1>1. IInv => GoneStaysGone
  BY DEF IInv, RequestsHold, RequestHolds, Stale, GoneStaysGone, Past
<1> QED
  BY <1>1, SessionsHold, PTL

\* Nobody is accepted on an activity or a role the account had only earlier.
THEOREM AuthorityIsFresh == Spec => []FreshAuthority
<1>1. IInv => FreshAuthority
  BY DEF IInv, RequestsHold, RequestHolds, Remembered, FreshAuthority
<1> QED
  BY <1>1, SessionsHold, PTL

=============================================================================
