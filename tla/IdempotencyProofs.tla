------------------------- MODULE IdempotencyProofs --------------------------
(***************************************************************************)
(* What Idempotency guarantees for every number of tabs, workflow          *)
(* executions, keys, forms and requests at a time, proved with TLAPS.      *)
(***************************************************************************)
EXTENDS Idempotency, TLAPS

-----------------------------------------------------------------------------
(***************************************************************************)
(* The inductive invariant.                                                *)
(***************************************************************************)

\* Whoever is between insert and commit holds its key alone, and nothing has been
\* committed under it.
Holds(r) == req[r].pc \in Holding => /\ holder[req[r].key] = r
                                     /\ record[req[r].key] = NoRecord

\* An operation that was performed has its identifier.
Numbered(r) == req[r].pc \in {"complete", "answered"} => req[r].id # 0

\* Whoever lost the insert has a winner that committed.
Lost(r) == req[r].pc = "reread" => record[req[r].key] # NoRecord

RequestsHold == \A r \in Slots : Holds(r) /\ Numbered(r) /\ Lost(r)

EffectsNumbered == \A x \in effects : x.id # 0

\* What was answered, and not broken off, is what is recorded or what the holder of the
\* key is about to commit.
Recorded(x) == record[x.key] # NoRecord /\ x.result = record[x.key]
Underway(x) == \E r \in Slots : /\ req[r].pc = "answered" /\ req[r].key = x.key
                                /\ x.result = Result(r)
AnswersTold == \A x \in answers \ broken : Recorded(x) \/ Underway(x)

IInv == TypeOK /\ RequestsHold /\ EffectsNumbered /\ RecordedTogether /\ AnswersTold

-----------------------------------------------------------------------------
(***************************************************************************)
(* Types.                                                                  *)
(***************************************************************************)
Waits ==
    \A c \in Clients : client[c].phase = "waiting" =>
        \E r \in Slots : /\ client[c].slot = r
                         /\ req[r].from = c /\ req[r].pc \notin {"free", "answered"}

\* The rows of the database: what a step of a request or of a client may leave
\* alone, all of it or but for one part.
Rows ==
    /\ record \in [Keys -> [form : Forms \cup {NoKey}, id : Nat]]
    /\ holder \in [Keys -> Slots \cup {"none"}]
    /\ effects \in SUBSET [key : Keys, form : Forms, id : Nat]
    /\ lastId \in Nat
    /\ issued \in SUBSET TabKeys
    /\ broken \in SUBSET [key : Keys, result : [form : Forms, id : Nat]]
    /\ faults \in Nat

Talks ==
    /\ req \in [Slots -> Request]
    /\ client \in [Clients -> Client]
    /\ answers \in SUBSET [key : Keys, result : [form : Forms, id : Nat]]
    /\ Waits

LEMMA TypeParts == TypeOK <=> Rows /\ Talks
BY DEF TypeOK, Rows, Talks, Waits

LEMMA FreeType == Free \in Request /\ Free.pc = "free"
BY ClientsAssumption, FormsAssumption DEF Free, Request, Clients, Keys

\* A request that is sent is awaited by its client.
LEMMA SendTalks ==
    ASSUME Talks, NEW c \in Clients, NEW r \in Slots, NEW key \in Keys, NEW form \in Forms,
           Send(c, r, key, form), UNCHANGED answers
    PROVE  Talks'
<1>1. /\ client[c].phase = "ready" /\ req[r].pc = "free"
      /\ req' = [req EXCEPT ![r] = [pc |-> "find", from |-> c, key |-> key, form |-> form,
                                    id |-> 0]]
      /\ client' = [client EXCEPT ![c] = [phase |-> "waiting", key |-> key, form |-> form,
                                          slot |-> r]]
  BY DEF Send
<1>2. req' \in [Slots -> Request]
  BY <1>1 DEF Talks, Request
<1>3. client' \in [Clients -> Client]
  BY <1>1 DEF Talks, Client
<1>4. Waits'
  <2> SUFFICES ASSUME NEW d \in Clients, client'[d].phase = "waiting"
               PROVE  \E q \in Slots : /\ client'[d].slot = q
                                       /\ req'[q].from = d
                                       /\ req'[q].pc \notin {"free", "answered"}
    BY DEF Waits
  <2>1. CASE d = c
    BY <1>1, <2>1 DEF Talks
  <2>2. CASE d # c
    <3>1. client'[d] = client[d]
      BY <1>1, <2>2 DEF Talks
    <3>2. PICK q \in Slots : /\ client[d].slot = q
                             /\ req[q].from = d /\ req[q].pc \notin {"free", "answered"}
      BY <3>1 DEF Talks, Waits
    <3>3. req'[q] = req[q]
      BY <1>1, <3>2 DEF Talks
    <3> QED
      BY <3>1, <3>2, <3>3
  <2> QED
    BY <2>1, <2>2
<1> QED
  BY <1>2, <1>3, <1>4 DEF Talks

\* The client of a request that ends, if it still waits, waits no longer.
Released(r) ==
    IF Awaited(r)
    THEN \E k \in Keys \cup {NoKey} :
            client' = [client EXCEPT ![req[r].from] = [client[req[r].from] EXCEPT
                                         !.phase = "ready", !.slot = "none", !.key = k]]
    ELSE client' = client

LEMMA ReleasedTalks ==
    ASSUME Talks, NEW r \in Slots, NEW q \in Request, req' = [req EXCEPT ![r] = q],
           Released(r),
           answers' \in SUBSET [key : Keys, result : [form : Forms, id : Nat]]
    PROVE  Talks'
<1> DEFINE c == req[r].from
<1>1. req' \in [Slots -> Request] /\ c \in Clients
  BY DEF Talks, Request
<1>2. client' \in [Clients -> Client]
  <2>1. ASSUME NEW k \in Keys \cup {NoKey}
        PROVE  [client[c] EXCEPT !.phase = "ready", !.slot = "none", !.key = k] \in Client
    BY <1>1 DEF Talks, Client
  <2> QED
    BY <1>1, <2>1 DEF Talks, Released
<1>3. Waits'
  <2> SUFFICES ASSUME NEW d \in Clients, client'[d].phase = "waiting"
               PROVE  \E s \in Slots : /\ client'[d].slot = s
                                       /\ req'[s].from = d
                                       /\ req'[s].pc \notin {"free", "answered"}
    BY DEF Waits
  <2>1. client'[d] = client[d]
    <3>1. CASE Awaited(r)
      <4>1. PICK k \in Keys \cup {NoKey} :
                client' = [client EXCEPT ![c] = [client[c] EXCEPT
                              !.phase = "ready", !.slot = "none", !.key = k]]
        BY <3>1 DEF Released
      <4>2. [client[c] EXCEPT !.phase = "ready", !.slot = "none", !.key = k].phase = "ready"
        BY <1>1 DEF Talks, Client
      <4> QED
        BY <1>1, <4>1, <4>2 DEF Talks
    <3>2. CASE ~Awaited(r)
      BY <3>2 DEF Released
    <3> QED
      BY <3>1, <3>2
  <2>2. PICK s \in Slots : /\ client[d].slot = s
                           /\ req[s].from = d /\ req[s].pc \notin {"free", "answered"}
    BY <2>1 DEF Talks, Waits
  <2>3. s # r
    <3> SUFFICES ASSUME s = r PROVE FALSE
      OBVIOUS
    <3>1. d = c /\ Awaited(r)
      BY <2>1, <2>2 DEF Awaited
    <3>2. client'[c].phase = "ready"
      <4>1. PICK k \in Keys \cup {NoKey} :
                client' = [client EXCEPT ![c] = [client[c] EXCEPT
                              !.phase = "ready", !.slot = "none", !.key = k]]
        BY <3>1 DEF Released
      <4> QED
        BY <1>1, <4>1 DEF Talks, Client
    <3> QED
      BY <3>1, <3>2
  <2>4. req'[s] = req[s]
    BY <2>2, <2>3 DEF Talks
  <2> QED
    BY <2>1, <2>2, <2>4
<1> QED
  BY <1>1, <1>2, <1>3 DEF Talks

\* A positive answer, like a negative one, releases whoever waits for it.
LEMMA PositiveReleases ==
    ASSUME Talks, NEW r \in Slots, NEW result \in [form : Forms, id : Nat],
           Positive(r, result)
    PROVE  /\ Released(r)
           /\ answers' \in SUBSET [key : Keys, result : [form : Forms, id : Nat]]
<1> DEFINE c == req[r].from
<1>1. c \in Clients /\ req[r].key \in Keys /\ client[c] \in Client
  BY DEF Talks, Request
<1>2. CASE Awaited(r)
  <2>1. KeptAfter(c) \in Keys \cup {NoKey}
    BY DEF KeptAfter, Keys
  <2>2. client' = [client EXCEPT ![c] = [client[c] EXCEPT !.phase = "ready",
                                             !.slot = "none", !.key = KeptAfter(c)]]
    BY <1>1, <1>2 DEF Positive, Talks
  <2>3. answers' = answers \cup {[key |-> req[r].key, result |-> result]}
    BY <1>2 DEF Positive
  <2>4. Released(r)
    BY <1>2, <2>1, <2>2 DEF Released
  <2>5. [key |-> req[r].key, result |-> result]
            \in [key : Keys, result : [form : Forms, id : Nat]]
    BY <1>1
  <2> QED
    BY <2>3, <2>4, <2>5 DEF Talks
<1>3. CASE ~Awaited(r)
  BY <1>3 DEF Positive, Released, Talks
<1> QED
  BY <1>2, <1>3

LEMMA NegativeReleases ==
    ASSUME Talks, NEW r \in Slots, Negative(r)
    PROVE  /\ Released(r)
           /\ answers' \in SUBSET [key : Keys, result : [form : Forms, id : Nat]]
<1> DEFINE c == req[r].from
<1>1. c \in Clients /\ client[c] \in Client /\ client[c].key \in Keys \cup {NoKey}
  BY DEF Talks, Request, Client
<1>2. CASE Awaited(r)
  <2>1. client' = [client EXCEPT ![c] = [client[c] EXCEPT !.phase = "ready",
                                             !.slot = "none", !.key = client[c].key]]
    <3>1. client' = [client EXCEPT ![c].phase = "ready", ![c].slot = "none"]
      BY <1>2 DEF Negative
    <3>2. [client[c] EXCEPT !.phase = "ready", !.slot = "none", !.key = client[c].key]
            = [client[c] EXCEPT !.phase = "ready", !.slot = "none"]
      BY <1>1 DEF Client
    <3> QED
      BY <1>1, <3>1, <3>2 DEF Talks
  <2> QED
    BY <1>1, <1>2, <2>1 DEF Released, Negative, Talks
<1>3. CASE ~Awaited(r)
  BY <1>3 DEF Negative, Released, Talks
<1> QED
  BY <1>2, <1>3

\* A request that goes on, or that answers, is still one.
LEMMA GoesType ==
    ASSUME NEW row \in Request, NEW pc \in {"insert", "reread", "operate", "answered"}
    PROVE  [row EXCEPT !.pc = pc] \in Request
BY DEF Request

LEMMA OperatedType ==
    ASSUME NEW row \in Request, NEW id \in Nat
    PROVE  [row EXCEPT !.pc = "complete", !.id = id] \in Request
BY DEF Request

\* A request that goes on without an answer keeps its client waiting.
LEMMA GoesTalks ==
    ASSUME Talks, NEW r \in Slots, NEW q \in Request, req' = [req EXCEPT ![r] = q],
           q.from = req[r].from, q.pc \notin {"free", "answered"},
           UNCHANGED <<client, answers>>
    PROVE  Talks'
<1>1. req' \in [Slots -> Request]
  BY DEF Talks
<1>2. Waits'
  <2> SUFFICES ASSUME NEW d \in Clients, client[d].phase = "waiting"
               PROVE  \E s \in Slots : /\ client[d].slot = s
                                       /\ req'[s].from = d
                                       /\ req'[s].pc \notin {"free", "answered"}
    BY DEF Waits
  <2>1. PICK s \in Slots : /\ client[d].slot = s
                           /\ req[s].from = d /\ req[s].pc \notin {"free", "answered"}
    BY DEF Talks, Waits
  <2>2. CASE s = r
    BY <2>1, <2>2 DEF Talks
  <2>3. CASE s # r
    BY <2>1, <2>3 DEF Talks
  <2> QED
    BY <2>2, <2>3
<1> QED
  BY <1>1, <1>2 DEF Talks

LEMMA ResultType ==
    ASSUME Talks, NEW r \in Slots
    PROVE  /\ Result(r) \in [form : Forms, id : Nat]
           /\ Result(r).form = req[r].form /\ Result(r).id = req[r].id
BY DEF Talks, Request, Result

LEMMA ReplayType ==
    ASSUME Rows, Talks, NEW r \in Slots, Replayable(r)
    PROVE  record[req[r].key] \in [form : Forms, id : Nat]
<1>1. req[r].key \in Keys /\ req[r].form \in Forms
  BY DEF Talks, Request
<1>2. record[req[r].key] \in [form : Forms \cup {NoKey}, id : Nat]
  BY <1>1 DEF Rows
<1> QED
  BY <1>1, <1>2 DEF Replayable

-----------------------------------------------------------------------------
(***************************************************************************)
(* Each step keeps the types.                                              *)
(***************************************************************************)
LEMMA ValidateTalks ==
    ASSUME Rows, Talks, NEW r \in Slots, ValidateExisting(r)
    PROVE  Talks'
<1>1. req' = [req EXCEPT ![r] = Free]
  BY DEF ValidateExisting, Leave
<1>2. CASE Replayable(r)
  <2>1. Positive(r, record[req[r].key])
    BY <1>2 DEF ValidateExisting
  <2> QED
    BY <1>1, <1>2, <2>1, ReplayType, PositiveReleases, ReleasedTalks, FreeType
<1>3. CASE ~Replayable(r)
  <2>1. Negative(r)
    BY <1>3 DEF ValidateExisting
  <2> QED
    BY <1>1, <2>1, NegativeReleases, ReleasedTalks, FreeType
<1> QED
  BY <1>2, <1>3

LEMMA ServerTalks ==
    ASSUME Rows, Talks, NEW r \in Slots, ServerStep(r) \/ Fails(r)
    PROVE  Talks'
<1>0. req[r] \in Request
  BY DEF Talks
<1>1. CASE Find(r)
  <2>1. CASE record[req[r].key] # NoRecord
    BY <1>1, <2>1, ValidateTalks DEF Find
  <2>2. CASE record[req[r].key] = NoRecord
    <3>1. /\ req' = [req EXCEPT ![r] = [req[r] EXCEPT !.pc = "insert"]]
          /\ UNCHANGED <<client, answers>>
      BY <1>1, <2>2 DEF Find, Goes, Talks
    <3>2. /\ [req[r] EXCEPT !.pc = "insert"].from = req[r].from
          /\ [req[r] EXCEPT !.pc = "insert"].pc = "insert"
      BY <1>0 DEF Request
    <3> QED
      BY <1>0, <3>1, <3>2, GoesTalks, GoesType
  <2> QED
    BY <2>1, <2>2
<1>2. CASE Insert(r)
  <2>1. PICK pc \in {"reread", "operate"} :
            req' = [req EXCEPT ![r] = [req[r] EXCEPT !.pc = pc]]
    BY <1>2 DEF Insert, Goes, Talks
  <2>2. /\ [req[r] EXCEPT !.pc = pc].from = req[r].from
        /\ [req[r] EXCEPT !.pc = pc].pc = pc
    BY <1>0 DEF Request
  <2>3. UNCHANGED <<client, answers>>
    BY <1>2 DEF Insert
  <2> QED
    BY <1>0, <2>1, <2>2, <2>3, GoesTalks, GoesType
<1>3. CASE Reread(r)
  <2>1. CASE Unresolved(r)
    <3>1. Negative(r) /\ req' = [req EXCEPT ![r] = Free]
      BY <1>3, <2>1 DEF Reread, Leave
    <3> QED
      BY <3>1, NegativeReleases, ReleasedTalks, FreeType
  <2>2. CASE ~Unresolved(r)
    BY <1>3, <2>2, ValidateTalks DEF Reread
  <2> QED
    BY <2>1, <2>2
<1>4. CASE Operate(r)
  <2>1. /\ req' = [req EXCEPT ![r] = [req[r] EXCEPT !.pc = "complete", !.id = lastId + 1]]
        /\ UNCHANGED <<client, answers>>
    BY <1>4 DEF Operate, Talks
  <2>2. /\ [req[r] EXCEPT !.pc = "complete", !.id = lastId + 1].from = req[r].from
        /\ [req[r] EXCEPT !.pc = "complete", !.id = lastId + 1].pc = "complete"
    BY <1>0 DEF Request
  <2>3. lastId + 1 \in Nat
    BY DEF Rows
  <2> QED
    BY <1>0, <2>1, <2>2, <2>3, GoesTalks, OperatedType
<1>5. CASE Answer(r)
  <2>1. /\ req' = [req EXCEPT ![r] = [req[r] EXCEPT !.pc = "answered"]]
        /\ Positive(r, Result(r))
    BY <1>5 DEF Answer, Goes, Talks
  <2> QED
    BY <1>0, <2>1, PositiveReleases, ResultType, ReleasedTalks, GoesType
<1>6. CASE Commit(r)
  <2>1. req' = [req EXCEPT ![r] = Free]
    BY <1>6 DEF Commit, Leave
  <2>2. CASE req[r].pc = "answered"
    <3>1. UNCHANGED <<client, answers>> /\ req[r].pc = "answered"
      BY <1>6, <2>2 DEF Commit
    <3>2. ~Awaited(r)
      <4> SUFFICES ASSUME Awaited(r) PROVE FALSE
        OBVIOUS
      <4>1. req[r].from \in Clients
        BY <1>0 DEF Request
      <4>2. PICK s \in Slots : client[req[r].from].slot = s /\ req[s].pc # "answered"
        BY <4>1 DEF Awaited, Talks, Waits
      <4>3. s = r
        BY <4>2 DEF Awaited
      <4> QED
        BY <3>1, <4>2, <4>3
    <3>3. Released(r) /\ answers' \in SUBSET [key : Keys, result : [form : Forms, id : Nat]]
      BY <3>1, <3>2 DEF Released, Talks
    <3> QED
      BY <2>1, <3>3, ReleasedTalks, FreeType
  <2>3. CASE req[r].pc # "answered"
    <3>1. Positive(r, Result(r))
      BY <1>6, <2>3 DEF Commit
    <3> QED
      BY <2>1, <3>1, PositiveReleases, ResultType, ReleasedTalks, FreeType
  <2> QED
    BY <2>2, <2>3
<1>7. CASE Fails(r)
  <2>1. req' = [req EXCEPT ![r] = Free] /\ Negative(r)
    BY <1>7 DEF Fails, Leave
  <2> QED
    BY <2>1, NegativeReleases, ReleasedTalks, FreeType
<1> QED
  BY <1>1, <1>2, <1>3, <1>4, <1>5, <1>6, <1>7 DEF ServerStep

LEMMA ClientTalks ==
    ASSUME Talks, NEW c \in Clients,
           GiveUp(c) \/ \E r \in Slots : ClientStep(c, r)
    PROVE  Talks'
<1>1. ASSUME NEW r \in Slots, Submit(c, r) PROVE Talks'
  <2>1. PICK k \in TabKeys, f \in Forms : Send(c, r, k, f)
    BY <1>1 DEF Submit
  <2> QED
    BY <1>1, <2>1, SendTalks DEF Submit, Keys
<1>2. client[c].form \in Forms /\ client[c].key \in Keys \cup {NoKey}
  BY DEF Talks, Client
<1>3. ASSUME NEW r \in Slots, Resubmit(c, r) PROVE Talks'
  <2>1. PICK f \in Forms : Send(c, r, client[c].key, f)
    BY <1>2, <1>3 DEF Resubmit
  <2>2. client[c].key \in Keys
    BY <1>2, <1>3 DEF Resubmit
  <2> QED
    BY <1>3, <2>1, <2>2, SendTalks DEF Resubmit
<1>4. ASSUME NEW r \in Slots, Intake(c, r) PROVE Talks'
  <2>1. PICK f \in Forms : Send(c, r, EventKey, f)
    BY <1>2, <1>4 DEF Intake
  <2> QED
    BY <1>4, <2>1, SendTalks DEF Intake, Keys
<1>5. CASE GiveUp(c)
  <2>1. client' = [client EXCEPT ![c] = [client[c] EXCEPT !.phase = "ready", !.slot = "none"]]
    BY <1>5 DEF GiveUp, Talks
  <2>2. /\ [client[c] EXCEPT !.phase = "ready", !.slot = "none"] \in Client
        /\ [client[c] EXCEPT !.phase = "ready", !.slot = "none"].phase = "ready"
    BY DEF Talks, Client
  <2>3. client' \in [Clients -> Client]
    BY <2>1, <2>2 DEF Talks
  <2>4. ASSUME NEW d \in Clients, client'[d].phase = "waiting"
        PROVE  client'[d] = client[d]
    BY <2>1, <2>2, <2>4 DEF Talks
  <2>5. Waits'
    BY <1>5, <2>4 DEF Talks, Waits, GiveUp
  <2> QED
    BY <1>5, <2>3, <2>5 DEF Talks, GiveUp
<1> QED
  BY <1>1, <1>3, <1>4, <1>5 DEF ClientStep

LEMMA RowsKept ==
    ASSUME Rows, Talks, Next
    PROVE  Rows'
<1>1. ASSUME NEW r \in Slots, Find(r) \/ Reread(r) \/ Answer(r) PROVE Rows'
  BY <1>1 DEF Find, Reread, Answer, ValidateExisting, Rows
<1>2. ASSUME NEW r \in Slots, Insert(r) PROVE Rows'
  BY <1>2 DEF Insert, Rows
<1>3. ASSUME NEW r \in Slots, Operate(r) PROVE Rows'
  BY <1>3 DEF Operate, Rows
<1>4. ASSUME NEW r \in Slots, Commit(r) PROVE Rows'
  <2>1. /\ req[r].key \in Keys /\ req[r].form \in Forms /\ req[r].id \in Nat
    BY DEF Talks, Request
  <2>2. /\ Result(r) \in [form : Forms \cup {NoKey}, id : Nat]
        /\ [key |-> req[r].key, form |-> req[r].form, id |-> req[r].id]
              \in [key : Keys, form : Forms, id : Nat]
    BY <2>1 DEF Result
  <2>3. record' \in [Keys -> [form : Forms \cup {NoKey}, id : Nat]]
    BY <1>4, <2>2 DEF Commit, Rows
  <2>4. holder' \in [Keys -> Slots \cup {"none"}]
    BY <1>4 DEF Commit, Rows
  <2>5. effects' \in SUBSET [key : Keys, form : Forms, id : Nat]
    BY <1>4, <2>2 DEF Commit, Rows
  <2>6. UNCHANGED <<lastId, issued, broken, faults>>
    BY <1>4 DEF Commit
  <2> QED
    BY <2>3, <2>4, <2>5, <2>6 DEF Rows
<1>5. ASSUME NEW r \in Slots, Fails(r) PROVE Rows'
  <2>1. holder' \in [Keys -> Slots \cup {"none"}]
    BY <1>5 DEF Fails, RollBack, Rows
  <2>2. faults' \in Nat
    BY <1>5 DEF Fails, Fault, Rows
  <2>3. Answered(r) \in [key : Keys, result : [form : Forms, id : Nat]]
    BY DEF Answered, Result, Talks, Request
  <2>4. broken' \in SUBSET [key : Keys, result : [form : Forms, id : Nat]]
    BY <1>5, <2>3 DEF Fails, Rows
  <2> QED
    BY <1>5, <2>1, <2>2, <2>4 DEF Fails, Rows
<1>6. ASSUME NEW c \in Clients, GiveUp(c) PROVE Rows'
  BY <1>6 DEF GiveUp, Fault, Rows
<1>7. ASSUME NEW c \in Clients, NEW r \in Slots, ClientStep(c, r) PROVE Rows'
  BY <1>7 DEF ClientStep, Submit, Resubmit, Intake, Rows
<1> QED
  BY <1>1, <1>2, <1>3, <1>4, <1>5, <1>6, <1>7 DEF Next, ServerStep

LEMMA StepTyped ==
    ASSUME TypeOK, [Next]_vars
    PROVE  TypeOK'
<1>1. Rows /\ Talks
  BY TypeParts
<1>2. CASE Next
  <2>1. Rows'
    BY <1>1, <1>2, RowsKept
  <2>2. Talks'
    BY <1>1, <1>2, ServerTalks, ClientTalks DEF Next
  <2>3. TypeOK' <=> Rows' /\ Talks'
    BY DEF TypeOK, Rows, Talks, Waits
  <2> QED
    BY <2>1, <2>2, <2>3
<1>3. CASE UNCHANGED vars
  BY <1>3 DEF vars, TypeOK
<1> QED
  BY <1>2, <1>3

LEMMA InitTyped == Init => TypeOK
<1> SUFFICES ASSUME Init PROVE TypeOK
  OBVIOUS
<1>1. NoRecord \in [form : Forms \cup {NoKey}, id : Nat]
  BY DEF NoRecord
<1>2. Rows
  BY <1>1 DEF Init, Rows
<1>3. (CHOOSE f \in Forms : TRUE) \in Forms
  BY FormsAssumption
<1>4. client \in [Clients -> Client]
  BY <1>3 DEF Init, Client, Keys
<1>5. Waits
  BY DEF Init, Waits
<1>6. Talks
  BY <1>4, <1>5, FreeType DEF Init, Talks
<1> QED
  BY <1>2, <1>6, TypeParts

-----------------------------------------------------------------------------
(***************************************************************************)
(* Each step keeps what relates requests, records and effects.             *)
(***************************************************************************)

\* A request that starts, goes on or ends while the others stay as they are.
LEMMA OthersHold ==
    ASSUME TypeOK, RequestsHold, NEW r \in Slots, NEW q \in Request,
           req' = [req EXCEPT ![r] = q], UNCHANGED <<record, holder>>,
           q.pc \in {"free", "find", "insert"}
    PROVE  RequestsHold'
BY DEF TypeOK, RequestsHold, Holds, Numbered, Lost, Holding

LEMMA ValidateHolds ==
    ASSUME TypeOK, RequestsHold, NEW r \in Slots, ValidateExisting(r)
    PROVE  RequestsHold'
BY OthersHold, FreeType DEF ValidateExisting, Leave

LEMMA ServerHolds ==
    ASSUME TypeOK, RequestsHold, NEW r \in Slots, ServerStep(r) \/ Fails(r)
    PROVE  RequestsHold'
<1>0. req[r] \in Request /\ req[r].key \in Keys /\ r # "none"
  BY SlotsAssumption DEF TypeOK, Request
<1>1. CASE Find(r)
  <2>1. CASE record[req[r].key] # NoRecord
    BY <1>1, <2>1, ValidateHolds DEF Find
  <2>2. CASE record[req[r].key] = NoRecord
    <3>1. /\ req' = [req EXCEPT ![r] = [req[r] EXCEPT !.pc = "insert"]]
          /\ UNCHANGED <<record, holder>>
      BY <1>1, <2>2 DEF Find, Goes, TypeOK
    <3>2. [req[r] EXCEPT !.pc = "insert"].pc = "insert"
      BY <1>0 DEF Request
    <3> QED
      BY <1>0, <3>1, <3>2, OthersHold, GoesType
  <2> QED
    BY <2>1, <2>2
<1>2. CASE Insert(r)
  <2> DEFINE k == req[r].key
  <2>1. ASSUME NEW q \in Slots, q # r
        PROVE  Holds(q)' /\ Numbered(q)' /\ Lost(q)'
    <3>1. req'[q] = req[q] /\ record' = record
      BY <1>2, <2>1 DEF Insert, Goes, TypeOK
    <3>2. CASE req[q].pc \in Holding
      <4>1. /\ holder[req[q].key] = q /\ record[req[q].key] = NoRecord
            /\ req[q].key \in Keys
        BY <3>2 DEF RequestsHold, Holds, TypeOK, Request
      <4>2. req[q].key # k
        BY <1>2, <4>1, SlotsAssumption DEF Insert
      <4>3. holder'[req[q].key] = q
        BY <1>2, <4>1, <4>2 DEF Insert, TypeOK
      <4> QED
        BY <3>1, <4>1, <4>3 DEF RequestsHold, Holds, Numbered, Lost
    <3>3. CASE req[q].pc \notin Holding
      BY <3>1, <3>3 DEF RequestsHold, Holds, Numbered, Lost
    <3> QED
      BY <3>2, <3>3
  <2>2. CASE record[k] # NoRecord
    <3>1. req'[r].pc = "reread" /\ req'[r].key = k /\ record' = record
      BY <1>0, <1>2, <2>2 DEF Insert, Goes, TypeOK, Request
    <3>2. Holds(r)' /\ Numbered(r)' /\ Lost(r)'
      BY <2>2, <3>1 DEF Holds, Numbered, Lost, Holding
    <3> QED
      BY <2>1, <3>2 DEF RequestsHold
  <2>3. CASE record[k] = NoRecord
    <3>1. req'[r].pc = "operate" /\ req'[r].key = k /\ record' = record
      BY <1>0, <1>2, <2>3 DEF Insert, Goes, TypeOK, Request
    <3>2. holder'[k] = r
      BY <1>0, <1>2, <2>3 DEF Insert, TypeOK
    <3>3. Holds(r)' /\ Numbered(r)' /\ Lost(r)'
      BY <2>3, <3>1, <3>2 DEF Holds, Numbered, Lost
    <3> QED
      BY <2>1, <3>3 DEF RequestsHold
  <2> QED
    BY <2>2, <2>3
<1>3. CASE Reread(r)
  <2>1. CASE Unresolved(r)
    BY <1>3, <2>1, OthersHold, FreeType DEF Reread, Leave
  <2>2. CASE ~Unresolved(r)
    BY <1>3, <2>2, ValidateHolds DEF Reread
  <2> QED
    BY <2>1, <2>2
<1>4. CASE Operate(r)
  <2>1. /\ req'[r].pc = "complete" /\ req'[r].key = req[r].key /\ req'[r].id = lastId + 1
        /\ UNCHANGED <<record, holder>>
    BY <1>0, <1>4 DEF Operate, TypeOK, Request
  <2>2. lastId + 1 # 0
    BY DEF TypeOK
  <2>3. Holds(r)' /\ Numbered(r)' /\ Lost(r)'
    BY <1>4, <2>1, <2>2 DEF Operate, RequestsHold, Holds, Numbered, Lost, Holding
  <2>4. \A q \in Slots \ {r} : req'[q] = req[q]
    BY <1>4 DEF Operate, TypeOK
  <2> QED
    BY <2>1, <2>3, <2>4 DEF RequestsHold, Holds, Numbered, Lost
<1>5. CASE Answer(r)
  <2>1. /\ req'[r].pc = "answered" /\ req'[r].key = req[r].key /\ req'[r].id = req[r].id
        /\ UNCHANGED <<record, holder>>
    BY <1>0, <1>5 DEF Answer, Goes, TypeOK, Request
  <2>2. Holds(r)' /\ Numbered(r)' /\ Lost(r)'
    BY <1>5, <2>1 DEF Answer, RequestsHold, Holds, Numbered, Lost, Holding
  <2>3. \A q \in Slots \ {r} : req'[q] = req[q]
    BY <1>5 DEF Answer, Goes, TypeOK
  <2> QED
    BY <2>1, <2>2, <2>3 DEF RequestsHold, Holds, Numbered, Lost
<1>6. CASE Commit(r)
  <2> DEFINE k == req[r].key
  <2>1. req[r].pc \in Holding /\ holder[k] = r /\ req[r].id # 0
    BY <1>6 DEF Commit, RequestsHold, Holds, Numbered, Holding
  <2>2. req'[r].pc = "free"
    BY <1>6, FreeType DEF Commit, Leave, TypeOK
  <2>3. ASSUME NEW q \in Slots, q # r
        PROVE  Holds(q)' /\ Numbered(q)' /\ Lost(q)'
    <3>1. req'[q] = req[q]
      BY <1>6, <2>3 DEF Commit, Leave, TypeOK
    <3>2. Holds(q)'
      <4> SUFFICES ASSUME req[q].pc \in Holding
                   PROVE  holder'[req[q].key] = q /\ record'[req[q].key] = NoRecord
        BY <3>1 DEF Holds
      <4>1. /\ holder[req[q].key] = q /\ record[req[q].key] = NoRecord
            /\ req[q].key \in Keys
        BY DEF RequestsHold, Holds, TypeOK, Request
      <4>2. req[q].key # k
        BY <2>1, <2>3, <4>1
      <4> QED
        BY <1>6, <4>1, <4>2 DEF Commit, TypeOK
    <3>3. Numbered(q)'
      BY <3>1 DEF RequestsHold, Numbered
    <3>4. Lost(q)'
      <4> SUFFICES ASSUME req[q].pc = "reread"
                   PROVE  record'[req[q].key] # NoRecord
        BY <3>1 DEF Lost
      <4>1. record[req[q].key] # NoRecord /\ req[q].key \in Keys
        BY DEF RequestsHold, Lost, TypeOK, Request
      <4>2. Result(r) # NoRecord
        BY <2>1 DEF Result, NoRecord
      <4> QED
        BY <1>6, <4>1, <4>2 DEF Commit, TypeOK
    <3> QED
      BY <3>2, <3>3, <3>4
  <2> QED
    BY <2>2, <2>3 DEF RequestsHold, Holds, Numbered, Lost, Holding
<1>7. CASE Fails(r)
  <2>1. req'[r].pc = "free" /\ record' = record
    BY <1>7, FreeType DEF Fails, Leave, TypeOK
  <2>2. ASSUME NEW q \in Slots, q # r
        PROVE  Holds(q)' /\ Numbered(q)' /\ Lost(q)'
    <3>1. req'[q] = req[q] /\ req[q].key \in Keys
      BY <1>7, <2>2 DEF Fails, Leave, TypeOK, Request
    <3>2. holder[req[q].key] = q => holder'[req[q].key] = q
      BY <1>7, <2>2, <3>1 DEF Fails, RollBack
    <3> QED
      BY <2>1, <3>1, <3>2 DEF RequestsHold, Holds, Numbered, Lost
  <2> QED
    BY <2>1, <2>2 DEF RequestsHold, Holds, Numbered, Lost, Holding
<1> QED
  BY <1>1, <1>2, <1>3, <1>4, <1>5, <1>6, <1>7 DEF ServerStep

LEMMA ClientHolds ==
    ASSUME TypeOK, RequestsHold, NEW c \in Clients,
           GiveUp(c) \/ \E r \in Slots : ClientStep(c, r)
    PROVE  RequestsHold'
<1>1. CASE GiveUp(c)
  BY <1>1 DEF GiveUp, RequestsHold, Holds, Numbered, Lost
<1>2. ASSUME NEW r \in Slots, ClientStep(c, r) PROVE RequestsHold'
  <2>1. PICK k, f : Send(c, r, k, f)
    BY <1>2 DEF ClientStep, Submit, Resubmit, Intake
  <2>2. req'[r].pc = "find"
    BY <2>1 DEF Send, TypeOK
  <2>3. \A q \in Slots \ {r} : req'[q] = req[q]
    BY <2>1 DEF Send, TypeOK
  <2>4. UNCHANGED <<record, holder>>
    BY <1>2 DEF ClientStep, Submit, Resubmit, Intake
  <2> QED
    BY <2>2, <2>3, <2>4 DEF RequestsHold, Holds, Numbered, Lost, Holding
<1> QED
  BY <1>1, <1>2

\* Only a commit writes records and effects, and it writes both.
LEMMA OnlyCommits ==
    ASSUME Next
    PROVE  \/ UNCHANGED <<record, effects>>
           \/ \E r \in Slots : Commit(r)
BY DEF Next, ServerStep, Find, ValidateExisting, Insert, Reread, Operate, Answer, Fails,
       GiveUp, ClientStep, Submit, Resubmit, Intake

LEMMA CommitTogether ==
    ASSUME IInv, NEW r \in Slots, Commit(r)
    PROVE  EffectsNumbered' /\ RecordedTogether'
<1> DEFINE k == req[r].key
           e == [key |-> k, form |-> req[r].form, id |-> req[r].id]
<1>1. /\ k \in Keys /\ record[k] = NoRecord /\ req[r].id # 0
      /\ record' = [record EXCEPT ![k] = Result(r)]
      /\ effects' = effects \cup {e}
  BY DEF IInv, TypeOK, Request, Commit, RequestsHold, Holds, Numbered, Holding
<1>2. EffectsNumbered'
  BY <1>1 DEF IInv, EffectsNumbered
<1>3. record'[k] = [form |-> req[r].form, id |-> req[r].id]
  BY <1>1 DEF IInv, TypeOK, Result
<1>4. ASSUME NEW j \in Keys, record'[j] # NoRecord
      PROVE  [key |-> j, form |-> record'[j].form, id |-> record'[j].id] \in effects'
  <2>1. CASE j = k
    BY <1>1, <1>3, <2>1
  <2>2. CASE j # k
    <3>1. record'[j] = record[j]
      BY <1>1, <2>2 DEF IInv, TypeOK
    <3> QED
      BY <1>1, <1>4, <3>1 DEF IInv, RecordedTogether
  <2> QED
    BY <2>1, <2>2
<1>5. ASSUME NEW x \in effects'
      PROVE  record'[x.key] = [form |-> x.form, id |-> x.id]
  <2>1. CASE x = e
    BY <1>3, <2>1
  <2>2. CASE x \in effects
    <3>1. record[x.key] = [form |-> x.form, id |-> x.id] /\ x.key \in Keys /\ x.id # 0
      BY <2>2 DEF IInv, TypeOK, RecordedTogether, EffectsNumbered
    <3>2. record[x.key] # NoRecord
      BY <3>1 DEF NoRecord
    <3>3. x.key # k
      BY <1>1, <3>2
    <3> QED
      BY <1>1, <3>1, <3>3 DEF IInv, TypeOK
  <2> QED
    BY <1>1, <2>1, <2>2
<1> QED
  BY <1>2, <1>4, <1>5 DEF RecordedTogether

\* What is pledged is what the one who answered will commit, and nothing otherwise.
LEMMA PledgeOf ==
    ASSUME IInv, NEW r \in Slots, req[r].pc \in {"complete", "answered"}
    PROVE  Pledged[req[r].key] = IF req[r].pc = "answered" THEN {Result(r)} ELSE {}
<1> DEFINE k == req[r].key
<1>1. k \in Keys
  BY DEF IInv, TypeOK, Request
<1>2. \A q \in Slots : req[q].key = k /\ req[q].pc = "answered" => q = r
  BY DEF IInv, RequestsHold, Holds, Holding
<1>3. Pledged[k] = {Result(q) : q \in {p \in Slots : req[p].key = k /\ req[p].pc = "answered"}}
  BY <1>1 DEF Pledged
<1>4. CASE req[r].pc = "answered"
  <2>1. {p \in Slots : req[p].key = k /\ req[p].pc = "answered"} = {r}
    BY <1>2, <1>4
  <2> QED
    BY <1>3, <1>4, <2>1
<1>5. CASE req[r].pc # "answered"
  <2>1. {p \in Slots : req[p].key = k /\ req[p].pc = "answered"} = {}
    BY <1>2, <1>5
  <2> QED
    BY <1>3, <1>5, <2>1
<1> QED
  BY <1>4, <1>5

\* A step of request r that neither begins nor ends as an answered one pledges nothing
\* new; any step of r changes the pledge of its own key alone.
LEMMA PledgesKept ==
    ASSUME TypeOK, NEW r \in Slots, NEW q, req' = [req EXCEPT ![r] = q],
           req[r].pc # "answered", q.pc # "answered"
    PROVE  Pledged' = Pledged
<1>1. ASSUME NEW k \in Keys
      PROVE  {Result(p)' : p \in {p \in Slots : req'[p].key = k /\ req'[p].pc = "answered"}}
               = {Result(p) : p \in {p \in Slots : req[p].key = k /\ req[p].pc = "answered"}}
  <2>1. ASSUME NEW p \in Slots, p # r PROVE req'[p] = req[p] /\ Result(p)' = Result(p)
    BY <2>1 DEF TypeOK, Result
  <2>2. req'[r].pc # "answered"
    BY DEF TypeOK
  <2>3. {p \in Slots : req'[p].key = k /\ req'[p].pc = "answered"}
          = {p \in Slots : req[p].key = k /\ req[p].pc = "answered"}
    BY <2>1, <2>2
  <2>4. \A p \in {p \in Slots : req[p].key = k /\ req[p].pc = "answered"} :
            Result(p)' = Result(p)
    BY <2>1
  <2> QED
    BY <2>3, <2>4
<1> QED
  BY <1>1 DEF Pledged

LEMMA OtherPledges ==
    ASSUME TypeOK, NEW r \in Slots, NEW q, req' = [req EXCEPT ![r] = q],
           q.pc # "answered" \/ q.key = req[r].key
    PROVE  \A k \in Keys \ {req[r].key} : Pledged'[k] = Pledged[k]
<1> SUFFICES ASSUME NEW k \in Keys \ {req[r].key}
             PROVE  Pledged'[k] = Pledged[k]
  OBVIOUS
<1>1. ASSUME NEW p \in Slots, p # r PROVE req'[p] = req[p] /\ Result(p)' = Result(p)
  BY <1>1 DEF TypeOK, Result
<1>2. ~(req'[r].key = k /\ req'[r].pc = "answered")
  BY DEF TypeOK
<1>3. {p \in Slots : req'[p].key = k /\ req'[p].pc = "answered"}
        = {p \in Slots : req[p].key = k /\ req[p].pc = "answered"}
  BY <1>1, <1>2
<1>4. \A p \in {p \in Slots : req[p].key = k /\ req[p].pc = "answered"} :
          Result(p)' = Result(p)
  BY <1>1
<1> QED
  BY <1>3, <1>4 DEF Pledged

\* What was told stays true while records are kept and the answered go on.
LEMMA StaysTold ==
    ASSUME TypeOK, AnswersTold, UNCHANGED record, broken \subseteq broken',
           NEW r \in Slots, NEW q, req' = [req EXCEPT ![r] = q],
           req[r].pc # "answered" \/ Answered(r) \in broken',
           NEW x \in answers \ broken', x.key \in Keys,
           x = [key |-> x.key, result |-> x.result]
    PROVE  (Recorded(x) \/ Underway(x))'
<1>1. CASE Recorded(x)
  BY <1>1 DEF Recorded
<1>2. CASE Underway(x)
  <2>1. PICK p \in Slots : /\ req[p].pc = "answered" /\ req[p].key = x.key
                           /\ x.result = Result(p)
    BY <1>2 DEF Underway
  <2>2. p # r
    BY <2>1 DEF Answered
  <2>3. req'[p] = req[p]
    BY <2>2 DEF TypeOK
  <2> QED
    BY <2>1, <2>3 DEF Underway, Result
<1> QED
  BY <1>1, <1>2 DEF AnswersTold

OnceVars == <<record, Pledged, answers>>

\* An answer ahead of the commit is a pledge.
LEMMA AnswerTells ==
    ASSUME IInv, NEW r \in Slots, Answer(r)
    PROVE  AnswersTold' /\ [Once!OnceNext]_OnceVars
<1> DEFINE k == req[r].key
           q == [req[r] EXCEPT !.pc = "answered"]
<1>1. /\ TypeOK /\ AnswersTold /\ req[r] \in Request /\ k \in Keys
      /\ \A x \in answers : x.key \in Keys /\ x = [key |-> x.key, result |-> x.result]
  BY DEF IInv, TypeOK, Request
<1>2. /\ req[r].pc = "complete" /\ req' = [req EXCEPT ![r] = q]
      /\ UNCHANGED <<record, broken>>
      /\ answers' \in {answers, answers \cup {[key |-> k, result |-> Result(r)]}}
  BY DEF Answer, Goes, Positive, IInv, TypeOK
<1>3. q.pc = "answered" /\ q.key = k /\ q.form = req[r].form /\ q.id = req[r].id
  BY <1>1 DEF Request
<1>4. /\ req'[r].pc = "answered" /\ req'[r].key = k /\ Result(r)' = Result(r)
      /\ Result(r) \in Results
  BY <1>1, <1>2, <1>3 DEF TypeOK, Result, Results, Request
<1>5. AnswersTold'
  <2> SUFFICES ASSUME NEW x \in answers' \ broken'
               PROVE  (Recorded(x) \/ Underway(x))'
    BY DEF AnswersTold
  <2>1. CASE x \in answers
    BY <1>1, <1>2, <2>1, StaysTold
  <2>2. CASE x = [key |-> k, result |-> Result(r)]
    BY <1>4, <2>2 DEF Underway
  <2> QED
    BY <1>2, <2>1, <2>2
<1>6. Once!Pledge(k)
  <2>1. record[k] = NoRecord /\ Pledged[k] = {}
    BY <1>2, PledgeOf DEF IInv, RequestsHold, Holds, Holding
  <2>2. \A p \in Slots : req'[p].key = k /\ req'[p].pc = "answered" => p = r
    <3>1. \A p \in Slots \ {r} : req'[p] = req[p]
      BY <1>1, <1>2 DEF TypeOK
    <3> QED
      BY <1>2, <3>1 DEF IInv, RequestsHold, Holds, Holding
  <2>3. {p \in Slots : req'[p].key = k /\ req'[p].pc = "answered"} = {r}
    BY <1>4, <2>2
  <2>4. Pledged'[k] = {Result(r)}
    BY <1>1, <1>4, <2>3 DEF Pledged
  <2>5. Pledged' = [Pledged EXCEPT ![k] = {Result(r)}]
    BY <1>1, <1>2, <1>3, <2>4, OtherPledges DEF Pledged
  <2> QED
    BY <1>2, <1>4, <2>1, <2>4, <2>5 DEF Once!Pledge, Once!MayTell
<1> QED
  BY <1>1, <1>5, <1>6 DEF Once!OnceNext

\* A commit is the effect, and keeps the pledge if there is one.
LEMMA CommitTells ==
    ASSUME IInv, NEW r \in Slots, Commit(r)
    PROVE  AnswersTold' /\ [Once!OnceNext]_OnceVars
<1> DEFINE k == req[r].key
<1>1. /\ TypeOK /\ AnswersTold /\ k \in Keys
      /\ req[r].form \in Forms /\ req[r].id \in Nat
  BY DEF IInv, TypeOK, Request
<1>2. /\ req[r].pc \in {"complete", "answered"} /\ req[r].id # 0 /\ record[k] = NoRecord
      /\ req' = [req EXCEPT ![r] = Free] /\ UNCHANGED broken
      /\ record' = [record EXCEPT ![k] = Result(r)]
  BY DEF Commit, Leave, IInv, RequestsHold, Holds, Numbered, Holding
<1>3. Result(r) \in Results /\ Result(r) # NoRecord /\ record'[k] = Result(r)
  BY <1>1, <1>2 DEF Result, Results, NoRecord, TypeOK
<1>4. ASSUME NEW x \in answers \ broken
      PROVE  /\ (Recorded(x) \/ Underway(x))'
             /\ x.key = k => req[r].pc = "answered"
  <2>1. x.key \in Keys
    BY DEF IInv, TypeOK
  <2>2. CASE Recorded(x)
    BY <1>1, <1>2, <2>1, <2>2 DEF Recorded, TypeOK
  <2>3. CASE Underway(x)
    <3>1. PICK p \in Slots : /\ req[p].pc = "answered" /\ req[p].key = x.key
                             /\ x.result = Result(p)
      BY <2>3 DEF Underway
    <3>2. x.key = k => p = r
      BY <1>2, <3>1 DEF IInv, RequestsHold, Holds, Holding
    <3>3. CASE x.key = k
      BY <1>3, <3>1, <3>2, <3>3 DEF Recorded
    <3>4. CASE x.key # k
      <4>1. req'[p] = req[p]
        BY <1>1, <1>2, <3>1, <3>4 DEF TypeOK
      <4> QED
        BY <3>1, <3>4, <4>1 DEF Underway, Result
    <3> QED
      BY <3>1, <3>2, <3>3, <3>4
  <2> QED
    BY <1>1, <2>2, <2>3 DEF AnswersTold
<1>5. /\ req[r].pc = "answered" => UNCHANGED answers
      /\ answers' \in {answers, answers \cup {[key |-> k, result |-> Result(r)]}}
  BY DEF Commit, Positive
<1>6. AnswersTold'
  BY <1>2, <1>3, <1>4, <1>5 DEF AnswersTold, Recorded
<1>7. Once!Do(k)
  <2>1. Pledged[k] = IF req[r].pc = "answered" THEN {Result(r)} ELSE {}
    BY <1>2, PledgeOf
  <2>2. Pledged'[k] = {}
    <3>1. \A p \in Slots : ~(req'[p].key = k /\ req'[p].pc = "answered")
      <4>1. req'[r].pc = "free"
        BY <1>1, <1>2, FreeType DEF TypeOK
      <4>2. \A p \in Slots \ {r} : req'[p] = req[p]
        BY <1>1, <1>2 DEF TypeOK
      <4> QED
        BY <1>2, <4>1, <4>2 DEF IInv, RequestsHold, Holds, Holding
    <3>2. {p \in Slots : req'[p].key = k /\ req'[p].pc = "answered"} = {}
      BY <3>1
    <3> QED
      BY <1>1, <3>2 DEF Pledged
  <2>3. \A j \in Keys \ {k} : Pledged'[j] = Pledged[j]
    BY <1>1, <1>2, FreeType, OtherPledges
  <2>4. Pledged' = [Pledged EXCEPT ![k] = {}]
    BY <1>1, <2>2, <2>3 DEF Pledged
  <2>5. IF Pledged[k] = {} THEN Once!MayTell(k, record'[k])
                           ELSE Pledged[k] = {record'[k]} /\ UNCHANGED answers
    BY <1>3, <1>5, <2>1 DEF Once!MayTell
  <2> QED
    BY <1>2, <1>3, <2>4, <2>5 DEF Once!Do
<1> QED
  BY <1>1, <1>6, <1>7 DEF Once!OnceNext

\* A failure breaks off what was pledged.
LEMMA FailureTells ==
    ASSUME IInv, NEW r \in Slots, Fails(r)
    PROVE  AnswersTold' /\ [Once!OnceNext]_OnceVars
<1> DEFINE k == req[r].key
<1>1. /\ TypeOK /\ AnswersTold /\ k \in Keys
      /\ \A x \in answers : x.key \in Keys /\ x = [key |-> x.key, result |-> x.result]
  BY DEF IInv, TypeOK, Request
<1>2. /\ req' = [req EXCEPT ![r] = Free] /\ Free.pc = "free"
      /\ UNCHANGED <<record, answers>> /\ broken \subseteq broken'
      /\ req[r].pc = "answered" => Answered(r) \in broken'
  BY FreeType DEF Fails, Leave, Negative
<1>3. AnswersTold'
  BY <1>1, <1>2, StaysTold DEF AnswersTold
<1>4. \A j \in Keys \ {k} : Pledged'[j] = Pledged[j]
  BY <1>1, <1>2, OtherPledges
<1>5. CASE req[r].pc # "answered"
  BY <1>1, <1>2, <1>3, <1>5, PledgesKept DEF OnceVars
<1>6. CASE req[r].pc = "answered"
  <2>1. \A p \in Slots : ~(req'[p].key = k /\ req'[p].pc = "answered")
    <3>1. req'[r].pc = "free"
      BY <1>1, <1>2 DEF TypeOK
    <3>2. \A p \in Slots \ {r} : req'[p] = req[p]
      BY <1>1, <1>2 DEF TypeOK
    <3> QED
      BY <1>6, <3>1, <3>2 DEF IInv, RequestsHold, Holds, Holding
  <2>2. {p \in Slots : req'[p].key = k /\ req'[p].pc = "answered"} = {}
    BY <2>1
  <2>3. Pledged' = [Pledged EXCEPT ![k] = {}]
    <3>1. Pledged'[k] = {}
      BY <1>1, <2>2 DEF Pledged
    <3> QED
      BY <1>1, <1>4, <3>1 DEF Pledged
  <2>4. Once!BreakOff(k)
    BY <1>2, <2>3 DEF Once!BreakOff
  <2> QED
    BY <1>1, <1>3, <2>4 DEF Once!OnceNext
<1> QED
  BY <1>5, <1>6

\* A client is told what is recorded or what will be, and nothing recorded is replaced.
LEMMA ServerTells ==
    ASSUME IInv, NEW r \in Slots, ServerStep(r) \/ Fails(r)
    PROVE  AnswersTold' /\ [Once!OnceNext]_OnceVars
<1> DEFINE k == req[r].key
<1>0. /\ TypeOK /\ AnswersTold /\ req[r] \in Request /\ k \in Keys
      /\ req \in [Slots -> Request]
      /\ \A x \in answers : x.key \in Keys /\ x = [key |-> x.key, result |-> x.result]
  BY DEF IInv, TypeOK, Request
<1>1. ASSUME UNCHANGED <<record, answers, broken>>, req[r].pc # "answered",
             NEW q \in Request, req' = [req EXCEPT ![r] = q], q.pc # "answered"
      PROVE  AnswersTold' /\ UNCHANGED OnceVars
  <2>1. Pledged' = Pledged
    BY <1>0, <1>1, PledgesKept
  <2>2. AnswersTold'
    BY <1>0, <1>1, StaysTold DEF AnswersTold
  <2> QED
    BY <1>1, <2>1, <2>2 DEF OnceVars
<1>2. ASSUME ValidateExisting(r), record[k] # NoRecord, req[r].pc # "answered"
      PROVE  AnswersTold' /\ [Once!OnceNext]_OnceVars
  <2>1. /\ UNCHANGED <<record, broken>> /\ req' = [req EXCEPT ![r] = Free]
        /\ Free \in Request /\ Free.pc = "free"
    BY <1>2, FreeType DEF ValidateExisting, Leave
  <2>2. CASE UNCHANGED answers
    BY <1>1, <1>2, <2>1, <2>2
  <2>3. CASE answers' = answers \cup {[key |-> k, result |-> record[k]]}
    <3>1. Pledged' = Pledged
      BY <1>0, <1>2, <2>1, PledgesKept
    <3>2. Once!Tell(k)
      BY <1>2, <2>1, <2>3, <3>1 DEF Once!Tell
    <3>3. ASSUME NEW x \in answers' \ broken' PROVE (Recorded(x) \/ Underway(x))'
      <4>1. CASE x \in answers
        BY <1>0, <1>2, <2>1, <3>3, <4>1, StaysTold
      <4>2. CASE x = [key |-> k, result |-> record[k]]
        BY <1>2, <2>1, <4>2 DEF Recorded
      <4> QED
        BY <2>3, <3>3, <4>1, <4>2
    <3> QED
      BY <1>0, <3>2, <3>3 DEF AnswersTold, Once!OnceNext
  <2> QED
    BY <1>2, <2>2, <2>3 DEF ValidateExisting, Positive, Negative
<1>3. CASE Find(r)
  <2>1. CASE record[k] # NoRecord
    BY <1>2, <1>3, <2>1 DEF Find
  <2>2. CASE record[k] = NoRecord
    <3>1. /\ req' = [req EXCEPT ![r] = [req[r] EXCEPT !.pc = "insert"]]
          /\ UNCHANGED <<record, answers, broken>> /\ req[r].pc # "answered"
      BY <1>0, <1>3, <2>2 DEF Find, Goes
    <3>2. /\ [req[r] EXCEPT !.pc = "insert"] \in Request
          /\ [req[r] EXCEPT !.pc = "insert"].pc # "answered"
      BY <1>0 DEF Request
    <3> QED
      BY <1>1, <3>1, <3>2
  <2> QED
    BY <2>1, <2>2
<1>4. CASE Insert(r)
  <2>1. PICK pc \in {"reread", "operate"} :
            req' = [req EXCEPT ![r] = [req[r] EXCEPT !.pc = pc]]
    BY <1>0, <1>4 DEF Insert, Goes
  <2>2. UNCHANGED <<record, answers, broken>> /\ req[r].pc # "answered"
    BY <1>4 DEF Insert
  <2>3. /\ [req[r] EXCEPT !.pc = pc] \in Request
        /\ [req[r] EXCEPT !.pc = pc].pc # "answered"
    BY <1>0 DEF Request
  <2> QED
    BY <1>1, <2>1, <2>2, <2>3
<1>5. CASE Reread(r)
  <2>1. CASE Unresolved(r)
    <3>1. /\ req' = [req EXCEPT ![r] = Free] /\ UNCHANGED <<record, answers, broken>>
          /\ req[r].pc # "answered"
      BY <1>5, <2>1 DEF Reread, Leave, Negative
    <3> QED
      BY <1>1, <3>1, FreeType
  <2>2. CASE ~Unresolved(r)
    BY <1>2, <1>5, <2>2 DEF Reread, Unresolved
  <2> QED
    BY <2>1, <2>2
<1>6. CASE Operate(r)
  <2>1. /\ req' = [req EXCEPT ![r] = [req[r] EXCEPT !.pc = "complete", !.id = lastId + 1]]
        /\ UNCHANGED <<record, answers, broken>> /\ req[r].pc # "answered"
    BY <1>0, <1>6 DEF Operate
  <2>2. lastId + 1 \in Nat
    BY <1>0 DEF TypeOK
  <2>3. /\ [req[r] EXCEPT !.pc = "complete", !.id = lastId + 1] \in Request
        /\ [req[r] EXCEPT !.pc = "complete", !.id = lastId + 1].pc # "answered"
    BY <1>0, <2>2 DEF Request
  <2> QED
    BY <1>1, <2>1, <2>3
<1>7. CASE Answer(r)
  BY <1>7, AnswerTells
<1>8. CASE Commit(r)
  BY <1>8, CommitTells
<1>9. CASE Fails(r)
  BY <1>9, FailureTells
<1> QED
  BY <1>3, <1>4, <1>5, <1>6, <1>7, <1>8, <1>9 DEF ServerStep

LEMMA StepTells ==
    ASSUME IInv, Next
    PROVE  AnswersTold' /\ [Once!OnceNext]_OnceVars
<1>1. ASSUME NEW c \in Clients, GiveUp(c)
      PROVE  AnswersTold' /\ UNCHANGED OnceVars
  <2>1. UNCHANGED <<record, req, answers, broken>>
    BY <1>1 DEF GiveUp
  <2> QED
    BY <2>1 DEF IInv, AnswersTold, Recorded, Underway, Result, OnceVars, Pledged
<1>2. ASSUME NEW c \in Clients, NEW r \in Slots, ClientStep(c, r)
      PROVE  AnswersTold' /\ UNCHANGED OnceVars
  <2>1. PICK k, f : Send(c, r, k, f)
    BY <1>2 DEF ClientStep, Submit, Resubmit, Intake
  <2>2. UNCHANGED <<record, answers, broken>>
    BY <1>2 DEF ClientStep, Submit, Resubmit, Intake
  <2> DEFINE q == [pc |-> "find", from |-> c, key |-> k, form |-> f, id |-> 0]
  <2>3. req' = [req EXCEPT ![r] = q] /\ req[r].pc = "free" /\ q.pc = "find"
    BY <2>1 DEF Send
  <2>4. TypeOK /\ AnswersTold
        /\ \A x \in answers : x.key \in Keys /\ x = [key |-> x.key, result |-> x.result]
    BY DEF IInv, TypeOK
  <2>5. Pledged' = Pledged
    BY <2>3, <2>4, PledgesKept
  <2>6. AnswersTold'
    BY <2>2, <2>3, <2>4, StaysTold DEF AnswersTold
  <2> QED
    BY <2>2, <2>5, <2>6 DEF OnceVars
<1> QED
  BY <1>1, <1>2, ServerTells DEF Next

LEMMA StepHolds ==
    ASSUME IInv, [Next]_vars
    PROVE  IInv'
<1>1. CASE Next
  <2>1. TypeOK'
    BY StepTyped DEF IInv
  <2>2. RequestsHold'
    BY <1>1, ServerHolds, ClientHolds DEF IInv, Next
  <2>3. EffectsNumbered' /\ RecordedTogether'
    <3>1. CASE UNCHANGED <<record, effects>>
      BY <3>1 DEF IInv, EffectsNumbered, RecordedTogether
    <3> QED
      BY <1>1, <3>1, OnlyCommits, CommitTogether
  <2>4. AnswersTold'
    BY <1>1, StepTells
  <2> QED
    BY <2>1, <2>2, <2>3, <2>4 DEF IInv
<1>2. CASE UNCHANGED vars
  BY <1>2 DEF vars, IInv, TypeOK, RequestsHold, Holds, Numbered, Lost, EffectsNumbered,
              RecordedTogether, AnswersTold, Recorded, Underway, Result
<1> QED
  BY <1>1, <1>2

LEMMA InitHolds == Init => IInv
<1> SUFFICES ASSUME Init PROVE IInv
  OBVIOUS
<1>1. \A r \in Slots : req[r].pc = "free"
  BY FreeType DEF Init
<1>2. RequestsHold
  BY <1>1 DEF RequestsHold, Holds, Numbered, Lost, Holding
<1>3. EffectsNumbered /\ RecordedTogether /\ AnswersTold
  BY DEF Init, EffectsNumbered, RecordedTogether, AnswersTold
<1> QED
  BY <1>2, <1>3, InitTyped DEF IInv

-----------------------------------------------------------------------------
(***************************************************************************)
(* Theorems.                                                               *)
(***************************************************************************)

\* The invariant holds: a key that is being worked on has one holder and no record.
THEOREM RequestsExclude == Spec => []IInv
<1>1. Init => IInv
  BY InitHolds
<1>2. IInv /\ [Next]_vars => IInv'
  BY StepHolds
<1> QED
  BY <1>1, <1>2, PTL DEF Spec

\* Rows, requests and clients keep their types, and no client waits for a request
\* that has ended.
THEOREM IdempotencyTyped == Spec => []TypeOK
<1>1. IInv => TypeOK
  BY DEF IInv
<1> QED
  BY <1>1, RequestsExclude, PTL

\* The record of a key and its effect are committed together.
THEOREM ClaimsFollowEffects == Spec => []RecordedTogether
<1>1. IInv => RecordedTogether
  BY DEF IInv
<1> QED
  BY <1>1, RequestsExclude, PTL

\* An operation commits at most once for its key, whoever repeats the request.
THEOREM AtMostOneEffect == Spec => []OncePerKey
<1>1. IInv => OncePerKey
  <2> SUFFICES ASSUME IInv, NEW x \in effects, NEW y \in effects, x.key = y.key
               PROVE  x = y
    BY DEF OncePerKey
  <2>1. /\ x \in [key : Keys, form : Forms, id : Nat]
        /\ y \in [key : Keys, form : Forms, id : Nat]
    BY DEF IInv, TypeOK
  <2>2. [form |-> x.form, id |-> x.id] = [form |-> y.form, id |-> y.id]
    BY DEF IInv, RecordedTogether
  <2>3. x.form = y.form /\ x.id = y.id
    BY <2>2
  <2> QED
    BY <2>1, <2>3
<1> QED
  BY <1>1, RequestsExclude, PTL

\* Whoever loses the insert of a key finds the winner's record with its response.
THEOREM LosersReplay == Spec => []RaceIsResolved
<1>1. IInv => RaceIsResolved
  <2> SUFFICES ASSUME IInv, NEW r \in Slots
               PROVE  /\ req[r].pc = "reread" => ~Unresolved(r)
                      /\ record[req[r].key] # NoRecord => record[req[r].key].id # 0
    BY DEF RaceIsResolved
  <2>1. req[r].pc = "reread" => ~Unresolved(r)
    BY DEF IInv, RequestsHold, Lost, Unresolved
  <2>2. ASSUME record[req[r].key] # NoRecord
        PROVE  record[req[r].key].id # 0
    <3> DEFINE k == req[r].key
    <3>1. k \in Keys
      BY DEF IInv, TypeOK, Request
    <3>2. [key |-> k, form |-> record[k].form, id |-> record[k].id] \in effects
      BY <2>2, <3>1 DEF IInv, RecordedTogether
    <3>3. [key |-> k, form |-> record[k].form, id |-> record[k].id].id # 0
      BY <3>2 DEF IInv, EffectsNumbered
    <3> QED
      BY <3>3
  <2> QED
    BY <2>1, <2>2
<1> QED
  BY <1>1, RequestsExclude, PTL

\* All answers under one key tell of the same result, whether they leave before or after
\* their commit, save those given ahead of a commit that failed.
THEOREM OneTruthPerKey == Spec => []AnswersAgree
<1>1. IInv => AnswersAgree
  <2> SUFFICES ASSUME IInv, NEW x \in answers \ broken, NEW y \in answers \ broken,
                      x.key = y.key
               PROVE  x = y
    BY DEF AnswersAgree
  <2>1. \A p, q \in Slots : req[p].key = req[q].key /\ req[p].pc = "answered"
                              /\ req[q].pc = "answered" => p = q
    BY DEF IInv, RequestsHold, Holds, Holding
  <2>2. \A p \in Slots : req[p].pc = "answered" => record[req[p].key] = NoRecord
    BY DEF IInv, RequestsHold, Holds, Holding
  <2>3. (Recorded(x) \/ Underway(x)) /\ (Recorded(y) \/ Underway(y))
    BY DEF IInv, AnswersTold
  <2>4. x.result = y.result
    BY <2>1, <2>2, <2>3 DEF Recorded, Underway
  <2>5. /\ x \in [key : Keys, result : [form : Forms, id : Nat]]
        /\ y \in [key : Keys, result : [form : Forms, id : Nat]]
    BY DEF IInv, TypeOK
  <2> QED
    BY <2>4, <2>5
<1> QED
  BY <1>1, RequestsExclude, PTL

\* The records implement OnceOnly: each key takes effect once, and answers are given of
\* that effect, after it or, as a pledge that is kept or broken off, ahead of it.
THEOREM RecordsKeepOnce == Spec => KeepsOnce
<1>1. Init => Once!OnceInit
  <2> SUFFICES ASSUME Init PROVE Once!OnceInit
    OBVIOUS
  <2>1. \A r \in Slots : req[r].pc # "answered"
    BY FreeType DEF Init
  <2>2. \A k \in Keys : {q \in Slots : req[q].key = k /\ req[q].pc = "answered"} = {}
    BY <2>1
  <2>3. Pledged = [k \in Keys |-> {}]
    BY <2>2 DEF Pledged
  <2> QED
    BY <2>3 DEF Init, Once!OnceInit
<1>2. IInv /\ [Next]_vars => [Once!OnceNext]_OnceVars
  <2> SUFFICES ASSUME IInv, [Next]_vars
               PROVE  [Once!OnceNext]_OnceVars
    OBVIOUS
  <2>1. CASE Next
    BY <2>1, StepTells
  <2>2. CASE UNCHANGED vars
    BY <2>2 DEF vars, OnceVars, Pledged, Result
  <2> QED
    BY <2>1, <2>2
<1> QED
  BY <1>1, <1>2, RequestsExclude, PTL DEF Spec, KeepsOnce, Once!OnceSpec, OnceVars

-----------------------------------------------------------------------------
(***************************************************************************)
(* Forms that are not edited.                                              *)
(***************************************************************************)
\* A key not drawn yet is known to nobody.
Unseen(k) == /\ record[k] = NoRecord
             /\ \A r \in Slots : req[r].key # k
             /\ \A c \in Tabs : client[c].key # k

\* A key a tab keeps was drawn by this tab for the form it still shows: whatever
\* carries the key carries that form.
OwnForm(c) ==
    client[c].key # NoKey =>
        /\ client[c].key \in TabKeys
        /\ \A d \in Tabs : client[d].key = client[c].key => d = c
        /\ \A r \in Slots : req[r].key = client[c].key => req[r].form = client[c].form
        /\ record[client[c].key] # NoRecord =>
              record[client[c].key].form = client[c].form

KeysInv == (\A k \in TabKeys \ issued : Unseen(k)) /\ \A c \in Tabs : OwnForm(c)

\* What a step of the API leaves of requests, clients and records.
RequestKept(r) ==
    \/ req'[r].key = EventKey
    \/ req'[r].key = req[r].key /\ req'[r].form = req[r].form
ClientKept(c) ==
    client'[c].form = client[c].form /\ client'[c].key \in {client[c].key, NoKey}
RecordKept(k) ==
    \/ record'[k] = record[k]
    \/ \E r \in Slots : req[r].key = k /\ record'[k].form = req[r].form

LEMMA KeptForms ==
    ASSUME KeysInv, UNCHANGED issued, \A r \in Slots : RequestKept(r),
           \A c \in Tabs : ClientKept(c), \A k \in Keys : RecordKept(k)
    PROVE  KeysInv'
<1>1. ASSUME NEW k \in TabKeys \ issued' PROVE Unseen(k)'
  <2>1. Unseen(k) /\ k \in Keys /\ k # EventKey /\ k # NoKey
    BY <1>1, KeysAssumption DEF KeysInv, Keys
  <2> QED
    BY <2>1 DEF Unseen, RequestKept, ClientKept, RecordKept
<1>2. ASSUME NEW c \in Tabs, client'[c].key # NoKey PROVE OwnForm(c)'
  <2>1. PICK k : k = client[c].key
    OBVIOUS
  <2>2. client'[c].key = k /\ client'[c].form = client[c].form /\ OwnForm(c)
    BY <1>2, <2>1 DEF ClientKept, KeysInv
  <2>3. k \in TabKeys /\ k \in Keys /\ k # EventKey /\ k # NoKey
    BY <1>2, <2>1, <2>2, KeysAssumption DEF OwnForm, Keys
  <2>4. \A d \in Tabs : client'[d].key = k => d = c
    BY <2>1, <2>2, <2>3 DEF ClientKept, OwnForm
  <2>5. \A r \in Slots : req'[r].key = k => req'[r].form = client[c].form
    BY <2>1, <2>2, <2>3 DEF RequestKept, OwnForm
  <2>6. record'[k] # NoRecord => record'[k].form = client[c].form
    BY <2>1, <2>2, <2>3 DEF RecordKept, OwnForm
  <2> QED
    BY <2>2, <2>3, <2>4, <2>5, <2>6 DEF OwnForm
<1>3. \A c \in Tabs : OwnForm(c)'
  BY <1>2 DEF OwnForm
<1> QED
  BY <1>1, <1>3 DEF KeysInv

LEMMA AnswerKeeps ==
    ASSUME TypeOK, NEW r \in Slots,
           UNCHANGED client \/ Negative(r) \/ \E result : Positive(r, result)
    PROVE  \A c \in Tabs : ClientKept(c)
<1>1. /\ client \in [Clients -> Client] /\ req[r].from \in Clients
      /\ Tabs \subseteq Clients /\ \A c \in Tabs : c \notin Flows
  BY ClientsAssumption DEF TypeOK, Request, Clients
<1>2. PICK d \in Clients : d = req[r].from
  BY <1>1
<1>3. CASE client' = client
  BY <1>3 DEF ClientKept
<1>4. CASE Negative(r) /\ Awaited(r)
  <2>1. client' = [client EXCEPT ![d].phase = "ready", ![d].slot = "none"]
    BY <1>2, <1>4 DEF Negative
  <2> QED
    BY <1>1, <2>1 DEF ClientKept, Client
<1>5. CASE Awaited(r) /\ \E result : Positive(r, result)
  <2>1. client' = [client EXCEPT ![d].phase = "ready", ![d].slot = "none",
                                 ![d].key = KeptAfter(d)]
    BY <1>2, <1>5 DEF Positive
  <2>2. d \in Tabs => KeptAfter(d) = NoKey
    BY <1>1 DEF KeptAfter
  <2> QED
    BY <1>1, <2>1, <2>2 DEF ClientKept, Client
<1> QED
  BY <1>3, <1>4, <1>5 DEF Negative, Positive

LEMMA ServerKeepsForms ==
    ASSUME IInv, KeysInv, NEW r \in Slots, ServerStep(r) \/ Fails(r)
    PROVE  KeysInv'
<1>0. req \in [Slots -> Request] /\ req[r] \in Request /\ TypeOK /\ req[r].key \in Keys
  BY DEF IInv, TypeOK, Request
<1>1. UNCHANGED issued
  BY DEF ServerStep, Find, Insert, Reread, Operate, Answer, Commit, Fails, ValidateExisting
<1>2. \A c \in Tabs : ClientKept(c)
  <2>1. UNCHANGED client \/ Negative(r) \/ \E result : Positive(r, result)
    BY DEF ServerStep, Find, Insert, Reread, Operate, Answer, Commit, Fails, ValidateExisting
  <2> QED
    BY <1>0, <2>1, AnswerKeeps
<1>3. \A s \in Slots : RequestKept(s)
  <2>1. \/ req' = [req EXCEPT ![r] = Free]
        \/ \E pc : req' = [req EXCEPT ![r].pc = pc]
        \/ req' = [req EXCEPT ![r].pc = "complete", ![r].id = lastId + 1]
    BY DEF ServerStep, Find, Insert, Reread, Operate, Answer, Commit, Fails,
       ValidateExisting, Leave, Goes
  <2>2. Free.key = EventKey
    BY DEF Free
  <2> QED
    BY <1>0, <2>1, <2>2 DEF RequestKept, Request
<1>4. \A k \in Keys : RecordKept(k)
  <2>1. CASE UNCHANGED record
    BY <2>1 DEF RecordKept
  <2>2. CASE Commit(r)
    <3>1. record' = [record EXCEPT ![req[r].key] = Result(r)] /\ Result(r).form = req[r].form
      BY <2>2 DEF Commit, Result
    <3> QED
      BY <1>0, <3>1 DEF RecordKept, TypeOK
  <2> QED
    BY <2>1, <2>2 DEF ServerStep, Find, Insert, Reread, Operate, Answer, Fails,
       ValidateExisting
<1> QED
  BY <1>1, <1>2, <1>3, <1>4, KeptForms

\* What a client sends carries the form it shows, under a key that is its own: a new
\* one, the one it keeps, or the key of the event, which is no tab's.
LEMMA SendKeepsForms ==
    ASSUME IInv, KeysInv, NEW c \in Clients, NEW r \in Slots, NEW k \in Keys, NEW f \in Forms,
           Send(c, r, k, f), UNCHANGED record, issued \subseteq issued',
           \/ c \in Flows /\ k = EventKey
           \/ c \in Tabs /\ k \in TabKeys \ issued /\ k \in issued'
           \/ c \in Tabs /\ k = client[c].key /\ k # NoKey /\ f = client[c].form
    PROVE  KeysInv'
<1>1. /\ req \in [Slots -> Request] /\ client \in [Clients -> Client]
      /\ Tabs \subseteq Clients /\ \A d \in Tabs : d \notin Flows
  BY ClientsAssumption DEF IInv, TypeOK, Clients
<1>2. /\ req'[r].key = k /\ req'[r].form = f /\ client'[c].key = k /\ client'[c].form = f
      /\ \A s \in Slots \ {r} : req'[s] = req[s]
      /\ \A d \in Clients \ {c} : client'[d] = client[d]
  BY <1>1 DEF Send
<1>3. k # EventKey => c \in Tabs /\ k \in TabKeys
  BY DEF KeysInv, OwnForm
<1>4. \A d \in Tabs : OwnForm(d) /\ d \in Clients
  BY <1>1 DEF KeysInv
<1>5. k \in issued' \/ k = EventKey
  BY <1>3, <1>4 DEF KeysInv, Unseen
<1>6. ASSUME NEW j \in TabKeys \ issued' PROVE Unseen(j)'
  <2>1. Unseen(j) /\ j # k
    BY <1>5, <1>6, KeysAssumption DEF KeysInv
  <2> QED
    BY <1>1, <1>2, <2>1 DEF Unseen
<1>7. ASSUME NEW d \in Tabs, d # c PROVE OwnForm(d)'
  <2>1. client'[d] = client[d] /\ OwnForm(d)
    BY <1>1, <1>2, <1>4, <1>7
  <2>2. client[d].key # NoKey => client[d].key # k
    BY <1>3, <1>4, <1>7, KeysAssumption DEF KeysInv, Unseen, OwnForm
  <2> QED
    BY <1>1, <1>2, <2>1, <2>2 DEF OwnForm
<1>8. ASSUME c \in Tabs PROVE OwnForm(c)'
  <2>1. k \in TabKeys
    BY <1>1, <1>3, <1>4, <1>8 DEF OwnForm
  <2>2. \A d \in Tabs : d # c => client[d].key # k
    BY <1>1, <1>4, <1>8, <2>1 DEF KeysInv, Unseen, OwnForm
  <2>3. \A s \in Slots : req[s].key = k => req[s].form = f
    BY <1>1, <1>4, <1>8 DEF KeysInv, Unseen, OwnForm
  <2>4. record[k] # NoRecord => record[k].form = f
    BY <1>1, <1>4, <1>8 DEF KeysInv, Unseen, OwnForm
  <2> QED
    BY <1>1, <1>2, <2>1, <2>2, <2>3, <2>4 DEF OwnForm
<1> QED
  BY <1>6, <1>7, <1>8 DEF KeysInv

LEMMA ClientKeepsForms ==
    ASSUME ~MayEdit, IInv, KeysInv, NEW c \in Clients,
           GiveUp(c) \/ \E r \in Slots : ClientStep(c, r)
    PROVE  KeysInv'
<1>0. client \in [Clients -> Client] /\ Tabs \subseteq Clients /\ client[c] \in Client
  BY DEF IInv, TypeOK, Clients
<1>1. CASE GiveUp(c)
  <2>1. UNCHANGED <<record, req, issued>>
    BY <1>1 DEF GiveUp
  <2>2. \A d \in Tabs : ClientKept(d)
    BY <1>0, <1>1 DEF GiveUp, ClientKept, Client
  <2> QED
    BY <2>1, <2>2, KeptForms DEF RequestKept, RecordKept
<1>2. ASSUME NEW r \in Slots, Submit(c, r) PROVE KeysInv'
  <2>1. PICK k \in TabKeys \ issued, f \in Forms :
          Send(c, r, k, f) /\ issued' = issued \cup {k}
    BY <1>2 DEF Submit
  <2>2. c \in Tabs /\ UNCHANGED record
    BY <1>2 DEF Submit
  <2> QED
    BY <2>1, <2>2, SendKeepsForms DEF Keys
<1>3. ASSUME NEW r \in Slots, Resubmit(c, r) PROVE KeysInv'
  <2>1. /\ c \in Tabs /\ client[c].key # NoKey /\ UNCHANGED <<record, issued>>
        /\ Send(c, r, client[c].key, client[c].form)
    BY <1>3 DEF Resubmit
  <2>2. client[c].key \in Keys /\ client[c].form \in Forms
    BY <1>0, <2>1 DEF Client
  <2> QED
    BY <2>1, <2>2, SendKeepsForms
<1>4. ASSUME NEW r \in Slots, Intake(c, r) PROVE KeysInv'
  <2>1. c \in Flows /\ UNCHANGED <<record, issued>> /\ Send(c, r, EventKey, client[c].form)
    BY <1>4 DEF Intake
  <2>2. EventKey \in Keys /\ client[c].form \in Forms
    BY <1>0 DEF Client, Keys
  <2> QED
    BY <2>1, <2>2, SendKeepsForms
<1> QED
  BY <1>1, <1>2, <1>3, <1>4 DEF ClientStep

\* As long as nobody edits a form between its submissions, no tab is refused for a key
\* it drew itself: the record of that key, if there is one, was made for its form.
THEOREM NoFormMeetsAnother == ASSUME ~MayEdit PROVE Spec => []NoConflictWithItself
<1>1. Init => KeysInv
  <2> SUFFICES ASSUME Init PROVE KeysInv
    OBVIOUS
  <2>1. \A c \in Tabs : client[c].key = NoKey
    BY ClientsAssumption DEF Init, Clients
  <2>2. \A k \in TabKeys : record[k] = NoRecord /\ k # EventKey /\ k # NoKey
    BY KeysAssumption DEF Init, Keys
  <2>3. \A r \in Slots : req[r].key = EventKey
    BY DEF Init, Free
  <2> QED
    BY <2>1, <2>2, <2>3 DEF KeysInv, Unseen, OwnForm
<1>2. IInv /\ KeysInv /\ [Next]_vars => KeysInv'
  <2> SUFFICES ASSUME IInv, KeysInv, [Next]_vars PROVE KeysInv'
    OBVIOUS
  <2>1. CASE UNCHANGED vars
    BY <2>1 DEF vars, KeysInv, Unseen, OwnForm
  <2>2. CASE Next
    BY <2>2, ServerKeepsForms, ClientKeepsForms DEF Next
  <2> QED
    BY <2>1, <2>2
<1>3. KeysInv => NoConflictWithItself
  BY DEF KeysInv, OwnForm, NoConflictWithItself
<1> QED
  BY <1>1, <1>2, <1>3, RequestsExclude, PTL DEF Spec
=============================================================================
