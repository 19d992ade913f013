---------------------------- MODULE Idempotency -----------------------------
(***************************************************************************)
(* The idempotency records of the API and the clients that rely on them.   *)
(*                                                                         *)
(* A request looks for a committed record of its key (services/            *)
(* idempotency.py), inserts one inside a savepoint, performs the operation *)
(* and commits both together.  A second insert of the key waits for the    *)
(* first to end: then it either inserts or, refused by the unique index,   *)
(* reads again what the first has committed.  A failure rolls everything   *)
(* back, the claim included.                                               *)
(*                                                                         *)
(* A browser tab keeps the key of its form until it sees a positive answer *)
(* (frontend/src/api.ts, App.tsx); the intake workflow derives it from the *)
(* event (n8n/workflows/01-return-intake.json).  Answers get lost, and a   *)
(* request goes on when its client has given up.                           *)
(*                                                                         *)
(* A key stands for the triple (organization, scope, key) of the index.    *)
(***************************************************************************)
EXTENDS Naturals

CONSTANTS
    Tabs,          \* browser tabs
    Flows,         \* executions of the intake workflow for one event
    TabKeys,       \* keys the browsers draw
    EventKey,      \* the key of the event
    Forms,         \* request bodies
    Slots,         \* requests the API can be working on at a time
    MaxFaults,     \* bound: crashes, refusals, answers lost
    MayEdit,       \* may a user change the form before submitting it again?
    NoKey          \* no key is kept

ASSUME ClientsAssumption == Tabs \cap Flows = {} /\ Tabs \cup Flows # {}
ASSUME FormsAssumption == Forms # {}
ASSUME KeysAssumption == EventKey \notin TabKeys /\ NoKey \notin TabKeys \cup {EventKey}
ASSUME SlotsAssumption == "none" \notin Slots
ASSUME SwitchAssumption == MayEdit \in BOOLEAN
ASSUME FaultsAssumption == MaxFaults \in Nat

VARIABLES
    record,   \* committed rows of idempotency_record, by key
    holder,   \* the request whose insert of the key is not committed yet
    effects,  \* what the operations have committed: [key, form, id]
    lastId,   \* identifiers drawn so far, also by transactions that roll back
    req,      \* the requests in process
    client,   \* what each client is doing
    issued,   \* keys drawn so far
    answers,  \* history: the positive answers clients received
    broken,   \* history: what was answered ahead of a commit that then failed
    faults

vars == <<record, holder, effects, lastId, req, client, issued, answers, broken, faults>>

Clients == Tabs \cup Flows
Keys == TabKeys \cup {EventKey}

\* A row holds the body it was made for and the response; 0 is a null response.
NoRecord == [form |-> NoKey, id |-> 0]

Request == [pc : {"free", "find", "insert", "reread", "operate", "complete", "answered"},
            from : Clients, key : Keys, form : Forms, id : Nat]
Client == [phase : {"ready", "waiting"}, key : Keys \cup {NoKey}, form : Forms,
           slot : Slots \cup {"none"}]

Holding == {"operate", "complete", "answered"}

\* Rows, requests and clients keep their types, and a client waits for a request
\* that is its own and still open: an answer is never awaited for nothing.
TypeOK ==
    /\ record \in [Keys -> [form : Forms \cup {NoKey}, id : Nat]]
    /\ holder \in [Keys -> Slots \cup {"none"}]
    /\ effects \in SUBSET [key : Keys, form : Forms, id : Nat]
    /\ lastId \in Nat
    /\ req \in [Slots -> Request]
    /\ client \in [Clients -> Client]
    /\ issued \in SUBSET TabKeys
    /\ answers \in SUBSET [key : Keys, result : [form : Forms, id : Nat]]
    /\ broken \in SUBSET [key : Keys, result : [form : Forms, id : Nat]]
    /\ faults \in Nat
    /\ \A c \in Clients : client[c].phase = "waiting" =>
          \E r \in Slots : /\ client[c].slot = r
                           /\ req[r].from = c /\ req[r].pc \notin {"free", "answered"}

-----------------------------------------------------------------------------
Free == [pc |-> "free", from |-> CHOOSE c \in Clients : TRUE, key |-> EventKey,
         form |-> CHOOSE f \in Forms : TRUE, id |-> 0]

Init ==
    /\ record = [k \in Keys |-> NoRecord]
    /\ holder = [k \in Keys |-> "none"]
    /\ effects = {}
    /\ lastId = 0
    /\ req = [r \in Slots |-> Free]
    /\ client = [c \in Clients |-> [phase |-> "ready", form |-> CHOOSE f \in Forms : TRUE,
                                    key |-> IF c \in Flows THEN EventKey ELSE NoKey,
                                    slot |-> "none"]]
    /\ issued = {}
    /\ answers = {}
    /\ broken = {}
    /\ faults = 0

Fault == faults < MaxFaults /\ faults' = faults + 1   \* bound

-----------------------------------------------------------------------------
(***************************************************************************)
(* Clients.                                                                *)
(***************************************************************************)
Send(c, r, key, form) ==
    /\ client[c].phase = "ready"
    /\ req[r].pc = "free"
    /\ req' = [req EXCEPT ![r] = [pc |-> "find", from |-> c, key |-> key, form |-> form,
                                  id |-> 0]]
    /\ client' = [client EXCEPT ![c] = [phase |-> "waiting", key |-> key, form |-> form,
                                        slot |-> r]]

\* Mutated form: the key is not drawn afresh.
SubmitReusingKeys(c, r) ==
    /\ c \in Tabs /\ client[c].key = NoKey
    /\ \E k \in TabKeys, f \in Forms : Send(c, r, k, f) /\ issued' = issued \cup {k}
    /\ UNCHANGED <<record, holder, effects, lastId, answers, broken, faults>>

\* createReturn and runAction: a first submission draws a key ...
Submit(c, r) ==
    /\ c \in Tabs /\ client[c].key = NoKey
    /\ \E k \in TabKeys \ issued, f \in Forms : Send(c, r, k, f) /\ issued' = issued \cup {k}
    /\ UNCHANGED <<record, holder, effects, lastId, answers, broken, faults>>

\* ... and while no positive answer has been seen, the next one carries the key
\* that is kept, whether or not the form has been changed.
Resubmit(c, r) ==
    /\ c \in Tabs /\ client[c].key # NoKey
    /\ \E f \in IF MayEdit THEN Forms ELSE {client[c].form} : Send(c, r, client[c].key, f)
    /\ UNCHANGED <<record, holder, effects, lastId, issued, answers, broken, faults>>

\* The workflow runs for the event, first or again, perhaps with another body.
Intake(c, r) ==
    /\ c \in Flows
    /\ \E f \in IF MayEdit THEN Forms ELSE {client[c].form} : Send(c, r, EventKey, f)
    /\ UNCHANGED <<record, holder, effects, lastId, issued, answers, broken, faults>>

\* The connection breaks: the client stops waiting, the request goes on.
GiveUp(c) ==
    /\ client[c].phase = "waiting"
    /\ client' = [client EXCEPT ![c].phase = "ready", ![c].slot = "none"]
    /\ Fault
    /\ UNCHANGED <<record, holder, effects, lastId, req, issued, answers, broken>>

\* The answer to request r arrives, if somebody waits for it.
Awaited(r) == client[req[r].from].phase = "waiting" /\ client[req[r].from].slot = r

\* Mutated form: the key is kept after a positive answer.
KeptForEver(c) == client[c].key

\* clearIdempotencyKey after a positive answer.
KeptAfter(c) == IF c \in Flows THEN EventKey ELSE NoKey

Positive(r, result) ==
    IF Awaited(r)
    THEN /\ client' = [client EXCEPT ![req[r].from].phase = "ready",
                                     ![req[r].from].slot = "none",
                                     ![req[r].from].key = KeptAfter(req[r].from)]
         /\ answers' = answers \cup {[key |-> req[r].key, result |-> result]}
    ELSE UNCHANGED <<client, answers>>

\* Mutated form: an error reaches nobody.
NegativeSwallowed(r) == UNCHANGED <<client, answers>>

Negative(r) ==
    /\ client' = IF Awaited(r)
                 THEN [client EXCEPT ![req[r].from].phase = "ready",
                                     ![req[r].from].slot = "none"]
                 ELSE client
    /\ UNCHANGED answers

-----------------------------------------------------------------------------
(***************************************************************************)
(* The API: claim, operation, complete, commit.                            *)
(***************************************************************************)
Leave(r) == req' = [req EXCEPT ![r] = Free]
Goes(r, pc) == req' = [req EXCEPT ![r].pc = pc]

Replayable(r) == record[req[r].key].form = req[r].form /\ record[req[r].key].id # 0

\* _validate_existing: replay, or refuse another body or a null response.
ValidateExisting(r) ==
    /\ Leave(r)
    /\ IF Replayable(r) THEN Positive(r, record[req[r].key]) ELSE Negative(r)
    /\ UNCHANGED <<record, holder, effects, lastId, issued, broken, faults>>

Find(r) ==
    /\ req[r].pc = "find"
    /\ IF record[req[r].key] # NoRecord
       THEN ValidateExisting(r)
       ELSE /\ Goes(r, "insert")
            /\ UNCHANGED <<record, holder, effects, lastId, client, issued, answers, broken,
                           faults>>

\* Mutated forms: no unique index; an existing row is taken over; the claim is
\* committed before the operation.
InsertUnindexed(r) ==
    /\ req[r].pc = "insert"
    /\ Goes(r, "operate") /\ holder' = [holder EXCEPT ![req[r].key] = r]
    /\ UNCHANGED <<record, effects, lastId, client, issued, answers, broken, faults>>
InsertOrUpdate(r) ==
    /\ req[r].pc = "insert" /\ holder[req[r].key] = "none"
    /\ Goes(r, "operate") /\ holder' = [holder EXCEPT ![req[r].key] = r]
    /\ UNCHANGED <<record, effects, lastId, client, issued, answers, broken, faults>>
InsertCommitted(r) ==
    LET k == req[r].key
    IN  /\ req[r].pc = "insert" /\ holder[k] = "none"
        /\ IF record[k] # NoRecord
           THEN Goes(r, "reread") /\ UNCHANGED record
           ELSE Goes(r, "operate") /\ record' = [record EXCEPT ![k].form = req[r].form]
        /\ UNCHANGED <<holder, effects, lastId, client, issued, answers, broken, faults>>

\* The insert waits while another transaction holds the key.
Insert(r) ==
    LET k == req[r].key
    IN  /\ req[r].pc = "insert" /\ holder[k] = "none"
        /\ IF record[k] # NoRecord
           THEN Goes(r, "reread") /\ UNCHANGED holder
           ELSE Goes(r, "operate") /\ holder' = [holder EXCEPT ![k] = r]
        /\ UNCHANGED <<record, effects, lastId, client, issued, answers, broken, faults>>

\* After the IntegrityError: the record must be there.
Unresolved(r) == record[req[r].key] = NoRecord

Reread(r) ==
    /\ req[r].pc = "reread"
    /\ IF Unresolved(r)
       THEN Leave(r) /\ Negative(r)
            /\ UNCHANGED <<record, holder, effects, lastId, issued, broken, faults>>
       ELSE ValidateExisting(r)

\* The operation and complete(): a new return gets a new identifier.
Operate(r) ==
    /\ req[r].pc = "operate"
    /\ lastId' = lastId + 1
    /\ req' = [req EXCEPT ![r].pc = "complete", ![r].id = lastId + 1]
    /\ UNCHANGED <<record, holder, effects, client, issued, answers, broken, faults>>

Result(r) == [form |-> req[r].form, id |-> req[r].id]

\* The session is committed by a dependency with yield (db.py).  Whether that happens
\* before or after the answer leaves is up to the version of FastAPI, of which only a
\* lower bound is given: a completed request may answer first ...
Answer(r) ==
    /\ req[r].pc = "complete"
    /\ Goes(r, "answered")
    /\ Positive(r, Result(r))
    /\ UNCHANGED <<record, holder, effects, lastId, issued, broken, faults>>

\* Mutated form: the response is not stored in the record.
CommitIncomplete(r) ==
    LET k == req[r].key
    IN  /\ req[r].pc \in {"complete", "answered"}
        /\ record'  = [record EXCEPT ![k] = [form |-> req[r].form, id |-> 0]]
        /\ holder'  = [holder EXCEPT ![k] = "none"]
        /\ effects' = effects \cup {[key |-> k, form |-> req[r].form, id |-> req[r].id]}
        /\ IF req[r].pc = "answered" THEN UNCHANGED <<client, answers>>
                                     ELSE Positive(r, Result(r))
        /\ Leave(r)
        /\ UNCHANGED <<lastId, issued, broken, faults>>

\* ... or with its commit.
Commit(r) ==
    LET k == req[r].key
    IN  /\ req[r].pc \in {"complete", "answered"}
        /\ record'  = [record EXCEPT ![k] = Result(r)]
        /\ holder'  = [holder EXCEPT ![k] = "none"]
        /\ effects' = effects \cup {[key |-> k, form |-> req[r].form, id |-> req[r].id]}
        /\ IF req[r].pc = "answered" THEN UNCHANGED <<client, answers>>
                                     ELSE Positive(r, Result(r))
        /\ Leave(r)
        /\ UNCHANGED <<lastId, issued, broken, faults>>

\* Mutated form: the claim of a failed request stays.
RollBackNothing(r) == UNCHANGED holder

RollBack(r) ==
    holder' = [k \in Keys |-> IF holder[k] = r THEN "none" ELSE holder[k]]

Answered(r) == [key |-> req[r].key, result |-> Result(r)]

\* A refused operation, a process that dies, a commit that fails.
Fails(r) ==
    /\ req[r].pc # "free"
    /\ RollBack(r)
    /\ Leave(r)
    /\ Negative(r)
    /\ broken' = IF req[r].pc = "answered" THEN broken \cup {Answered(r)} ELSE broken
    /\ Fault
    /\ UNCHANGED <<record, effects, lastId, issued>>

ServerStep(r) ==
    Find(r) \/ Insert(r) \/ Reread(r) \/ Operate(r) \/ Answer(r) \/ Commit(r)

ClientStep(c, r) == Submit(c, r) \/ Resubmit(c, r) \/ Intake(c, r)

Next ==
    \/ \E r \in Slots : ServerStep(r) \/ Fails(r)
    \/ \E c \in Clients : GiveUp(c) \/ \E r \in Slots : ClientStep(c, r)

Spec == Init /\ [][Next]_vars

(***************************************************************************)
(* Fairness.  The API works on every request it has accepted; it waits for *)
(* nothing but another request of the same key.  PatientSpec adds users    *)
(* who submit an unanswered form again.                                    *)
(***************************************************************************)
FairSpec == Spec /\ \A r \in Slots : WF_vars(ServerStep(r))
PatientSpec == FairSpec /\ \A c \in Tabs : SF_vars(\E r \in Slots : Resubmit(c, r))

-----------------------------------------------------------------------------
(***************************************************************************)
(* Properties.                                                             *)
(***************************************************************************)

\* An operation commits at most once for a key, however often and by whomever
\* its request is repeated, also at the same time.
OncePerKey == \A x, y \in effects : x.key = y.key => x = y

\* The record and the effect of a key are committed together: a failed operation
\* leaves no claim behind, and a completed one is always found again.
RecordedTogether ==
    /\ \A k \in Keys : record[k] # NoRecord =>
          [key |-> k, form |-> record[k].form, id |-> record[k].id] \in effects
    /\ \A x \in effects : record[x.key] = [form |-> x.form, id |-> x.id]

\* All positive answers under one key tell of the same result, also while some leave
\* before their commit and others after it, save one that was given ahead of a commit
\* that failed: the next request of its key makes another result.
AnswersAgree == \A x, y \in answers \ broken : x.key = y.key => x = y

\* Whoever loses the insert finds the winner's record, with its response.
RaceIsResolved ==
    \A r \in Slots : /\ req[r].pc = "reread" => ~Unresolved(r)
                     /\ record[req[r].key] # NoRecord => record[req[r].key].id # 0

\* The key of a form is refused as used by another form only to a client that
\* changed the form: a repeated form never meets a conflict of its own making.
NoConflictWithItself ==
    ~MayEdit => \A c \in Tabs : client[c].key # NoKey /\ record[client[c].key] # NoRecord
                   => record[client[c].key].form = client[c].form

\* A request that waits for the holder of its key is let go, however that one ends.
RequestsEnd == \A r \in Slots : req[r].pc = "insert" ~> req[r].pc # "insert"

\* A tab that repeats its form finally sees its positive answer and lets go of
\* the key, although answers are lost and requests fail.
FormsGoThrough == \A c \in Tabs : client[c].key # NoKey ~> client[c].key = NoKey

\* The records keep the promise of OnceOnly; what is pledged under a key is what its
\* holder has answered and not committed.
Results == [form : Forms, id : Nat]
Pledged == [k \in Keys |->
              {Result(r) : r \in {q \in Slots : req[q].key = k /\ req[q].pc = "answered"}}]
Once == INSTANCE OnceOnly WITH done <- record, pledged <- Pledged, Nothing <- NoRecord
KeepsOnce == Once!OnceSpec
=============================================================================
