-------------------------- MODULE RefundWorkProofs --------------------------
(***************************************************************************)
(* A pending refund is never forgotten: what RefundPipeline says of the    *)
(* outbox while workers lose their leases, crash and overwrite each        *)
(* other's rows, proved with TLAPS for every number of workers and users.  *)
(***************************************************************************)
EXTENDS RefundPipelineProofs

-----------------------------------------------------------------------------
(***************************************************************************)
(* The inductive invariant.                                                *)
(***************************************************************************)
Pending  == case.status = "refund_pending"
Refunded == case.status = "refunded"
Present(e) == event[e].status # "absent"
Busy(t) == t.pc \notin {"idle", "claimed"}

\* A worker only ever holds events that exist.
HoldsPresent(w) ==
    /\ \A e \in work[w].batch : Present(e)
    /\ Busy(work[w]) => Present(work[w].event)

\* What a worker has loaded as settled is settled.
LoadedTruly(w) ==
    /\ work[w].sawAttempt = "succeeded" => Refunded
    /\ work[w].sawCase.status \in Unsettled \/ Refunded

\* A worker between flush and commit that writes the attempt has its row locked,
\* so that no retry commits: a pending case is the one it loaded.
LockedKnows(w) ==
    (work[w].pc = "flushed" /\ WritesAttempt(work[w]) /\ Pending) => work[w].sawCase = case

WorkersKnow == \A w \in Workers : HoldsPresent(w) /\ LoadedTruly(w) /\ LockedKnows(w)

\* A finance user loads a doubtful case, and retries a failed attempt.
DesksKnow ==
    \A u \in Users : /\ desk[u].sawCase.status \in Unsettled
                     /\ desk[u].op = "retrying" => desk[u].sawAttempt = "failed"

\* A recorded success settles the case, and an outcome not known takes it out of
\* the workers' hands, in the transaction that records it.
OutcomeMovesCase ==
    /\ attempt = "succeeded" => Refunded
    /\ Pending => attempt # "unknown"

\* An event no worker is about to end behind the back of a pending case: whoever
\* commits on it has loaded the case as it is, so that its commit also moves it.
Guarded(e) ==
    /\ Active(e)
    /\ \A w \in Workers : work[w].event = e =>
          /\ work[w].pc # "closing"
          /\ work[w].pc = "flushed" => work[w].sawCase = case

WorkIsGuarded == Pending => \E e \in EventIds : Guarded(e)

WInv == WorkersKnow /\ DesksKnow /\ OutcomeMovesCase /\ WorkIsGuarded

-----------------------------------------------------------------------------
\* An event row keeps existing, and a rescheduled event keeps waiting.
LEMMA WriteEventKeeps ==
    ASSUME TypeOK, NEW e \in EventIds, NEW loaded \in EventRow,
           NEW status \in {"pending", "done", "dead"}, WriteEvent(e, loaded, status),
           Present(e)
    PROVE  /\ \A f \in EventIds : Present(f) => Present(f)'
           /\ \A f \in EventIds : f # e => (Active(f) => Active(f)')
           /\ status = "pending" => (Active(e) => Active(e)')
<1>1. event \in [EventIds -> EventRow] /\ event[e] \in EventRow
  BY DEF TypeOK
<1>2. event'[e].status = Flush(event[e].status, loaded.status, status)
  BY <1>1 DEF WriteEvent, Released, EventRow
<1>3. \A f \in EventIds : f # e => event'[f] = event[f]
  BY <1>1 DEF WriteEvent
<1> QED
  BY <1>2, <1>3 DEF Present, Active, Flush

\* No mark operation takes a case out of refunded or puts one into pending.
LEMMA MarksKeep ==
    ASSUME case \in CaseRow, NEW saw \in CaseRow,
           \/ MarkUnknownCase(saw) \/ MarkManual(saw)
           \/ MarkSuccessCase(saw) \/ MarkUnknownThenManual(saw)
    PROVE  /\ Refunded => Refunded'
           /\ Pending' => UNCHANGED case
BY DEF MarkUnknownCase, MarkManual, MarkSuccessCase, MarkUnknownThenManual, CasTransition,
       Refunded, Pending, Unsettled, Doubtful, CaseRow

-----------------------------------------------------------------------------
(***************************************************************************)
(* A worker's step keeps the invariant if the record the worker goes on    *)
(* with is sound and no event is ended behind the back of a pending case.  *)
(***************************************************************************)
RecordKnows(t) ==
    /\ \A e \in t.batch : Present(e)
    /\ Busy(t) => Present(t.event)
    /\ t.sawAttempt = "succeeded" => Refunded
    /\ t.sawCase.status \in Unsettled \/ Refunded
    /\ t.pc = "flushed" => t.sawCase = case
    /\ t.pc = "closing" => ~Pending

LEMMA WorkerMoves ==
    ASSUME TypeOK, WInv, NEW w \in Workers, NEW t \in Task, Become(w, t), RecordKnows(t)',
           UNCHANGED desk,
           Refunded => Refunded', Pending' => UNCHANGED case, OutcomeMovesCase',
           \A e \in EventIds : Present(e) => Present(e)',
           \A e \in EventIds : Pending' /\ Guarded(e) => Active(e)'
    PROVE  WInv'
<1>1. work \in [Workers -> Task] /\ work' = [work EXCEPT ![w] = t]
  BY DEF TypeOK, Become
<1>2. ASSUME NEW v \in Workers
      PROVE  HoldsPresent(v)' /\ LoadedTruly(v)' /\ LockedKnows(v)'
  <2>1. CASE v = w
    <3>1. work'[v] = t
      BY <1>1, <2>1
    <3> QED
      BY <3>1 DEF RecordKnows, HoldsPresent, LoadedTruly, LockedKnows
  <2>2. CASE v # w
    <3>1. work'[v] = work[v] /\ work[v] \in Task
      BY <1>1, <2>2
    <3>2. HoldsPresent(v) /\ LoadedTruly(v) /\ LockedKnows(v)
      BY DEF WInv, WorkersKnow
    <3>3. HoldsPresent(v)'
      BY <3>1, <3>2 DEF HoldsPresent, Task
    <3>4. LoadedTruly(v)'
      BY <3>1, <3>2 DEF LoadedTruly
    <3>5. LockedKnows(v)'
      BY <3>1, <3>2 DEF LockedKnows, Pending
    <3> QED
      BY <3>3, <3>4, <3>5
  <2> QED
    BY <2>1, <2>2
<1>3. WorkIsGuarded'
  <2> SUFFICES ASSUME Pending' PROVE \E e \in EventIds : Guarded(e)'
    BY DEF WorkIsGuarded
  <2>1. UNCHANGED case /\ Pending
    BY DEF Pending
  <2>2. PICK e \in EventIds : Guarded(e)
    BY <2>1 DEF WInv, WorkIsGuarded
  <2>3. Active(e)'
    BY <2>2
  <2>4. ASSUME NEW v \in Workers, work'[v].event = e
        PROVE  /\ work'[v].pc # "closing"
               /\ work'[v].pc = "flushed" => work'[v].sawCase = case'
    <3>1. CASE v = w
      BY <1>1, <3>1 DEF RecordKnows
    <3>2. CASE v # w
      BY <1>1, <2>1, <2>2, <2>4, <3>2 DEF Guarded
    <3> QED
      BY <3>1, <3>2
  <2> QED
    BY <2>3, <2>4 DEF Guarded
<1>4. DesksKnow'
  BY DEF WInv, DesksKnow
<1> QED
  BY <1>2, <1>3, <1>4 DEF WInv, WorkersKnow

\* A worker that has finished with an event keeps the rest of its batch.
LEMMA NextTaskFields ==
    ASSUME NEW t \in Task, NEW n, n = NextTask(t)
    PROVE  /\ n \in Task /\ n.batch = t.batch /\ n.pc \in {"idle", "claimed"}
           /\ n.sawAttempt = "planned" /\ n.sawCase.status = "refund_pending"
BY NextTaskType DEF NextTask, NoTask, PlannedCase

LEMMA WorkerFinishes ==
    ASSUME TypeOK, WInv, NEW w \in Workers, NEW t \in Task, Become(w, NextTask(t)),
           \A e \in t.batch : Present(e)', UNCHANGED desk,
           Refunded => Refunded', Pending' => UNCHANGED case, OutcomeMovesCase',
           \A e \in EventIds : Present(e) => Present(e)',
           \A e \in EventIds : Pending' /\ Guarded(e) => Active(e)'
    PROVE  WInv'
<1>1. PICK n : n = NextTask(t)
  OBVIOUS
<1>2. RecordKnows(n)'
  BY <1>1, NextTaskFields DEF RecordKnows, Busy, Unsettled
<1> QED
  BY <1>1, <1>2, NextTaskFields, WorkerMoves

\* A step of a worker that writes no row of case, attempt and event.
LEMMA WorkerReads ==
    ASSUME TypeOK, WInv, NEW w \in Workers, NEW t \in Task, Become(w, t), RecordKnows(t),
           UNCHANGED <<case, attempt, event, desk>>
    PROVE  WInv'
<1>1. RecordKnows(t)'
  BY DEF RecordKnows, Present, Pending, Refunded
<1>2. OutcomeMovesCase' /\ \A e \in EventIds : /\ Present(e) => Present(e)'
                                               /\ Guarded(e) => Active(e)'
  BY DEF WInv, OutcomeMovesCase, Pending, Refunded, Present, Guarded, Active
<1> QED
  BY <1>1, <1>2, WorkerMoves DEF Refunded

-----------------------------------------------------------------------------
(***************************************************************************)
(* The steps of the workers.                                               *)
(***************************************************************************)
LEMMA WorkClaim == ASSUME TypeOK, WInv, NEW w \in Workers, Claim(w) PROVE WInv'
<1>1. PICK batch \in SUBSET {e \in EventIds : Claimable(e)} :
        /\ event' = [e \in EventIds |->
                       IF e \in batch
                       THEN [status |-> "processing", lease |-> "live",
                             attempts |-> event[e].attempts + 1]
                       ELSE event[e]]
        /\ Become(w, [NoTask EXCEPT !.pc = "claimed", !.batch = batch])
  BY Zenon DEF Claim
<1>2. PICK t : t = [NoTask EXCEPT !.pc = "claimed", !.batch = batch]
  OBVIOUS
<1>3. UNCHANGED <<case, attempt, desk>>
  BY DEF Claim
<1>4. \A e \in EventIds : event'[e] = event[e] \/ event'[e].status = "processing"
  BY <1>1
<1>5. \A e \in batch : e \in EventIds /\ event'[e].status = "processing"
  BY <1>1
<1>6. t \in Task
  BY <1>2, DefaultTypes DEF Task
<1>7. RecordKnows(t)'
  BY <1>2, <1>5 DEF RecordKnows, NoTask, PlannedCase, Unsettled, Present, Busy
<1>8. OutcomeMovesCase'
  BY <1>3 DEF WInv, OutcomeMovesCase, Pending, Refunded
<1>9. \A e \in EventIds : (Present(e) => Present(e)') /\ (Guarded(e) => Active(e)')
  BY <1>4 DEF Present, Guarded, Active
<1> QED
  BY <1>1, <1>2, <1>3, <1>6, <1>7, <1>8, <1>9, WorkerMoves DEF Refunded

LEMMA WorkOpen == ASSUME TypeOK, WInv, NEW w \in Workers, Open(w) PROVE WInv'
<1>1. PICK e \in work[w].batch :
        LET rest == [work[w] EXCEPT !.batch = @ \ {e}]
        IN  IF event[e].status = "processing"
            THEN Become(w, [rest EXCEPT !.pc = "opened", !.event = e, !.sawEvent = event[e]])
            ELSE Become(w, NextTask(rest))
  BY Zenon DEF Open
<1>2. PICK rest : rest = [work[w] EXCEPT !.batch = @ \ {e}]
  OBVIOUS
<1>3. UNCHANGED <<case, attempt, event, desk>>
  BY DEF Open
<1>4. work[w] \in Task /\ e \in EventIds /\ event[e] \in EventRow
  BY DEF TypeOK, Task
<1>5. /\ rest \in Task /\ rest.batch = work[w].batch \ {e}
      /\ rest.sawAttempt = work[w].sawAttempt /\ rest.sawCase = work[w].sawCase
  BY <1>2, <1>4 DEF Task
<1>6. HoldsPresent(w) /\ LoadedTruly(w)
  BY DEF WInv, WorkersKnow
<1>7. CASE event[e].status = "processing"
  <2>1. PICK t : t = [rest EXCEPT !.pc = "opened", !.event = e, !.sawEvent = event[e]]
    OBVIOUS
  <2>2. Become(w, t)
    BY <1>1, <1>2, <1>7, <2>1
  <2>3. /\ t \in Task /\ t.pc = "opened" /\ t.event = e /\ t.batch = rest.batch
        /\ t.sawAttempt = rest.sawAttempt /\ t.sawCase = rest.sawCase
    BY <1>4, <1>5, <2>1 DEF Task
  <2>4. RecordKnows(t)
    BY <1>5, <1>6, <1>7, <2>3 DEF RecordKnows, HoldsPresent, LoadedTruly, Present
  <2> QED
    BY <1>3, <2>2, <2>3, <2>4, WorkerReads
<1>8. CASE event[e].status # "processing"
  <2>1. PICK t : t = NextTask(rest)
    OBVIOUS
  <2>2. Become(w, t)
    BY <1>1, <1>2, <1>8, <2>1
  <2>3. t \in Task /\ RecordKnows(t)
    BY <1>5, <1>6, <2>1, NextTaskFields DEF RecordKnows, HoldsPresent, Busy, Unsettled
  <2> QED
    BY <1>3, <2>2, <2>3, WorkerReads
<1> QED
  BY <1>7, <1>8

LEMMA WorkReadAttempt == ASSUME TypeOK, WInv, NEW w \in Workers, ReadAttempt(w) PROVE WInv'
<1>1. PICK pc \in {"closing", "dispatching"} :
        /\ pc = "closing" => attempt \in {"succeeded", "unknown"}
        /\ Become(w, [work[w] EXCEPT !.sawAttempt = attempt, !.pc = pc])
  BY Zenon DEF ReadAttempt
<1>2. PICK t : t = [work[w] EXCEPT !.sawAttempt = attempt, !.pc = pc]
  OBVIOUS
<1>3. work[w].pc = "opened" /\ UNCHANGED <<case, attempt, event, desk>>
  BY DEF ReadAttempt
<1>4. work[w] \in Task /\ attempt \in RefundAttemptStatus
  BY DEF TypeOK
<1>5. /\ t \in Task /\ t.pc = pc /\ t.event = work[w].event /\ t.batch = work[w].batch
      /\ t.sawAttempt = attempt /\ t.sawCase = work[w].sawCase
  BY <1>2, <1>4 DEF Task
<1>6. HoldsPresent(w) /\ LoadedTruly(w) /\ OutcomeMovesCase
  BY DEF WInv, WorkersKnow
<1>7. RecordKnows(t)
  BY <1>1, <1>3, <1>5, <1>6
     DEF RecordKnows, HoldsPresent, LoadedTruly, OutcomeMovesCase, Busy, Pending, Refunded
<1> QED
  BY <1>1, <1>2, <1>3, <1>5, <1>7, WorkerReads

\* A worker that closes its event knows that the case is not pending any more, or
\* the event is not the one the pending case waits for.
LEMMA WorkCloseEvent == ASSUME TypeOK, WInv, NEW w \in Workers, CloseEvent(w) PROVE WInv'
<1>1. /\ work[w].pc = "closing" /\ UNCHANGED <<case, attempt, desk>>
      /\ WriteEvent(work[w].event, work[w].sawEvent, "done")
      /\ Become(w, NextTask(work[w]))
  BY DEF CloseEvent
<1>2. work[w] \in Task /\ work[w].event \in EventIds /\ work[w].sawEvent \in EventRow
      /\ work[w].batch \subseteq EventIds
  BY DEF TypeOK, Task
<1>3. HoldsPresent(w)
  BY DEF WInv, WorkersKnow
<1>4. Present(work[w].event)
  BY <1>1, <1>3 DEF HoldsPresent, Busy
<1>5. /\ \A f \in EventIds : Present(f) => Present(f)'
      /\ \A f \in EventIds : f # work[w].event => (Active(f) => Active(f)')
  BY <1>1, <1>2, <1>4, WriteEventKeeps
<1>6. \A e \in EventIds : Guarded(e) => Active(e)'
  BY <1>1, <1>5 DEF Guarded
<1>7. OutcomeMovesCase'
  BY <1>1 DEF WInv, OutcomeMovesCase, Pending, Refunded
<1>8. \A e \in work[w].batch : Present(e)'
  BY <1>2, <1>3, <1>5 DEF HoldsPresent
<1> QED
  BY <1>1, <1>2, <1>5, <1>6, <1>7, <1>8, WorkerFinishes DEF Refunded

LEMMA WorkDispatch == ASSUME TypeOK, WInv, NEW w \in Workers, Dispatch(w) PROVE WInv'
<1>1. PICK t : t = [work[w] EXCEPT !.pc = "posting", !.sawEvent = NoEvent,
                                   !.sawAttempt = "planned"]
  OBVIOUS
<1>2. /\ work[w].pc = "dispatching" /\ UNCHANGED <<case, event, desk>>
      /\ attempt' = Flush(attempt, work[w].sawAttempt, "dispatching")
      /\ Become(w, t)
  BY <1>1 DEF Dispatch
<1>3. work[w] \in Task
  BY DEF TypeOK
<1>4. /\ t \in Task /\ t.pc = "posting" /\ t.event = work[w].event /\ t.batch = work[w].batch
      /\ t.sawAttempt = "planned" /\ t.sawCase = work[w].sawCase
  BY <1>1, <1>3, DefaultTypes DEF Task, RefundAttemptStatus
<1>5. HoldsPresent(w) /\ LoadedTruly(w) /\ OutcomeMovesCase
  BY DEF WInv, WorkersKnow
<1>6. RecordKnows(t)'
  BY <1>2, <1>4, <1>5 DEF RecordKnows, HoldsPresent, LoadedTruly, Busy, Present, Refunded
<1>7. OutcomeMovesCase'
  BY <1>2, <1>5 DEF OutcomeMovesCase, Flush, Pending, Refunded
<1>8. \A e \in EventIds : (Present(e) => Present(e)') /\ (Guarded(e) => Active(e)')
  BY <1>2 DEF Present, Guarded, Active
<1> QED
  BY <1>2, <1>4, <1>6, <1>7, <1>8, WorkerMoves DEF Refunded

\* The network and the refresh after it change what the worker knows of the reply
\* and of its event.
LEMMA WorkAnswer ==
    ASSUME TypeOK, WInv, NEW w \in Workers,
           ProviderRefuses(w) \/ ProviderAnswers(w) \/ NoAnswer(w)
    PROVE  WInv'
<1>1. PICK reply \in Replies : Become(w, [work[w] EXCEPT !.pc = "answered", !.reply = reply])
  BY DEF ProviderRefuses, ProviderAnswers, NoAnswer, Answer, Evidence, Replies
<1>2. PICK t : t = [work[w] EXCEPT !.pc = "answered", !.reply = reply]
  OBVIOUS
<1>3. work[w].pc = "posting" /\ UNCHANGED <<case, attempt, event, desk>>
  BY DEF ProviderRefuses, ProviderAnswers, NoAnswer
<1>4. work[w] \in Task
  BY DEF TypeOK
<1>5. /\ t \in Task /\ t.pc = "answered" /\ t.event = work[w].event /\ t.batch = work[w].batch
      /\ t.sawAttempt = work[w].sawAttempt /\ t.sawCase = work[w].sawCase
  BY <1>2, <1>4 DEF Task
<1>6. HoldsPresent(w) /\ LoadedTruly(w)
  BY DEF WInv, WorkersKnow
<1>7. RecordKnows(t)
  BY <1>3, <1>5, <1>6 DEF RecordKnows, HoldsPresent, LoadedTruly, Busy
<1> QED
  BY <1>1, <1>2, <1>3, <1>5, <1>7, WorkerReads

LEMMA WorkRefreshEvent == ASSUME TypeOK, WInv, NEW w \in Workers, RefreshEvent(w) PROVE WInv'
<1>1. PICK t : t = [work[w] EXCEPT !.pc = "refreshing", !.sawEvent = event[work[w].event]]
  OBVIOUS
<1>2. /\ work[w].pc = "answered" /\ UNCHANGED <<case, attempt, event, desk>>
      /\ Become(w, t)
  BY <1>1 DEF RefreshEvent
<1>3. work[w] \in Task /\ event[work[w].event] \in EventRow
  BY DEF TypeOK, Task
<1>4. /\ t \in Task /\ t.pc = "refreshing" /\ t.event = work[w].event
      /\ t.batch = work[w].batch
      /\ t.sawAttempt = work[w].sawAttempt /\ t.sawCase = work[w].sawCase
  BY <1>1, <1>3 DEF Task
<1>5. HoldsPresent(w) /\ LoadedTruly(w)
  BY DEF WInv, WorkersKnow
<1>6. RecordKnows(t)
  BY <1>2, <1>4, <1>5 DEF RecordKnows, HoldsPresent, LoadedTruly, Busy
<1> QED
  BY <1>2, <1>4, <1>6, WorkerReads

LEMMA WorkRefreshAttempt ==
    ASSUME TypeOK, WInv, NEW w \in Workers, RefreshAttempt(w) PROVE WInv'
<1>1. PICK pc \in {"closing", "refreshed"} :
        /\ pc = "closing" => attempt = "succeeded"
        /\ Become(w, [work[w] EXCEPT !.sawAttempt = attempt, !.pc = pc])
  BY Zenon DEF RefreshAttempt
<1>2. PICK t : t = [work[w] EXCEPT !.sawAttempt = attempt, !.pc = pc]
  OBVIOUS
<1>3. work[w].pc = "refreshing" /\ UNCHANGED <<case, attempt, event, desk>>
  BY DEF RefreshAttempt
<1>4. work[w] \in Task /\ attempt \in RefundAttemptStatus
  BY DEF TypeOK
<1>5. /\ t \in Task /\ t.pc = pc /\ t.event = work[w].event /\ t.batch = work[w].batch
      /\ t.sawAttempt = attempt /\ t.sawCase = work[w].sawCase
  BY <1>2, <1>4 DEF Task
<1>6. HoldsPresent(w) /\ LoadedTruly(w) /\ OutcomeMovesCase
  BY DEF WInv, WorkersKnow
<1>7. RecordKnows(t)
  BY <1>1, <1>3, <1>5, <1>6
     DEF RecordKnows, HoldsPresent, LoadedTruly, OutcomeMovesCase, Busy, Pending, Refunded
<1> QED
  BY <1>1, <1>2, <1>3, <1>5, <1>7, WorkerReads

LEMMA WorkFlushAttempt ==
    ASSUME TypeOK, InPipeline, WInv, NEW w \in Workers, FlushAttempt(w) PROVE WInv'
<1>1. PICK t : t = [work[w] EXCEPT !.pc = "flushed", !.sawCase = case]
  OBVIOUS
<1>2. /\ work[w].pc = "refreshed" /\ UNCHANGED <<case, attempt, event, desk>>
      /\ Become(w, t)
  BY <1>1 DEF FlushAttempt
<1>3. work[w] \in Task /\ case \in CaseRow
  BY DEF TypeOK
<1>4. /\ t \in Task /\ t.pc = "flushed" /\ t.event = work[w].event /\ t.batch = work[w].batch
      /\ t.sawAttempt = work[w].sawAttempt /\ t.sawCase = case
  BY <1>1, <1>3 DEF Task
<1>5. HoldsPresent(w) /\ LoadedTruly(w)
  BY DEF WInv, WorkersKnow
<1>6. RecordKnows(t)
  BY <1>2, <1>4, <1>5
     DEF RecordKnows, HoldsPresent, LoadedTruly, Busy, InPipeline, Refunded
<1> QED
  BY <1>2, <1>4, <1>6, WorkerReads

-----------------------------------------------------------------------------
(***************************************************************************)
(* The commits of the workers.                                             *)
(***************************************************************************)
LEMMA CommitFinishes ==
    ASSUME TypeOK, WInv, NEW w \in Workers, NEW status \in {"pending", "done", "dead"},
           work[w].pc = "flushed", WriteEvent(work[w].event, work[w].sawEvent, status),
           Become(w, NextTask(work[w])), UNCHANGED desk,
           Refunded => Refunded', Pending' => UNCHANGED case, OutcomeMovesCase',
           \/ status = "pending"
           \/ Pending' => work[w].sawCase # case
    PROVE  WInv'
<1>1. work[w] \in Task /\ work[w].event \in EventIds /\ work[w].sawEvent \in EventRow
      /\ work[w].batch \subseteq EventIds
  BY DEF TypeOK, Task
<1>2. HoldsPresent(w)
  BY DEF WInv, WorkersKnow
<1>3. Present(work[w].event)
  BY <1>2 DEF HoldsPresent, Busy
<1>4. PICK mine \in EventIds :
        /\ mine = work[w].event
        /\ \A f \in EventIds : Present(f) => Present(f)'
        /\ \A f \in EventIds : f # mine => (Active(f) => Active(f)')
        /\ status = "pending" => (Active(mine) => Active(mine)')
  <2>1. PICK e \in EventIds, loaded \in EventRow :
          e = work[w].event /\ loaded = work[w].sawEvent
    BY <1>1
  <2> QED
    BY <1>3, <2>1, WriteEventKeeps
<1>5. \A e \in EventIds : Pending' /\ Guarded(e) => Active(e)'
  BY <1>4 DEF Guarded
<1>6. \A e \in work[w].batch : Present(e)'
  BY <1>1, <1>2, <1>4 DEF HoldsPresent
<1> QED
  BY <1>1, <1>4, <1>5, <1>6, WorkerFinishes

\* What every commit of a worker knows of the rows it loaded.
LEMMA CommitKnows ==
    ASSUME TypeOK, WInv, NEW w \in Workers, work[w].pc = "flushed"
    PROVE  /\ case \in CaseRow /\ work[w].sawCase \in CaseRow
           /\ work[w].sawAttempt = "succeeded" => Refunded
           /\ work[w].sawCase.status \in Unsettled \/ Refunded
           /\ WritesAttempt(work[w]) /\ Pending => work[w].sawCase = case
           /\ attempt = "succeeded" => Refunded
           /\ Pending => attempt # "unknown"
BY DEF TypeOK, Task, WInv, WorkersKnow, LoadedTruly, LockedKnows, OutcomeMovesCase

LEMMA WorkCommitRefused ==
    ASSUME TypeOK, WInv, NEW w \in Workers, CommitReschedule(w) \/ CommitExhausted(w)
    PROVE  WInv'
<1>1. /\ work[w].pc = "flushed" /\ UNCHANGED desk /\ Become(w, NextTask(work[w]))
      /\ attempt' = Flush(attempt, work[w].sawAttempt, "failed")
  BY DEF CommitReschedule, CommitExhausted, Commit, Outcome
<1>2. CASE CommitReschedule(w)
  <2>1. WriteEvent(work[w].event, work[w].sawEvent, "pending") /\ UNCHANGED case
    BY <1>2 DEF CommitReschedule, Commit
  <2>2. OutcomeMovesCase'
    BY <1>1, <2>1, CommitKnows DEF OutcomeMovesCase, Flush, Pending, Refunded
  <2> QED
    BY <1>1, <2>1, <2>2, CommitFinishes DEF Refunded
<1>3. CASE CommitExhausted(w)
  <2>1. WriteEvent(work[w].event, work[w].sawEvent, "dead") /\ MarkManual(work[w].sawCase)
    BY <1>3 DEF CommitExhausted, Commit
  <2>2. (Refunded => Refunded') /\ (Pending' => UNCHANGED case)
    BY <1>1, <2>1, CommitKnows, MarksKeep
  <2>3. Pending' => work[w].sawCase # case
    BY <1>1, <2>1, <2>2, CommitKnows DEF MarkManual, CasTransition, Doubtful, Pending
  <2>4. OutcomeMovesCase'
    BY <1>1, <2>2, CommitKnows DEF OutcomeMovesCase, Flush, Pending, Refunded
  <2> QED
    BY <1>1, <2>1, <2>2, <2>3, <2>4, CommitFinishes
<1> QED
  BY <1>2, <1>3

\* An outcome the worker does not know: the attempt is written under the lock, so
\* that a pending case is moved with it.
LEMMA WorkCommitDoubt ==
    ASSUME TypeOK, WInv, NEW w \in Workers, CommitUnknown(w) \/ CommitContradiction(w)
    PROVE  WInv'
<1>1. /\ work[w].pc = "flushed" /\ UNCHANGED desk /\ Become(w, NextTask(work[w]))
      /\ attempt' = Flush(attempt, work[w].sawAttempt, "unknown")
      /\ Outcome(work[w].reply) = "unknown"
  BY DEF CommitUnknown, CommitContradiction, Commit, Outcome
<1>2. PICK status \in {"done", "dead"} :
        WriteEvent(work[w].event, work[w].sawEvent, status)
  BY DEF CommitUnknown, CommitContradiction, Commit
<1>3. MarkUnknownCase(work[w].sawCase) \/ MarkUnknownThenManual(work[w].sawCase)
  BY DEF CommitUnknown, CommitContradiction
<1>4. (Refunded => Refunded') /\ (Pending' => UNCHANGED case)
  BY <1>1, <1>3, CommitKnows, MarksKeep
<1>5. Pending' => work[w].sawCase # case
  BY <1>1, <1>3, <1>4, CommitKnows
     DEF MarkUnknownCase, MarkUnknownThenManual, CasTransition, Pending
<1>6. OutcomeMovesCase'
  <2>1. attempt' = "succeeded" => Refunded'
    BY <1>1, <1>4, CommitKnows DEF Flush
  <2>2. Pending' => Pending /\ attempt' = attempt
    BY <1>1, <1>4, <1>5, CommitKnows DEF Flush, WritesAttempt, Pending
  <2> QED
    BY <1>1, <2>1, <2>2, CommitKnows DEF OutcomeMovesCase
<1> QED
  BY <1>1, <1>2, <1>4, <1>5, <1>6, CommitFinishes

LEMMA WorkCommitSuccess ==
    ASSUME TypeOK, WInv, NEW w \in Workers, CommitSuccess(w) PROVE WInv'
<1>1. /\ work[w].pc = "flushed" /\ UNCHANGED desk /\ Become(w, NextTask(work[w]))
      /\ WriteEvent(work[w].event, work[w].sawEvent, "done")
      /\ MarkSuccessCase(work[w].sawCase)
  BY DEF CommitSuccess, Commit
<1>2. Refunded'
  BY <1>1, CommitKnows DEF MarkSuccessCase, CasTransition, Refunded
<1>3. ~Pending' /\ OutcomeMovesCase'
  BY <1>2 DEF Refunded, Pending, OutcomeMovesCase
<1> QED
  BY <1>1, <1>2, <1>3, CommitFinishes

\* A worker that lost the compare-and-swap has lost it to a settlement: no retry
\* commits while it has the attempt locked.
LEMMA WorkCommitLostRace ==
    ASSUME TypeOK, WInv, NEW w \in Workers, CommitLostRace(w) PROVE WInv'
<1>1. /\ work[w].pc = "flushed" /\ UNCHANGED <<case, desk>> /\ Become(w, NextTask(work[w]))
      /\ WriteEvent(work[w].event, work[w].sawEvent, "dead")
      /\ attempt' = "unknown" /\ work[w].sawCase # case
      /\ Outcome(work[w].reply) = "succeeded"
  BY DEF CommitLostRace, Outcome
<1>2. ~Pending
  BY <1>1, CommitKnows DEF WritesAttempt, Pending, Refunded
<1>3. OutcomeMovesCase'
  BY <1>1, <1>2 DEF OutcomeMovesCase, Pending
<1> QED
  BY <1>1, <1>3, CommitFinishes DEF Refunded

\* A worker that gives up its event leaves it as it is.
LEMMA WorkAbandon ==
    ASSUME TypeOK, WInv, NEW w \in Workers, RollBack(w) \/ WorkerFails(w) PROVE WInv'
<1>1. /\ Become(w, NoTask) \/ Become(w, NextTask(work[w]))
      /\ UNCHANGED <<case, attempt, event, desk>>
  BY DEF RollBack, WorkerFails
<1>2. work[w] \in Task
  BY DEF TypeOK
<1>3. HoldsPresent(w)
  BY DEF WInv, WorkersKnow
<1>4. CASE Become(w, NoTask)
  <2>1. NoTask \in Task /\ RecordKnows(NoTask)
    BY DefaultTypes DEF RecordKnows, NoTask, PlannedCase, Unsettled, Busy
  <2>2. PICK t \in Task : t = NoTask /\ RecordKnows(t)
    BY <2>1
  <2> QED
    BY <1>1, <1>4, <2>2, WorkerReads
<1>5. CASE Become(w, NextTask(work[w]))
  <2>1. PICK t : t = NextTask(work[w])
    OBVIOUS
  <2>2. t \in Task /\ RecordKnows(t)
    BY <1>2, <1>3, <2>1, NextTaskFields DEF RecordKnows, HoldsPresent, Busy, Unsettled
  <2> QED
    BY <1>1, <1>5, <2>1, <2>2, WorkerReads
<1> QED
  BY <1>1, <1>4, <1>5

-----------------------------------------------------------------------------
(***************************************************************************)
(* The environment, webhooks and finance users.                            *)
(***************************************************************************)
LEMMA OthersMove ==
    ASSUME TypeOK, WInv, UNCHANGED work,
           Refunded => Refunded', Pending' => UNCHANGED case,
           OutcomeMovesCase', DesksKnow',
           \A e \in EventIds : (Present(e) => Present(e)') /\ (Active(e) => Active(e)')
    PROVE  WInv'
<1>1. ASSUME NEW v \in Workers
      PROVE  HoldsPresent(v)' /\ LoadedTruly(v)' /\ LockedKnows(v)'
  <2>1. HoldsPresent(v) /\ LoadedTruly(v) /\ LockedKnows(v) /\ work[v] \in Task
    BY DEF WInv, WorkersKnow, TypeOK
  <2>2. HoldsPresent(v)'
    BY <2>1 DEF HoldsPresent, Task
  <2>3. LoadedTruly(v)'
    BY <2>1 DEF LoadedTruly
  <2>4. LockedKnows(v)'
    BY <2>1 DEF LockedKnows, Pending
  <2> QED
    BY <2>2, <2>3, <2>4
<1>2. WorkIsGuarded'
  <2> SUFFICES ASSUME Pending' PROVE \E e \in EventIds : Guarded(e)'
    BY DEF WorkIsGuarded
  <2>1. UNCHANGED case /\ Pending
    BY DEF Pending
  <2>2. PICK e \in EventIds : Guarded(e)
    BY <2>1 DEF WInv, WorkIsGuarded
  <2> QED
    BY <2>1, <2>2 DEF Guarded
<1> QED
  BY <1>1, <1>2 DEF WInv, WorkersKnow

LEMMA WorkEnvironment ==
    ASSUME TypeOK, WInv,
           (\E e \in EventIds : ExpireLease(e)) \/ LateRequest \/ ProviderSettles
    PROVE  WInv'
<1>1. UNCHANGED <<case, attempt, work, desk>>
  BY DEF ExpireLease, LateRequest, ProviderSettles
<1>2. \A e \in EventIds : (Present(e) => Present(e)') /\ (Active(e) => Active(e)')
  <2>1. CASE UNCHANGED event
    BY <2>1 DEF Present, Active
  <2>2. ASSUME NEW f \in EventIds, ExpireLease(f)
        PROVE  \A e \in EventIds : event'[e].status = event[e].status
    BY <2>2 DEF ExpireLease, TypeOK, EventRow
  <2>3. CASE LateRequest \/ ProviderSettles
    BY <2>1, <2>3 DEF LateRequest, ProviderSettles
  <2> QED
    BY <2>2, <2>3 DEF Present, Active
<1>3. OutcomeMovesCase' /\ DesksKnow'
  BY <1>1 DEF WInv, OutcomeMovesCase, DesksKnow, Pending, Refunded
<1> QED
  BY <1>1, <1>2, <1>3, OthersMove DEF Refunded

LEMMA WorkHooks ==
    ASSUME TypeOK, InPipeline, WInv, NEW h \in HookIds, HookStep(h) PROVE WInv'
<1>1. UNCHANGED <<event, work, desk>>
  BY DEF HookStep, HookReplayed, HookRead, HookCommit, HookLost
<1>2. \/ UNCHANGED <<case, attempt>>
      \/ MarkSuccessCase(case)
  BY DEF HookStep, HookReplayed, HookRead, HookCommit, HookLost
<1>3. CASE UNCHANGED <<case, attempt>>
  <2>1. OutcomeMovesCase' /\ DesksKnow'
    BY <1>1, <1>3 DEF WInv, OutcomeMovesCase, DesksKnow, Pending, Refunded
  <2> QED
    BY <1>1, <1>3, <2>1, OthersMove DEF Refunded, Present, Active
<1>4. CASE MarkSuccessCase(case)
  <2>1. Refunded' /\ ~Pending'
    BY <1>4 DEF MarkSuccessCase, CasTransition, InPipeline, Refunded, Pending
  <2>2. OutcomeMovesCase' /\ DesksKnow'
    BY <1>1, <2>1 DEF WInv, OutcomeMovesCase, DesksKnow
  <2> QED
    BY <1>1, <2>1, <2>2, OthersMove DEF Present, Active
<1> QED
  BY <1>2, <1>3, <1>4

\* What a user's request has loaded, after any step of the user.
LEMMA DesksKnowStep ==
    ASSUME TypeOK, WInv, NEW u \in Users, DeskStep(u)
    PROVE  DesksKnow'
<1>1. ASSUME NEW t, Turn(u, t), t.sawCase.status \in Unsettled,
             t.op = "retrying" => t.sawAttempt = "failed"
      PROVE  DesksKnow'
  BY <1>1 DEF Turn, TypeOK, WInv, DesksKnow
<1>2. /\ desk[u] \in Errand /\ desk[u].sawCase.status \in Unsettled
      /\ case \in CaseRow
  BY DEF TypeOK, WInv, DesksKnow
<1>3. CASE BeginReconcile(u) \/ BeginRetry(u)
  <2>1. CASE BeginReconcile(u)
    <3>1. PICK t : t = [NoErrand EXCEPT !.op = "opening", !.sawCase = case]
      OBVIOUS
    <3> QED
      BY <1>1, <2>1, <3>1 DEF BeginReconcile, NoErrand, Unsettled
  <2>2. CASE BeginRetry(u)
    <3>1. PICK t : t = [NoErrand EXCEPT !.op = "retrying", !.sawCase = case,
                                        !.sawAttempt = attempt]
      OBVIOUS
    <3> QED
      BY <1>1, <2>2, <3>1 DEF BeginRetry, NoErrand, Unsettled
  <2> QED
    BY <1>3, <2>1, <2>2
<1>4. CASE ReadForReconcile(u)
  <2>1. Turn(u, [desk[u] EXCEPT !.op = "looking", !.sawAttempt = attempt])
    BY <1>4 DEF ReadForReconcile
  <2> QED
    BY <1>1, <1>2, <2>1 DEF Errand
<1>5. CASE LookUp(u)
  <2>1. PICK found : Turn(u, [desk[u] EXCEPT !.op = "deciding", !.found = found])
    BY <1>5 DEF LookUp
  <2> QED
    BY <1>1, <1>2, <2>1 DEF Errand
<1>6. CASE \/ SettleFound(u) \/ SettleNonTerminal(u) \/ SettleAbsent(u)
           \/ CommitRetry(u) \/ EndsInError(u)
  <2>1. Turn(u, NoErrand)
    BY <1>6 DEF SettleFound, SettleNonTerminal, SettleAbsent, Decide, CommitRetry, EndsInError
  <2> QED
    BY <1>1, <2>1 DEF NoErrand, PlannedCase, Unsettled
<1> QED
  BY <1>3, <1>4, <1>5, <1>6 DEF DeskStep

LEMMA WorkSettles ==
    ASSUME TypeOK, WInv, NEW u \in Users,
           SettleFound(u) \/ SettleNonTerminal(u) \/ SettleAbsent(u)
    PROVE  WInv'
<1>1. UNCHANGED <<event, work>> /\ DesksKnow'
  BY DesksKnowStep DEF DeskStep, SettleFound, SettleNonTerminal, SettleAbsent, Decide
<1>2. /\ case \in CaseRow /\ desk[u].sawCase \in CaseRow
      /\ desk[u].sawCase.status \in Unsettled
      /\ OutcomeMovesCase
  BY DEF TypeOK, Errand, WInv, DesksKnow
<1>3. MarkManual(desk[u].sawCase) \/ MarkSuccessCase(desk[u].sawCase)
  BY DEF SettleFound, SettleNonTerminal, SettleAbsent
<1>4. (Refunded => Refunded') /\ (Pending' => UNCHANGED case)
  BY <1>2, <1>3, MarksKeep
<1>5. OutcomeMovesCase'
  <2>1. CASE SettleFound(u)
    <3>1. Refunded'
      BY <1>2, <2>1 DEF SettleFound, MarkSuccessCase, CasTransition, Refunded
    <3> QED
      BY <3>1 DEF OutcomeMovesCase, Refunded, Pending
  <2>2. CASE SettleNonTerminal(u) \/ SettleAbsent(u)
    <3>1. attempt' = attempt \/ attempt' = "failed"
      BY <2>2 DEF SettleNonTerminal, SettleAbsent
    <3> QED
      BY <1>2, <1>4, <3>1 DEF OutcomeMovesCase, Pending
  <2> QED
    BY <2>1, <2>2
<1> QED
  BY <1>1, <1>4, <1>5, OthersMove DEF Present, Active

\* A retry commits while no worker has the attempt locked, and with an event that
\* no worker has heard of.
LEMMA WorkRetry == ASSUME TypeOK, WInv, NEW u \in Users, CommitRetry(u) PROVE WInv'
<1>1. PICK e \in EventIds : event[e].status = "absent" /\ event' = [event EXCEPT ![e] = NewEvent]
  BY DEF CommitRetry
<1>2. /\ desk[u].op = "retrying" /\ UNCHANGED work /\ ~AttemptLocked
      /\ attempt' = Flush(attempt, desk[u].sawAttempt, "planned")
      /\ CasTransition(desk[u].sawCase, "refund_pending")
  BY DEF CommitRetry
<1>3. DesksKnow'
  BY DesksKnowStep DEF DeskStep
<1>4. attempt' = "planned"
  BY <1>2 DEF Flush, WInv, DesksKnow
<1>5. /\ desk[u].sawCase \in CaseRow /\ desk[u].sawCase = case /\ Pending'
      /\ case.status \in Unsettled
  BY <1>2 DEF TypeOK, Errand, CasTransition, Pending, WInv, DesksKnow
<1>6. OutcomeMovesCase'
  BY <1>4 DEF OutcomeMovesCase
<1>7. event \in [EventIds -> EventRow]
  BY DEF TypeOK
<1>8. /\ \A f \in EventIds : f # e => event'[f] = event[f]
      /\ event'[e].status = "pending"
  BY <1>1, <1>7 DEF NewEvent, NoEvent
<1>9. ASSUME NEW v \in Workers
      PROVE  HoldsPresent(v)' /\ LoadedTruly(v)' /\ LockedKnows(v)'
  <2>1. HoldsPresent(v) /\ LoadedTruly(v) /\ work[v] \in Task
    BY DEF WInv, WorkersKnow, TypeOK
  <2>2. HoldsPresent(v)'
    BY <1>2, <1>8, <2>1 DEF HoldsPresent, Task, Present
  <2>3. ~Refunded
    BY <1>5 DEF Refunded, Unsettled
  <2>4. LoadedTruly(v)'
    BY <1>2, <2>1, <2>3 DEF LoadedTruly
  <2>5. LockedKnows(v)'
    BY <1>2 DEF AttemptLocked, LockedKnows
  <2> QED
    BY <2>2, <2>4, <2>5
<1>10. Guarded(e)'
  <2>1. ASSUME NEW v \in Workers, work[v].event = e PROVE ~Busy(work[v])
    BY <1>1, <2>1 DEF WInv, WorkersKnow, HoldsPresent, Present
  <2> QED
    BY <1>2, <1>8, <2>1 DEF Guarded, Active, Busy
<1> QED
  BY <1>3, <1>6, <1>9, <1>10 DEF WInv, WorkersKnow, WorkIsGuarded

LEMMA WorkDesk ==
    ASSUME TypeOK, WInv, NEW u \in Users, DeskStep(u) PROVE WInv'
<1>1. CASE \/ BeginReconcile(u) \/ ReadForReconcile(u) \/ LookUp(u)
           \/ BeginRetry(u) \/ EndsInError(u)
  <2>1. UNCHANGED <<case, attempt, event, work>>
    BY <1>1 DEF BeginReconcile, ReadForReconcile, LookUp, BeginRetry, EndsInError
  <2>2. OutcomeMovesCase' /\ DesksKnow'
    BY <2>1, DesksKnowStep DEF WInv, OutcomeMovesCase, Pending, Refunded
  <2> QED
    BY <2>1, <2>2, OthersMove DEF Refunded, Present, Active
<1> QED
  BY <1>1, WorkSettles, WorkRetry DEF DeskStep

-----------------------------------------------------------------------------
LEMMA WorkInit == Init => WInv
<1> SUFFICES ASSUME Init PROVE WInv
  OBVIOUS
<1>1. 1 \in EventIds
  BY BoundsAssumption DEF EventIds
<1>2. WorkersKnow /\ DesksKnow
  BY DEF Init, NoTask, NoErrand, PlannedCase, WorkersKnow, HoldsPresent, LoadedTruly,
         LockedKnows, Busy, DesksKnow, Unsettled
<1>3. OutcomeMovesCase
  BY DEF Init, OutcomeMovesCase
<1>4. Guarded(1)
  BY <1>1 DEF Init, Guarded, Active, NewEvent, NoEvent, NoTask
<1> QED
  BY <1>1, <1>2, <1>3, <1>4 DEF WInv, WorkIsGuarded

LEMMA WorkNext == IInv /\ WInv /\ [Next]_vars => WInv'
<1> SUFFICES ASSUME IInv, WInv, [Next]_vars PROVE WInv'
  OBVIOUS
<1>0. TypeOK /\ InPipeline
  BY DEF IInv
<1>1. ASSUME NEW w \in Workers, WorkerStep(w) \/ WorkerFails(w) PROVE WInv'
  BY <1>0, <1>1, WorkClaim, WorkOpen, WorkReadAttempt, WorkCloseEvent, WorkDispatch,
     WorkAnswer, WorkRefreshEvent, WorkRefreshAttempt, WorkFlushAttempt, WorkCommitRefused,
     WorkCommitDoubt, WorkCommitSuccess, WorkCommitLostRace, WorkAbandon DEF WorkerStep
<1>2. CASE (\E e \in EventIds : ExpireLease(e)) \/ LateRequest \/ ProviderSettles
  BY <1>0, <1>2, WorkEnvironment
<1>3. ASSUME NEW h \in HookIds, HookStep(h) PROVE WInv'
  BY <1>0, <1>3, WorkHooks
<1>4. ASSUME NEW u \in Users, DeskStep(u) PROVE WInv'
  BY <1>0, <1>4, WorkDesk
<1>5. CASE Settled \/ UNCHANGED vars
  <2>1. UNCHANGED <<case, attempt, event, work, desk>>
    BY <1>5 DEF Settled, vars
  <2>2. OutcomeMovesCase' /\ DesksKnow'
    BY <2>1 DEF WInv, OutcomeMovesCase, DesksKnow, Pending, Refunded
  <2> QED
    BY <1>0, <2>1, <2>2, OthersMove DEF Refunded, Present, Active
<1> QED
  BY <1>1, <1>2, <1>3, <1>4, <1>5 DEF Next

\* The outbox, its workers and the case agree on who has to act next, whatever
\* leases are lost and whatever stale rows are written.
THEOREM WorkHolds == Spec => []WInv
BY WorkInit, WorkNext, EvidenceHolds, PTL DEF Spec

\* A pending case always has an event that is or can be claimed: no interleaving of
\* workers, webhooks and finance users forgets a refund.
THEOREM PendingIsWorked == Spec => []PendingHasWork
<1>1. WInv => PendingHasWork
  BY DEF WInv, WorkIsGuarded, Guarded, PendingHasWork, Pending
<1> QED
  BY <1>1, WorkHolds, PTL
=============================================================================
