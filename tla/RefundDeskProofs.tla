-------------------------- MODULE RefundDeskProofs --------------------------
(***************************************************************************)
(* What a single worker process adds to RefundPipeline: with no second     *)
(* worker to take over its events, every doubtful refund has a next action *)
(* on the finance desk, an unknown outcome is left by evidence alone, and  *)
(* case and attempt tell the same story, for every number of finance users *)
(* who work at the same time.                                              *)
(***************************************************************************)
EXTENDS RefundWorkProofs

OneWorker == \A v, w \in Workers : v = w

-----------------------------------------------------------------------------
(***************************************************************************)
(* The inductive invariant.                                                *)
(***************************************************************************)
InDoubt == case.status \in {"refund_unknown", "needs_reconciliation"}

\* At work on the refund, and with the event's row as loaded.
Engaged(t) == t.pc \in {"dispatching", "posting", "answered", "refreshing", "refreshed",
                        "flushed"}
Loaded(t) == t.pc \in {"opened", "closing", "dispatching", "refreshing", "refreshed",
                       "flushed"}

\* Nobody else writes the event of the only worker or makes its attempt unknown.
WorkerOwns(w) ==
    /\ Busy(work[w]) => event[work[w].event].status = "processing"
    /\ Loaded(work[w]) => work[w].sawEvent.status = "processing"
    /\ Engaged(work[w]) => attempt # "unknown"
    /\ work[w].pc \in {"refreshed", "flushed"} =>
          /\ work[w].sawAttempt # "unknown"
          /\ work[w].sawAttempt = "failed" => attempt = "failed" \/ Refunded

OneActive == \A e, f \in EventIds : Active(e) /\ Active(f) => e = f

\* A case in doubt is in nobody's hands but finance's, and its attempt is either
\* unknown or failed.
DoubtIsQuiet == InDoubt => \A e \in EventIds : ~Active(e)
DoubtIsKnown == InDoubt => attempt \in {"unknown", "failed"}

\* What a user's request remembers of a case that may have moved on.
UserRemembers(u) ==
    desk[u].op # "idle" =>
        /\ desk[u].sawCase.status \in {"refund_unknown", "needs_reconciliation"}
        /\ desk[u].sawCase.version <= case.version
        /\ desk[u].sawCase.version = case.version => desk[u].sawCase = case
        /\ desk[u].op = "retrying" /\ desk[u].sawCase = case => attempt = "failed"

SInv == /\ \A w \in Workers : WorkerOwns(w)
        /\ OneActive /\ DoubtIsQuiet /\ DoubtIsKnown
        /\ \A u \in Users : UserRemembers(u)

-----------------------------------------------------------------------------
(***************************************************************************)
(* What follows at once.                                                   *)
(***************************************************************************)
LEMMA BusyIsNotDoubt ==
    ASSUME TypeOK, SInv, NEW w \in Workers, Busy(work[w])
    PROVE  ~InDoubt /\ Active(work[w].event) /\ work[w].event \in EventIds
BY DEF TypeOK, Task, SInv, WorkerOwns, DoubtIsQuiet, Active

\* A memory of a case outlives any step of others: a case that moves on gets a
\* newer version, and one that stays in doubt keeps its failed attempt.
LEMMA MemoryLasts ==
    ASSUME TypeOK, NEW u \in Users, UserRemembers(u), desk'[u] = desk[u],
           UNCHANGED case \/ (case' \in CaseRow /\ case'.version > case.version),
           InDoubt /\ UNCHANGED case => UNCHANGED attempt \/ attempt' = "failed"
    PROVE  UserRemembers(u)'
<1> SUFFICES ASSUME desk[u].op # "idle" PROVE UserRemembers(u)'
  BY DEF UserRemembers
<1>1. desk[u].sawCase \in CaseRow /\ case \in CaseRow
  BY DEF TypeOK, Errand
<1>2. CASE UNCHANGED case
  BY <1>2 DEF UserRemembers, InDoubt
<1>3. CASE case' \in CaseRow /\ case'.version > case.version
  BY <1>1, <1>3 DEF UserRemembers, CaseRow
<1> QED
  BY <1>2, <1>3

\* The ownership of a worker that goes on with record t.
OwnsRecord(t) ==
    /\ Busy(t) => event[t.event].status = "processing"
    /\ Loaded(t) => t.sawEvent.status = "processing"
    /\ Engaged(t) => attempt # "unknown"
    /\ t.pc \in {"refreshed", "flushed"} =>
          /\ t.sawAttempt # "unknown"
          /\ t.sawAttempt = "failed" => attempt = "failed" \/ Refunded

LEMMA AloneMoves ==
    ASSUME OneWorker, TypeOK, SInv, NEW w \in Workers, NEW t \in Task, Become(w, t),
           OwnsRecord(t)', UNCHANGED desk,
           OneActive', DoubtIsQuiet', DoubtIsKnown',
           UNCHANGED case \/ (case' \in CaseRow /\ case'.version > case.version),
           InDoubt => UNCHANGED attempt
    PROVE  SInv'
<1>1. ASSUME NEW v \in Workers PROVE WorkerOwns(v)'
  <2>1. v = w /\ work'[v] = t
    BY DEF OneWorker, TypeOK, Become
  <2> QED
    BY <2>1 DEF OwnsRecord, WorkerOwns
<1>2. ASSUME NEW u \in Users PROVE UserRemembers(u)'
  BY MemoryLasts DEF SInv
<1> QED
  BY <1>1, <1>2 DEF SInv

LEMMA AloneReads ==
    ASSUME OneWorker, TypeOK, SInv, NEW w \in Workers, NEW t \in Task, Become(w, t),
           OwnsRecord(t), UNCHANGED <<case, attempt, event, desk>>
    PROVE  SInv'
<1>1. OwnsRecord(t)'
  BY DEF OwnsRecord, Refunded
<1>2. OneActive' /\ DoubtIsQuiet' /\ DoubtIsKnown'
  BY DEF SInv, OneActive, DoubtIsQuiet, DoubtIsKnown, InDoubt, Active
<1> QED
  BY <1>1, <1>2, AloneMoves

\* A worker without an event owns nothing.
LEMMA FreeOwns ==
    ASSUME NEW t \in Task, NEW n, n = NextTask(t) \/ n = NoTask
    PROVE  n \in Task /\ OwnsRecord(n) /\ OwnsRecord(n)'
<1>1. n \in Task /\ n.pc \in {"idle", "claimed"}
  <2>1. NoTask \in Task /\ NoTask.pc = "idle"
    BY DefaultTypes DEF NoTask
  <2>2. n = NextTask(t) => n \in Task /\ n.pc \in {"idle", "claimed"}
    BY NextTaskFields
  <2> QED
    BY <2>1, <2>2
<1> QED
  BY <1>1 DEF OwnsRecord, Busy, Loaded, Engaged

-----------------------------------------------------------------------------
(***************************************************************************)
(* The worker.                                                             *)
(***************************************************************************)
LEMMA AloneClaim ==
    ASSUME OneWorker, TypeOK, SInv, NEW w \in Workers, Claim(w) PROVE SInv'
<1>1. PICK batch \in SUBSET {e \in EventIds : Claimable(e)} :
        /\ event' = [e \in EventIds |->
                       IF e \in batch
                       THEN [status |-> "processing", lease |-> "live",
                             attempts |-> event[e].attempts + 1]
                       ELSE event[e]]
        /\ Become(w, [NoTask EXCEPT !.pc = "claimed", !.batch = batch])
  BY Zenon DEF Claim
<1>2. PICK t : t = [NoTask EXCEPT !.pc = "claimed", !.batch = batch]
  OBVIOUS
<1>3. UNCHANGED <<case, attempt, desk>>
  BY DEF Claim
<1>4. \A e \in EventIds : Active(e)' => Active(e)
  BY <1>1 DEF Active, Claimable
<1>5. t \in Task /\ t.pc = "claimed"
  BY <1>2, DefaultTypes DEF Task, NoTask
<1>6. OwnsRecord(t)'
  BY <1>5 DEF OwnsRecord, Busy, Loaded, Engaged
<1>7. OneActive' /\ DoubtIsQuiet' /\ DoubtIsKnown'
  BY <1>3, <1>4 DEF SInv, OneActive, DoubtIsQuiet, DoubtIsKnown, InDoubt
<1> QED
  BY <1>1, <1>2, <1>3, <1>5, <1>6, <1>7, AloneMoves

LEMMA AloneOpen ==
    ASSUME OneWorker, TypeOK, SInv, NEW w \in Workers, Open(w) PROVE SInv'
<1>1. PICK e \in work[w].batch :
        LET rest == [work[w] EXCEPT !.batch = @ \ {e}]
        IN  IF event[e].status = "processing"
            THEN Become(w, [rest EXCEPT !.pc = "opened", !.event = e, !.sawEvent = event[e]])
            ELSE Become(w, NextTask(rest))
  BY Zenon DEF Open
<1>2. PICK rest : rest = [work[w] EXCEPT !.batch = @ \ {e}]
  OBVIOUS
<1>3. UNCHANGED <<case, attempt, event, desk>>
  BY DEF Open
<1>4. work[w] \in Task /\ e \in EventIds /\ event[e] \in EventRow
  BY DEF TypeOK, Task
<1>5. rest \in Task
  BY <1>2, <1>4 DEF Task
<1>6. CASE event[e].status = "processing"
  <2>1. PICK t : t = [rest EXCEPT !.pc = "opened", !.event = e, !.sawEvent = event[e]]
    OBVIOUS
  <2>2. t \in Task /\ t.pc = "opened" /\ t.event = e /\ t.sawEvent = event[e]
    BY <1>4, <1>5, <2>1 DEF Task
  <2>3. Become(w, t) /\ OwnsRecord(t)
    BY <1>1, <1>2, <1>6, <2>1, <2>2 DEF OwnsRecord, Busy, Loaded, Engaged
  <2> QED
    BY <1>3, <2>2, <2>3, AloneReads
<1>7. CASE event[e].status # "processing"
  <2>1. PICK t : t = NextTask(rest)
    OBVIOUS
  <2>2. Become(w, t)
    BY <1>1, <1>2, <1>7, <2>1
  <2> QED
    BY <1>3, <1>5, <2>1, <2>2, FreeOwns, AloneReads
<1> QED
  BY <1>6, <1>7

LEMMA AloneReadAttempt ==
    ASSUME OneWorker, TypeOK, SInv, NEW w \in Workers,
           ReadAttempt(w) \/ RefreshAttempt(w)
    PROVE  SInv'
<1>1. PICK pc \in {"closing", "dispatching", "refreshed"} :
        /\ pc = "dispatching" => work[w].pc = "opened" /\ attempt # "unknown"
        /\ pc = "refreshed" => work[w].pc = "refreshing"
        /\ Become(w, [work[w] EXCEPT !.sawAttempt = attempt, !.pc = pc])
  BY Zenon DEF ReadAttempt, RefreshAttempt
<1>2. PICK t : t = [work[w] EXCEPT !.sawAttempt = attempt, !.pc = pc]
  OBVIOUS
<1>3. work[w].pc \in {"opened", "refreshing"} /\ UNCHANGED <<case, attempt, event, desk>>
  BY DEF ReadAttempt, RefreshAttempt
<1>4. work[w] \in Task /\ attempt \in RefundAttemptStatus
  BY DEF TypeOK
<1>5. /\ t \in Task /\ t.pc = pc /\ t.event = work[w].event
      /\ t.sawAttempt = attempt /\ t.sawEvent = work[w].sawEvent
  BY <1>2, <1>4 DEF Task
<1>6. WorkerOwns(w)
  BY DEF SInv
<1>7. OwnsRecord(t)
  BY <1>1, <1>3, <1>5, <1>6 DEF OwnsRecord, WorkerOwns, Busy, Loaded, Engaged
<1> QED
  BY <1>1, <1>2, <1>3, <1>5, <1>7, AloneReads

LEMMA AloneGoes ==
    ASSUME OneWorker, TypeOK, SInv, NEW w \in Workers,
           \/ ProviderRefuses(w) \/ ProviderAnswers(w) \/ NoAnswer(w)
           \/ RefreshEvent(w) \/ FlushAttempt(w)
    PROVE  SInv'
<1>0. work[w] \in Task /\ case \in CaseRow /\ WorkerOwns(w)
  BY DEF TypeOK, SInv
<1>1. UNCHANGED <<case, attempt, event, desk>>
  BY DEF ProviderRefuses, ProviderAnswers, NoAnswer, RefreshEvent, FlushAttempt
<1>2. CASE ProviderRefuses(w) \/ ProviderAnswers(w) \/ NoAnswer(w)
  <2>1. PICK reply \in Replies :
          Become(w, [work[w] EXCEPT !.pc = "answered", !.reply = reply])
    BY <1>2 DEF ProviderRefuses, ProviderAnswers, NoAnswer, Answer, Evidence, Replies
  <2>2. PICK t : t = [work[w] EXCEPT !.pc = "answered", !.reply = reply]
    OBVIOUS
  <2>3. t \in Task /\ t.pc = "answered" /\ t.event = work[w].event
    BY <1>0, <2>2 DEF Task
  <2>4. work[w].pc = "posting"
    BY <1>2 DEF ProviderRefuses, ProviderAnswers, NoAnswer
  <2>5. OwnsRecord(t)
    BY <1>0, <2>3, <2>4 DEF OwnsRecord, WorkerOwns, Busy, Loaded, Engaged
  <2> QED
    BY <1>1, <2>1, <2>2, <2>3, <2>5, AloneReads
<1>3. CASE RefreshEvent(w)
  <2>1. PICK t : t = [work[w] EXCEPT !.pc = "refreshing", !.sawEvent = event[work[w].event]]
    OBVIOUS
  <2>2. /\ t \in Task /\ t.pc = "refreshing" /\ t.event = work[w].event
        /\ t.sawEvent = event[work[w].event]
    BY <1>0, <2>1 DEF Task, TypeOK
  <2>3. work[w].pc = "answered" /\ Become(w, t)
    BY <1>3, <2>1 DEF RefreshEvent
  <2>4. OwnsRecord(t)
    BY <1>0, <2>2, <2>3 DEF OwnsRecord, WorkerOwns, Busy, Loaded, Engaged
  <2> QED
    BY <1>1, <2>2, <2>3, <2>4, AloneReads
<1>4. CASE FlushAttempt(w)
  <2>1. PICK t : t = [work[w] EXCEPT !.pc = "flushed", !.sawCase = case]
    OBVIOUS
  <2>2. /\ t \in Task /\ t.pc = "flushed" /\ t.event = work[w].event
        /\ t.sawEvent = work[w].sawEvent /\ t.sawAttempt = work[w].sawAttempt
    BY <1>0, <2>1 DEF Task
  <2>3. work[w].pc = "refreshed" /\ Become(w, t)
    BY <1>4, <2>1 DEF FlushAttempt
  <2>4. OwnsRecord(t)
    BY <1>0, <2>2, <2>3 DEF OwnsRecord, WorkerOwns, Busy, Loaded, Engaged
  <2> QED
    BY <1>1, <2>2, <2>3, <2>4, AloneReads
<1> QED
  BY <1>2, <1>3, <1>4

LEMMA AloneDispatch ==
    ASSUME OneWorker, TypeOK, SInv, NEW w \in Workers, Dispatch(w) PROVE SInv'
<1>1. PICK t : t = [work[w] EXCEPT !.pc = "posting", !.sawEvent = NoEvent,
                                   !.sawAttempt = "planned"]
  OBVIOUS
<1>2. /\ work[w].pc = "dispatching" /\ UNCHANGED <<case, event, desk>>
      /\ attempt' = Flush(attempt, work[w].sawAttempt, "dispatching")
      /\ Become(w, t)
  BY <1>1 DEF Dispatch
<1>3. work[w] \in Task /\ WorkerOwns(w)
  BY DEF TypeOK, SInv
<1>4. t \in Task /\ t.pc = "posting" /\ t.event = work[w].event
  BY <1>1, <1>3, DefaultTypes DEF Task, RefundAttemptStatus
<1>5. attempt' # "unknown"
  BY <1>2, <1>3 DEF WorkerOwns, Engaged, Flush
<1>6. OwnsRecord(t)'
  BY <1>2, <1>3, <1>4, <1>5 DEF OwnsRecord, WorkerOwns, Busy, Loaded, Engaged
<1>7. ~InDoubt
  BY <1>2, BusyIsNotDoubt DEF Busy
<1>8. OneActive' /\ DoubtIsQuiet' /\ DoubtIsKnown'
  BY <1>2, <1>7 DEF SInv, OneActive, DoubtIsQuiet, DoubtIsKnown, InDoubt, Active
<1> QED
  BY <1>2, <1>4, <1>6, <1>7, <1>8, AloneMoves

\* The end of an event: the only worker writes the status it means to, so that no
\* event waits for a case that it leaves in doubt.
CaseNewer == UNCHANGED case \/ (case' \in CaseRow /\ case'.version > case.version)

LEMMA AloneEnds ==
    ASSUME OneWorker, TypeOK, SInv, NEW w \in Workers, NEW status \in {"pending", "done", "dead"},
           Busy(work[w]), Loaded(work[w]),
           WriteEvent(work[w].event, work[w].sawEvent, status),
           Become(w, NextTask(work[w])), UNCHANGED desk, CaseNewer,
           InDoubt' => status # "pending" /\ attempt' \in {"unknown", "failed"}
    PROVE  SInv'
<1>1. /\ work[w] \in Task /\ work[w].event \in EventIds /\ WorkerOwns(w)
      /\ event \in [EventIds -> EventRow]
  BY DEF TypeOK, Task, SInv
<1>2. PICK mine \in EventIds : mine = work[w].event
  BY <1>1
<1>3. event[mine].status = "processing" /\ work[w].sawEvent.status = "processing"
  BY <1>1, <1>2 DEF WorkerOwns
<1>4. /\ event'[mine].status = status
      /\ \A f \in EventIds : f # mine => event'[f] = event[f]
  <2>1. event' = [event EXCEPT ![mine] = Released(event[mine], work[w].sawEvent, status)]
    BY <1>2 DEF WriteEvent
  <2>2. Released(event[mine], work[w].sawEvent, status).status = status
    BY <1>1, <1>3 DEF Released, Flush, EventRow
  <2> QED
    BY <1>1, <2>1, <2>2
<1>5. OneActive /\ ~InDoubt /\ Active(mine)
  BY <1>2, BusyIsNotDoubt DEF SInv
<1>6. \A f \in EventIds : Active(f)' => f = mine /\ status = "pending"
  BY <1>4, <1>5 DEF OneActive, Active
<1>7. OneActive' /\ DoubtIsQuiet' /\ DoubtIsKnown'
  BY <1>6 DEF OneActive, DoubtIsQuiet, DoubtIsKnown
<1>8. PICK n : n = NextTask(work[w])
  OBVIOUS
<1> QED
  BY <1>1, <1>5, <1>7, <1>8, FreeOwns, AloneMoves DEF CaseNewer

LEMMA AloneCloses ==
    ASSUME OneWorker, TypeOK, SInv, NEW w \in Workers,
           CloseEvent(w) \/ CommitReschedule(w) \/ CommitLostRace(w) \/ CommitSuccess(w),
           CaseNewer
    PROVE  SInv'
<1>1. /\ work[w].pc \in {"closing", "flushed"} /\ UNCHANGED desk
      /\ Become(w, NextTask(work[w]))
  BY DEF CloseEvent, CommitReschedule, CommitLostRace, CommitSuccess, Commit
<1>2. Busy(work[w]) /\ Loaded(work[w])
  BY <1>1 DEF Busy, Loaded
<1>3. PICK status \in {"pending", "done", "dead"} :
        WriteEvent(work[w].event, work[w].sawEvent, status)
  BY DEF CloseEvent, CommitReschedule, CommitLostRace, CommitSuccess, Commit
<1>4. UNCHANGED case \/ case'.status = "refunded"
  <2>1. CASE CommitSuccess(w)
    <3>1. work[w].sawCase \in CaseRow
      BY DEF TypeOK, Task
    <3> QED
      BY <2>1, <3>1 DEF CommitSuccess, MarkSuccessCase, CasTransition
  <2>2. CASE CloseEvent(w) \/ CommitReschedule(w) \/ CommitLostRace(w)
    BY <2>2 DEF CloseEvent, CommitReschedule, CommitLostRace
  <2> QED
    BY <2>1, <2>2
<1>5. ~InDoubt'
  BY <1>2, <1>4, BusyIsNotDoubt DEF InDoubt
<1> QED
  BY <1>1, <1>2, <1>3, <1>5, AloneEnds

\* A case is put in doubt together with an attempt that is unknown or failed.
LEMMA AloneDoubts ==
    ASSUME OneWorker, TypeOK, SInv, NEW w \in Workers,
           CommitExhausted(w) \/ CommitUnknown(w) \/ CommitContradiction(w), CaseNewer
    PROVE  SInv'
<1>1. /\ work[w].pc = "flushed" /\ UNCHANGED desk /\ Become(w, NextTask(work[w]))
      /\ attempt' \in {Flush(attempt, work[w].sawAttempt, "failed"),
                       Flush(attempt, work[w].sawAttempt, "unknown")}
  BY DEF CommitExhausted, CommitUnknown, CommitContradiction, Commit, Outcome
<1>2. Busy(work[w]) /\ Loaded(work[w])
  BY <1>1 DEF Busy, Loaded
<1>3. PICK status \in {"done", "dead"} :
        WriteEvent(work[w].event, work[w].sawEvent, status)
  BY DEF CommitExhausted, CommitUnknown, CommitContradiction, Commit
<1>4. Refunded => Refunded'
  BY MarksKeep DEF CommitExhausted, CommitUnknown, CommitContradiction, TypeOK, Task
<1>5. attempt' \in {"unknown", "failed"} \/ Refunded
  BY <1>1 DEF SInv, WorkerOwns, Flush
<1>6. InDoubt' => attempt' \in {"unknown", "failed"}
  BY <1>4, <1>5 DEF InDoubt, Refunded
<1> QED
  BY <1>1, <1>2, <1>3, <1>6, AloneEnds

LEMMA AloneAbandons ==
    ASSUME OneWorker, TypeOK, SInv, NEW w \in Workers, RollBack(w) \/ WorkerFails(w)
    PROVE  SInv'
<1>1. PICK n : (n = NextTask(work[w]) \/ n = NoTask) /\ Become(w, n)
  BY DEF RollBack, WorkerFails
<1>2. UNCHANGED <<case, attempt, event, desk>> /\ work[w] \in Task
  BY DEF RollBack, WorkerFails, TypeOK
<1> QED
  BY <1>1, <1>2, FreeOwns, AloneReads

-----------------------------------------------------------------------------
(***************************************************************************)
(* Everybody else.                                                         *)
(***************************************************************************)
LEMMA OwnedThroughout ==
    ASSUME TypeOK, SInv, UNCHANGED work, NEW w \in Workers,
           \A e \in EventIds : Active(e) => event'[e].status = event[e].status,
           UNCHANGED attempt \/ attempt' = "failed" \/ (attempt' = "succeeded" /\ Refunded')
             \/ ~Busy(work[w]),
           Refunded => Refunded'
    PROVE  WorkerOwns(w)'
<1>1. WorkerOwns(w)
  BY DEF SInv
<1>2. CASE Busy(work[w])
  <2>1. event'[work[w].event].status = "processing"
    BY <1>1, <1>2, BusyIsNotDoubt DEF WorkerOwns
  <2> QED
    BY <1>1, <1>2, <2>1 DEF WorkerOwns, Busy, Loaded, Engaged
<1>3. CASE ~Busy(work[w])
  BY <1>3 DEF WorkerOwns, Busy, Loaded, Engaged
<1> QED
  BY <1>2, <1>3

LEMMA AloneEnvironment ==
    ASSUME TypeOK, SInv,
           \/ \E e \in EventIds : ExpireLease(e)
           \/ LateRequest \/ ProviderSettles \/ Settled \/ UNCHANGED vars
           \/ \E h \in HookIds : HookReplayed(h) \/ HookRead(h) \/ HookLost(h)
    PROVE  SInv'
<1>1. UNCHANGED <<case, attempt, work, desk>>
  BY DEF ExpireLease, LateRequest, ProviderSettles, Settled, vars, HookReplayed, HookRead,
         HookLost
<1>2. \A e \in EventIds : event'[e].status = event[e].status
  <2>1. ASSUME NEW f \in EventIds, ExpireLease(f)
        PROVE  \A e \in EventIds : event'[e].status = event[e].status
    BY <2>1 DEF ExpireLease, TypeOK, EventRow
  <2> QED
    BY <2>1 DEF LateRequest, ProviderSettles, Settled, vars, HookReplayed, HookRead, HookLost
<1>3. \A w \in Workers : WorkerOwns(w)'
  BY <1>1, <1>2, OwnedThroughout DEF Refunded
<1>4. OneActive' /\ DoubtIsQuiet' /\ DoubtIsKnown'
  BY <1>1, <1>2 DEF SInv, OneActive, DoubtIsQuiet, DoubtIsKnown, InDoubt, Active
<1>5. \A u \in Users : UserRemembers(u)'
  BY <1>1, MemoryLasts DEF SInv
<1> QED
  BY <1>3, <1>4, <1>5 DEF SInv

LEMMA AloneHookCommit ==
    ASSUME TypeOK, InPipeline, SInv, NEW h \in HookIds, HookCommit(h), CaseNewer
    PROVE  SInv'
<1>1. UNCHANGED <<event, work, desk>>
  BY DEF HookCommit
<1>2. CASE UNCHANGED <<case, attempt>>
  <2>1. \A w \in Workers : WorkerOwns(w)'
    BY <1>1, <1>2, OwnedThroughout DEF Refunded
  <2>2. OneActive' /\ DoubtIsQuiet' /\ DoubtIsKnown'
    BY <1>1, <1>2 DEF SInv, OneActive, DoubtIsQuiet, DoubtIsKnown, InDoubt, Active
  <2>3. \A u \in Users : UserRemembers(u)'
    BY <1>1, <1>2, MemoryLasts DEF SInv
  <2> QED
    BY <2>1, <2>2, <2>3 DEF SInv
<1>3. CASE /\ attempt' = Flush(attempt, hook[h].saw, "succeeded")
           /\ MarkSuccessCase(case)
  <2>1. Refunded'
    BY <1>3 DEF MarkSuccessCase, CasTransition, InPipeline, Refunded
  <2>2. \A w \in Workers : WorkerOwns(w)'
    BY <1>1, <1>3, <2>1, OwnedThroughout DEF Flush
  <2>3. OneActive' /\ DoubtIsQuiet' /\ DoubtIsKnown'
    BY <1>1, <2>1 DEF SInv, OneActive, DoubtIsQuiet, DoubtIsKnown, InDoubt, Active, Refunded
  <2>4. InDoubt => ~UNCHANGED case
    BY <2>1 DEF InDoubt, Refunded
  <2>5. \A u \in Users : UserRemembers(u)'
    BY <1>1, <2>4, MemoryLasts DEF SInv, CaseNewer
  <2> QED
    BY <2>2, <2>3, <2>5 DEF SInv
<1> QED
  BY <1>2, <1>3 DEF HookCommit

-----------------------------------------------------------------------------
(***************************************************************************)
(* Finance users.                                                          *)
(***************************************************************************)
RecordRemembers(t) ==
    t.op # "idle" =>
        /\ t.sawCase.status \in {"refund_unknown", "needs_reconciliation"}
        /\ t.sawCase.version <= case.version
        /\ t.sawCase.version = case.version => t.sawCase = case
        /\ t.op = "retrying" /\ t.sawCase = case => attempt = "failed"

LEMMA TurnRemembers ==
    ASSUME TypeOK, SInv, NEW u \in Users, NEW t, Turn(u, t), RecordRemembers(t)', CaseNewer,
           InDoubt /\ UNCHANGED case => UNCHANGED attempt \/ attempt' = "failed"
    PROVE  \A v \in Users : UserRemembers(v)'
<1> SUFFICES ASSUME NEW v \in Users PROVE UserRemembers(v)'
  OBVIOUS
<1>1. CASE v = u
  <2>1. desk'[v] = t
    BY <1>1 DEF Turn, TypeOK
  <2> QED
    BY <2>1 DEF RecordRemembers, UserRemembers
<1>2. CASE v # u
  <2>1. desk'[v] = desk[v]
    BY <1>2 DEF Turn, TypeOK
  <2> QED
    BY <2>1, MemoryLasts DEF SInv, CaseNewer
<1> QED
  BY <1>1, <1>2

LEMMA DeskReads ==
    ASSUME TypeOK, SInv, NEW u \in Users,
           \/ BeginReconcile(u) \/ ReadForReconcile(u) \/ LookUp(u)
           \/ BeginRetry(u) \/ EndsInError(u)
    PROVE  SInv'
<1>1. UNCHANGED <<case, attempt, event, work>>
  BY DEF BeginReconcile, ReadForReconcile, LookUp, BeginRetry, EndsInError
<1>2. case \in CaseRow /\ desk[u] \in Errand /\ UserRemembers(u)
  BY DEF TypeOK, SInv
<1>3. PICK t : Turn(u, t) /\ RecordRemembers(t)
  <2>1. CASE BeginReconcile(u)
    <3>1. PICK t : t = [NoErrand EXCEPT !.op = "opening", !.sawCase = case]
      OBVIOUS
    <3>2. t.op = "opening" /\ t.sawCase = case
      BY <3>1 DEF NoErrand
    <3>3. RecordRemembers(t)
      BY <1>2, <2>1, <3>2 DEF BeginReconcile, RecordRemembers, CaseRow
    <3>4. Turn(u, t)
      BY <2>1, <3>1 DEF BeginReconcile
    <3> QED
      BY <3>3, <3>4
  <2>2. CASE ReadForReconcile(u)
    <3>1. PICK t : t = [desk[u] EXCEPT !.op = "looking", !.sawAttempt = attempt]
      OBVIOUS
    <3>2. t.op = "looking" /\ t.sawCase = desk[u].sawCase
      BY <1>2, <3>1 DEF Errand
    <3>3. RecordRemembers(t)
      BY <1>2, <2>2, <3>2 DEF ReadForReconcile, RecordRemembers, UserRemembers
    <3>4. Turn(u, t)
      BY <2>2, <3>1 DEF ReadForReconcile
    <3> QED
      BY <3>3, <3>4
  <2>3. CASE LookUp(u)
    <3>1. PICK found : Turn(u, [desk[u] EXCEPT !.op = "deciding", !.found = found])
      BY <2>3 DEF LookUp
    <3>2. PICK t : t = [desk[u] EXCEPT !.op = "deciding", !.found = found]
      OBVIOUS
    <3>3. t.op = "deciding" /\ t.sawCase = desk[u].sawCase
      BY <1>2, <3>2 DEF Errand
    <3>4. RecordRemembers(t)
      BY <1>2, <2>3, <3>3 DEF LookUp, RecordRemembers, UserRemembers
    <3> QED
      BY <3>1, <3>2, <3>4
  <2>4. CASE BeginRetry(u)
    <3>1. PICK t : t = [NoErrand EXCEPT !.op = "retrying", !.sawCase = case,
                                        !.sawAttempt = attempt]
      OBVIOUS
    <3>2. t.op = "retrying" /\ t.sawCase = case
      BY <3>1 DEF NoErrand
    <3>3. RecordRemembers(t)
      BY <1>2, <2>4, <3>2 DEF BeginRetry, RecordRemembers, CaseRow
    <3>4. Turn(u, t)
      BY <2>4, <3>1 DEF BeginRetry
    <3> QED
      BY <3>3, <3>4
  <2>5. CASE EndsInError(u)
    BY <2>5 DEF EndsInError, NoErrand, RecordRemembers
  <2> QED
    BY <2>1, <2>2, <2>3, <2>4, <2>5
<1>4. RecordRemembers(t)'
  BY <1>1, <1>3 DEF RecordRemembers
<1>5. \A v \in Users : UserRemembers(v)'
  BY <1>1, <1>3, <1>4, TurnRemembers DEF CaseNewer
<1>6. \A w \in Workers : WorkerOwns(w)'
  BY <1>1, OwnedThroughout DEF Refunded
<1>7. OneActive' /\ DoubtIsQuiet' /\ DoubtIsKnown'
  BY <1>1 DEF SInv, OneActive, DoubtIsQuiet, DoubtIsKnown, InDoubt, Active
<1> QED
  BY <1>5, <1>6, <1>7 DEF SInv

\* Settling a refund either settles the case or leaves it in doubt, with an attempt
\* that is then known to have failed or left as it was.
LEMMA SettlesInDoubt ==
    ASSUME TypeOK, SInv, NEW u \in Users,
           SettleFound(u) \/ SettleNonTerminal(u) \/ SettleAbsent(u)
    PROVE  \/ Refunded' /\ attempt' \in {attempt, "succeeded"}
           \/ /\ InDoubt' => InDoubt
              /\ Refunded => Refunded'
              /\ attempt' \in {attempt, "failed"}
<1>1. /\ desk[u].op = "deciding" /\ UserRemembers(u)
      /\ case \in CaseRow /\ desk[u].sawCase \in CaseRow
  BY DEF SettleFound, SettleNonTerminal, SettleAbsent, Decide, SInv, TypeOK, Errand
<1>2. desk[u].sawCase.status \in {"refund_unknown", "needs_reconciliation"}
  BY <1>1 DEF UserRemembers
<1>3. CASE SettleFound(u)
  BY <1>2, <1>3 DEF SettleFound, MarkSuccessCase, CasTransition, Unsettled, Refunded, Flush
<1>4. CASE SettleNonTerminal(u) \/ SettleAbsent(u)
  <2>1. MarkManual(desk[u].sawCase) /\ attempt' \in {attempt, "failed"}
    BY <1>4 DEF SettleNonTerminal, SettleAbsent
  <2>2. (InDoubt' => InDoubt) /\ (Refunded => Refunded')
    BY <1>2, <2>1 DEF MarkManual, CasTransition, Doubtful, InDoubt, Refunded
  <2> QED
    BY <2>1, <2>2
<1> QED
  BY <1>3, <1>4

LEMMA DeskSettles ==
    ASSUME TypeOK, SInv, NEW u \in Users,
           SettleFound(u) \/ SettleNonTerminal(u) \/ SettleAbsent(u), CaseNewer
    PROVE  SInv'
<1>1. UNCHANGED <<event, work>> /\ Turn(u, NoErrand)
  BY DEF SettleFound, SettleNonTerminal, SettleAbsent, Decide
<1>2. RecordRemembers(NoErrand)'
  BY DEF RecordRemembers, NoErrand
<1>3. InDoubt /\ UNCHANGED case => UNCHANGED attempt \/ attempt' = "failed"
  BY SettlesInDoubt DEF InDoubt, Refunded
<1>4. PICK t : t = NoErrand /\ Turn(u, t) /\ RecordRemembers(t)'
  BY <1>1, <1>2 DEF NoErrand, PlannedCase
<1>5. \A v \in Users : UserRemembers(v)'
  BY <1>3, <1>4, TurnRemembers
<1>6. \A w \in Workers : WorkerOwns(w)'
  BY <1>1, SettlesInDoubt, OwnedThroughout
<1>7. OneActive' /\ DoubtIsQuiet' /\ DoubtIsKnown'
  BY <1>1, SettlesInDoubt
     DEF SInv, OneActive, DoubtIsQuiet, DoubtIsKnown, InDoubt, Active, Refunded
<1> QED
  BY <1>5, <1>6, <1>7 DEF SInv

\* A retry starts from a case in doubt, whose events have all ended: the new one is
\* the only one at work.
LEMMA DeskRetries ==
    ASSUME TypeOK, SInv, NEW u \in Users, CommitRetry(u), CaseNewer
    PROVE  SInv'
<1>1. PICK e \in EventIds : event[e].status = "absent" /\ event' = [event EXCEPT ![e] = NewEvent]
  BY DEF CommitRetry
<1>2. /\ desk[u].op = "retrying" /\ UNCHANGED work /\ Turn(u, NoErrand)
      /\ desk[u].sawCase = case /\ case'.status = "refund_pending"
  BY DEF CommitRetry, CasTransition
<1>3. InDoubt /\ ~InDoubt'
  BY <1>2 DEF SInv, UserRemembers, InDoubt
<1>4. \A f \in EventIds : ~Active(f)
  BY <1>3 DEF SInv, DoubtIsQuiet
<1>5. \A f \in EventIds : f # e => event'[f] = event[f]
  BY <1>1 DEF TypeOK
<1>6. OneActive' /\ DoubtIsQuiet' /\ DoubtIsKnown'
  BY <1>3, <1>4, <1>5 DEF OneActive, DoubtIsQuiet, DoubtIsKnown, Active
<1>7. \A w \in Workers : ~Busy(work[w])
  BY <1>3, BusyIsNotDoubt
<1>8. \A w \in Workers : WorkerOwns(w)'
  BY <1>2, <1>7 DEF WorkerOwns, Busy, Loaded, Engaged
<1>9. PICK t : t = NoErrand /\ Turn(u, t) /\ RecordRemembers(t)'
  BY <1>2 DEF RecordRemembers, NoErrand, PlannedCase
<1>10. \A v \in Users : UserRemembers(v)'
  BY <1>3, <1>9, TurnRemembers DEF InDoubt
<1> QED
  BY <1>6, <1>8, <1>10 DEF SInv

-----------------------------------------------------------------------------
LEMMA NewerCase == ASSUME IInv, [Next]_vars PROVE CaseNewer
<1>1. TypeOK'
  BY TypeNext DEF IInv
<1> QED
  BY <1>1, EffectsOfNext DEF IInv, TypeOK, CaseStep, CaseNewer

LEMMA AloneInit == Init => SInv
<1> SUFFICES ASSUME Init PROVE SInv
  OBVIOUS
<1>1. \A w \in Workers : WorkerOwns(w)
  BY DEF Init, NoTask, WorkerOwns, Busy, Loaded, Engaged
<1>2. \A e \in EventIds : Active(e) => e = 1
  BY DEF Init, Active, NoEvent
<1>3. OneActive /\ DoubtIsQuiet /\ DoubtIsKnown
  BY <1>2 DEF Init, PlannedCase, OneActive, DoubtIsQuiet, DoubtIsKnown, InDoubt
<1>4. \A u \in Users : UserRemembers(u)
  BY DEF Init, NoErrand, UserRemembers
<1> QED
  BY <1>1, <1>3, <1>4 DEF SInv

LEMMA AloneNext == ASSUME OneWorker, IInv, SInv, [Next]_vars PROVE SInv'
<1>0. TypeOK /\ InPipeline /\ CaseNewer
  BY NewerCase DEF IInv
<1>1. ASSUME NEW w \in Workers, WorkerStep(w) \/ WorkerFails(w) PROVE SInv'
  BY <1>0, <1>1, AloneClaim, AloneOpen, AloneReadAttempt, AloneGoes, AloneDispatch,
     AloneCloses, AloneDoubts, AloneAbandons DEF WorkerStep
<1>2. ASSUME NEW h \in HookIds, HookStep(h) PROVE SInv'
  BY <1>0, <1>2, AloneHookCommit, AloneEnvironment DEF HookStep
<1>3. ASSUME NEW u \in Users, DeskStep(u) PROVE SInv'
  BY <1>0, <1>3, DeskReads, DeskSettles, DeskRetries DEF DeskStep
<1>4. CASE \/ \E e \in EventIds : ExpireLease(e)
           \/ LateRequest \/ ProviderSettles \/ Settled \/ UNCHANGED vars
  BY <1>0, <1>4, AloneEnvironment
<1> QED
  BY <1>1, <1>2, <1>3, <1>4 DEF Next

\* A single worker owns the events it works on, and what it leaves in doubt is
\* finance's alone.
THEOREM AloneHolds == ASSUME OneWorker PROVE Spec => []SInv
<1>1. IInv /\ SInv /\ [Next]_vars => SInv'
  BY AloneNext
<1> QED
  BY <1>1, AloneInit, EvidenceHolds, PTL DEF Spec

\* Once a single worker has let go of a case it has a next action on the finance
\* desk, however many users reconcile and retry it at the same time.
THEOREM NothingIsStranded == ASSUME OneWorker PROVE Spec => []NextActionExists
<1>1. IInv /\ SInv => NextActionExists
  <2> SUFFICES ASSUME IInv, SInv, case.status # "refund_pending"
               PROVE  \E a \in {"provider_reconcile", "retry_failed_refund",
                                "mark_reconciled"} : a \in allowed_actions
    BY DEF NextActionExists
  <2>1. InDoubt \/ Refunded
    BY DEF IInv, InPipeline, Unsettled, InDoubt, Refunded
  <2> QED
    BY <2>1 DEF SInv, DoubtIsKnown, InDoubt, Refunded, allowed_actions
<1> QED
  BY <1>1, AloneHolds, EvidenceHolds, PTL

-----------------------------------------------------------------------------
(***************************************************************************)
(* How an unknown outcome ends.                                            *)
(***************************************************************************)
LookedUp == \E u \in Users : desk[u].found = "absent" /\ desk'[u] # desk[u]

LEMMA UnknownByDesk ==
    ASSUME TypeOK, SInv, NEW u \in Users, DeskStep(u),
           attempt = "unknown", attempt' # "unknown"
    PROVE  attempt' = "succeeded" \/ (attempt' = "failed" /\ LookedUp)
<1>1. UserRemembers(u) /\ desk \in [Users -> Errand]
  BY DEF SInv, TypeOK
<1>2. CASE SettleFound(u)
  BY <1>2 DEF SettleFound, Flush
<1>3. CASE SettleAbsent(u)
  <2>1. /\ desk[u].op = "deciding" /\ desk[u].found = "absent" /\ attempt' = "failed"
        /\ desk' = [desk EXCEPT ![u] = NoErrand]
    BY <1>3 DEF SettleAbsent, Decide, Turn
  <2>2. desk'[u].op = "idle"
    BY <1>1, <2>1 DEF NoErrand
  <2> QED
    BY <2>1, <2>2 DEF LookedUp
<1>4. CASE CommitRetry(u)
  BY <1>1, <1>4 DEF CommitRetry, CasTransition, UserRemembers
<1> QED
  BY <1>2, <1>3, <1>4 DEF DeskStep, BeginReconcile, ReadForReconcile, LookUp,
     SettleNonTerminal, BeginRetry, EndsInError

LEMMA UnknownByWorker ==
    ASSUME SInv, NEW w \in Workers, WorkerStep(w) \/ WorkerFails(w),
           attempt = "unknown"
    PROVE  UNCHANGED attempt
<1>1. WorkerOwns(w)
  BY DEF SInv
<1>2. work[w].pc \notin {"dispatching", "flushed"}
  BY <1>1 DEF WorkerOwns, Engaged
<1> QED
  BY <1>2 DEF WorkerStep, Claim, Open, ReadAttempt, CloseEvent, Dispatch, ProviderRefuses,
     ProviderAnswers, NoAnswer, RefreshEvent, RefreshAttempt, FlushAttempt,
     CommitReschedule, CommitExhausted, CommitUnknown, CommitSuccess,
     CommitContradiction, Commit, CommitLostRace, RollBack, WorkerFails

\* With a single worker an unknown outcome is left only by a recorded success or by
\* the provider's answer to a finance user that it knows of no refund, however many
\* users reconcile the case at the same time.
THEOREM UnknownIsProven == ASSUME OneWorker PROVE Spec => UnknownNeedsEvidence
<1> DEFINE Evident == attempt = "unknown" /\ attempt' # "unknown" =>
                        attempt' = "succeeded" \/ (attempt' = "failed" /\ LookedUp)
<1>1. ASSUME IInv, SInv, [Next]_vars PROVE Evident
  <2>0. TypeOK
    BY <1>1 DEF IInv
  <2>1. ASSUME NEW w \in Workers, WorkerStep(w) \/ WorkerFails(w) PROVE Evident
    BY <1>1, <2>1, UnknownByWorker
  <2>2. ASSUME NEW h \in HookIds, HookStep(h) PROVE Evident
    BY <2>2 DEF HookStep, HookReplayed, HookRead, HookCommit, HookLost, Flush
  <2>3. ASSUME NEW u \in Users, DeskStep(u) PROVE Evident
    BY <1>1, <2>0, <2>3, UnknownByDesk
  <2>4. CASE \/ \E e \in EventIds : ExpireLease(e)
             \/ LateRequest \/ ProviderSettles \/ Settled \/ UNCHANGED vars
    BY <2>4 DEF ExpireLease, LateRequest, ProviderSettles, Settled, vars
  <2> QED
    BY <1>1, <2>1, <2>2, <2>3, <2>4 DEF Next
<1>2. IInv /\ SInv /\ [Next]_vars => [Evident]_vars
  BY <1>1
<1>3. Spec => [][Evident]_vars
  BY <1>2, AloneHolds, EvidenceHolds, PTL DEF Spec
<1>4. [Evident]_vars <=> [attempt = "unknown" /\ attempt' # "unknown" =>
          \/ attempt' = "succeeded"
          \/ /\ attempt' = "failed"
             /\ \E u \in Users : desk[u].found = "absent" /\ desk'[u] # desk[u]]_vars
  BY DEF LookedUp
<1> QED
  BY <1>3, <1>4, PTL DEF UnknownNeedsEvidence

-----------------------------------------------------------------------------
\* With a single worker the case and its attempt tell the same story after every
\* step of a worker, a webhook or any number of finance users at once, whatever gets
\* lost, late or repeated.
THEOREM BooksHold == ASSUME OneWorker PROVE Spec => []BooksAgree
<1>1. IInv /\ WInv /\ SInv => BooksAgree
  BY DEF IInv, TypeOK, RefundAttemptStatus, WInv, OutcomeMovesCase, Pending, Refunded,
     SInv, DoubtIsKnown, InDoubt, BooksAgree
<1> QED
  BY <1>1, EvidenceHolds, WorkHolds, AloneHolds, PTL
=============================================================================
