------------------------ MODULE RefundPipelineProofs ------------------------
(***************************************************************************)
(* What RefundPipeline guarantees for every number of workers, users,      *)
(* events and webhooks and for every bound, proved with TLAPS.             *)
(***************************************************************************)
EXTENDS RefundPipeline, TLAPS

-----------------------------------------------------------------------------
(***************************************************************************)
(* Lemmas about the writes of a transaction.                               *)
(***************************************************************************)

\* A flush stores what was there or what is new, nothing else.
LEMMA FlushType ==
    ASSUME NEW S, NEW stored \in S, NEW loaded, NEW new \in S
    PROVE  Flush(stored, loaded, new) \in S
BY DEF Flush

\* Every write of an event keeps it an event row.
LEMMA WriteEventType ==
    ASSUME event \in [EventIds -> EventRow], NEW e \in EventIds, NEW loaded \in EventRow,
           NEW status \in {"absent", "pending", "processing", "done", "dead"},
           WriteEvent(e, loaded, status)
    PROVE  event' \in [EventIds -> EventRow]
<1>1. event[e] \in EventRow
  OBVIOUS
<1>2. Flush(event[e].status, loaded.status, status)
        \in {"absent", "pending", "processing", "done", "dead"}
  BY <1>1 DEF Flush, EventRow
<1>3. Flush(event[e].lease, loaded.lease, "null") \in {"null", "live", "expired"}
  BY <1>1 DEF Flush, EventRow
<1>4. Released(event[e], loaded, status) \in EventRow
  BY <1>1, <1>2, <1>3 DEF Released, EventRow
<1> QED
  BY <1>4 DEF WriteEvent

\* A compare-and-swap keeps the case a case row.
LEMMA CasType ==
    ASSUME NEW saw \in CaseRow, NEW target \in ReturnStatus, CasTransition(saw, target)
    PROVE  case' \in CaseRow
BY DEF CasTransition, CaseRow

\* So does each of the mark operations, which may also leave it alone.
LEMMA MarkType ==
    ASSUME case \in CaseRow, NEW saw \in CaseRow,
           \/ MarkUnknownCase(saw) \/ MarkManual(saw)
           \/ MarkSuccessCase(saw) \/ MarkUnknownThenManual(saw)
    PROVE  case' \in CaseRow
<1>1. {"refund_unknown", "needs_reconciliation", "refunded"} \subseteq ReturnStatus
  BY DEF ReturnStatus
<1>2. CASE MarkUnknownCase(saw)
  BY <1>1, <1>2, CasType DEF MarkUnknownCase
<1>3. CASE MarkManual(saw)
  BY <1>1, <1>3, CasType DEF MarkManual
<1>4. CASE MarkSuccessCase(saw)
  BY <1>1, <1>4, CasType DEF MarkSuccessCase
<1>5. CASE MarkUnknownThenManual(saw)
  <2>1. CASE saw.status = "refund_pending"
    BY <1>1, <1>5, <2>1 DEF MarkUnknownThenManual, CaseRow
  <2>2. CASE saw.status # "refund_pending"
    BY <1>3, <1>5, <2>2 DEF MarkUnknownThenManual
  <2> QED BY <2>1, <2>2
<1> QED
  BY <1>2, <1>3, <1>4, <1>5

\* Whatever a reply leads to is a status of the attempt.
LEMMA OutcomeType == ASSUME NEW reply PROVE Outcome(reply) \in RefundAttemptStatus
BY DEF Outcome, RefundAttemptStatus

\* The rows and records the initial state and the actions start from.
LEMMA DefaultTypes ==
    /\ PlannedCase \in CaseRow
    /\ NoEvent \in EventRow
    /\ NewEvent \in EventRow
    /\ NoTask \in Task
    /\ NoErrand \in Errand
<1>1. PlannedCase \in CaseRow
  BY DEF PlannedCase, CaseRow, ReturnStatus
<1>2. NoEvent \in EventRow /\ NewEvent \in EventRow
  BY DEF NoEvent, NewEvent, EventRow
<1>3. 1 \in EventIds
  BY BoundsAssumption DEF EventIds
<1>4. NoTask \in Task
  BY <1>1, <1>2, <1>3 DEF NoTask, Task, Replies, RefundAttemptStatus
<1>5. NoErrand \in Errand
  BY <1>1 DEF NoErrand, Errand, RefundAttemptStatus
<1> QED
  BY <1>1, <1>2, <1>4, <1>5

\* A worker goes from task to task, and a user from errand to errand.
LEMMA BecomeType ==
    ASSUME work \in [Workers -> Task], NEW w \in Workers, NEW t \in Task, Become(w, t)
    PROVE  work' \in [Workers -> Task]
BY DEF Become

LEMMA TurnType ==
    ASSUME desk \in [Users -> Errand], NEW u \in Users, NEW t \in Errand, Turn(u, t)
    PROVE  desk' \in [Users -> Errand]
BY DEF Turn

LEMMA NextTaskType == ASSUME NEW t \in Task PROVE NextTask(t) \in Task
BY DefaultTypes DEF NextTask, Task

\* The provider's part of a step: its row and the webhooks it announces.
LEMMA StoreType ==
    ASSUME provider \in ProviderRow, StoreRefund PROVE provider' \in ProviderRow
BY ProviderAssumption DEF StoreRefund, ProviderRow

LEMMA EvidenceType ==
    ASSUME NEW status \in {"pending", "succeeded", "declined"}
    PROVE  Evidence(status) \subseteq Says
BY DEF Evidence, Says

LEMMA SendType ==
    ASSUME hook \in [HookIds -> HookRow],
           provider' \in ProviderRow, provider'.status # "absent", SendWebhook
    PROVE  hook' \in [HookIds -> HookRow]
<1>1. CASE UNCHANGED hook
  BY <1>1
<1>2. ASSUME NEW h \in HookIds, NEW n \in 1 .. MaxCopies,
             NEW says \in Evidence(provider'.status),
             hook' = [hook EXCEPT ![h] = [hook[h] EXCEPT !.phase = "sent", !.copies = n,
                                                         !.says = says]]
      PROVE  hook' \in [HookIds -> HookRow]
  <2>1. says \in Says
    BY <1>2, EvidenceType DEF ProviderRow
  <2>2. n \in Nat
    BY BoundsAssumption
  <2>3. hook[h] \in HookRow
    OBVIOUS
  <2>4. [hook[h] EXCEPT !.phase = "sent", !.copies = n, !.says = says] \in HookRow
    BY <2>1, <2>2, <2>3 DEF HookRow
  <2> QED
    BY <1>2, <2>4
<1> QED
  BY <1>1, <1>2 DEF SendWebhook

\* After a request is processed the provider has a row under the key.
LEMMA StoredAfter ==
    ASSUME provider \in ProviderRow, StoreRefund PROVE provider'.status # "absent"
BY ProviderAssumption DEF StoreRefund, ProviderRow

-----------------------------------------------------------------------------
(***************************************************************************)
(* Type correctness.                                                       *)
(***************************************************************************)
LEMMA TypeInit == Init => TypeOK
<1> SUFFICES ASSUME Init PROVE TypeOK
  OBVIOUS
<1>1. case \in CaseRow /\ attempt \in RefundAttemptStatus
  BY DefaultTypes DEF Init, RefundAttemptStatus
<1>2. event \in [EventIds -> EventRow]
  BY DefaultTypes DEF Init
<1>3. provider \in ProviderRow /\ late \in Nat /\ receipts \in SUBSET HookIds /\ faults \in Nat
  BY DEF Init, ProviderRow
<1>4. hook \in [HookIds -> HookRow]
  BY DEF Init, HookRow, Says, RefundAttemptStatus
<1>5. work \in [Workers -> Task] /\ desk \in [Users -> Errand]
  BY DefaultTypes DEF Init
<1> QED
  BY <1>1, <1>2, <1>3, <1>4, <1>5 DEF TypeOK

\* Steps of a worker up to the answer of the provider.
LEMMA TypeDispatching ==
    ASSUME TypeOK, NEW w \in Workers,
           \/ Claim(w) \/ Open(w) \/ ReadAttempt(w) \/ CloseEvent(w) \/ Dispatch(w)
    PROVE  TypeOK'
<1> USE DEF TypeOK
<1>0. work[w] \in Task
  OBVIOUS
<1>1. CASE Claim(w)
  <2> PICK batch \in SUBSET {e \in EventIds : Claimable(e)} :
        /\ event' = [e \in EventIds |->
                       IF e \in batch
                       THEN [status |-> "processing", lease |-> "live",
                             attempts |-> event[e].attempts + 1]
                       ELSE event[e]]
        /\ Become(w, [NoTask EXCEPT !.pc = "claimed", !.batch = batch])
    BY <1>1 DEF Claim
  <2>1. event' \in [EventIds -> EventRow]
    <3>1. ASSUME NEW e \in EventIds
          PROVE  [status |-> "processing", lease |-> "live",
                  attempts |-> event[e].attempts + 1] \in EventRow
      BY DEF EventRow
    <3> QED
      BY <3>1
  <2>2. [NoTask EXCEPT !.pc = "claimed", !.batch = batch] \in Task
    BY DefaultTypes DEF Task
  <2>3. work' \in [Workers -> Task]
    BY <2>2, BecomeType
  <2> QED
    BY <1>1, <2>1, <2>3 DEF Claim
<1>2. CASE Open(w)
  <2> PICK e \in work[w].batch :
        LET rest == [work[w] EXCEPT !.batch = @ \ {e}]
        IN  IF event[e].status = "processing"
            THEN Become(w, [rest EXCEPT !.pc = "opened", !.event = e, !.sawEvent = event[e]])
            ELSE Become(w, NextTask(rest))
    BY <1>2 DEF Open
  <2> DEFINE rest == [work[w] EXCEPT !.batch = @ \ {e}]
  <2>1. e \in EventIds /\ rest \in Task
    BY <1>0 DEF Task
  <2>2. [rest EXCEPT !.pc = "opened", !.event = e, !.sawEvent = event[e]] \in Task
    BY <2>1 DEF Task
  <2>3. NextTask(rest) \in Task
    BY <2>1, NextTaskType
  <2> HIDE DEF rest
  <2>4. work' \in [Workers -> Task]
    <3>1. CASE event[e].status = "processing"
      BY <2>2, <3>1, BecomeType DEF rest
    <3>2. CASE event[e].status # "processing"
      BY <2>3, <3>2, BecomeType DEF rest
    <3> QED BY <3>1, <3>2
  <2> QED
    BY <1>2, <2>4 DEF Open
<1>3. CASE ReadAttempt(w)
  <2>1. \A pc \in {"closing", "dispatching"} :
           [work[w] EXCEPT !.sawAttempt = attempt, !.pc = pc] \in Task
    BY <1>0 DEF Task
  <2>2. work' \in [Workers -> Task]
    BY <1>3, <2>1, BecomeType DEF ReadAttempt
  <2> QED
    BY <1>3, <2>2 DEF ReadAttempt
<1>4. CASE CloseEvent(w)
  <2>1. event' \in [EventIds -> EventRow]
    BY <1>0, <1>4, WriteEventType DEF CloseEvent, Task
  <2>2. work' \in [Workers -> Task]
    BY <1>0, <1>4, NextTaskType, BecomeType DEF CloseEvent
  <2> QED
    BY <1>4, <2>1, <2>2 DEF CloseEvent
<1>5. CASE Dispatch(w)
  <2>1. attempt' \in RefundAttemptStatus
    BY <1>5, FlushType DEF Dispatch, RefundAttemptStatus
  <2>2. [work[w] EXCEPT !.pc = "posting", !.sawEvent = NoEvent,
                        !.sawAttempt = "planned"] \in Task
    BY <1>0, DefaultTypes DEF Task, RefundAttemptStatus
  <2>3. work' \in [Workers -> Task]
    BY <1>5, <2>2, BecomeType DEF Dispatch
  <2> QED
    BY <1>5, <2>1, <2>3 DEF Dispatch
<1> QED
  BY <1>1, <1>2, <1>3, <1>4, <1>5

\* Steps from the provider's answer to the flush of the outcome.
LEMMA TypeAnswering ==
    ASSUME TypeOK, NEW w \in Workers,
           \/ ProviderRefuses(w) \/ ProviderAnswers(w) \/ NoAnswer(w)
           \/ RefreshEvent(w) \/ RefreshAttempt(w) \/ FlushAttempt(w)
    PROVE  TypeOK'
<1> USE DEF TypeOK
<1>0. work[w] \in Task
  OBVIOUS
<1>1. ASSUME NEW reply \in Replies, Answer(w, reply)
      PROVE  work' \in [Workers -> Task]
  <2>1. [work[w] EXCEPT !.pc = "answered", !.reply = reply] \in Task
    BY <1>0 DEF Task
  <2> QED
    BY <1>1, <2>1, BecomeType DEF Answer
<1>2. CASE ProviderRefuses(w)
  BY <1>1, <1>2 DEF ProviderRefuses, Replies
<1>3. CASE ProviderAnswers(w)
  <2>1. Evidence("row") \subseteq Replies
    BY DEF Evidence, Replies
  <2>2. work' \in [Workers -> Task]
    BY <1>1, <1>3, <2>1 DEF ProviderAnswers
  <2>3. provider' \in ProviderRow /\ hook' \in [HookIds -> HookRow]
    BY <1>3, StoreType, StoredAfter, SendType DEF ProviderAnswers
  <2> QED
    BY <1>3, <2>2, <2>3 DEF ProviderAnswers
<1>4. CASE NoAnswer(w)
  <2>1. work' \in [Workers -> Task]
    BY <1>1, <1>4 DEF NoAnswer, Replies
  <2> QED
    BY <1>4, <2>1 DEF NoAnswer
<1>5. CASE RefreshEvent(w)
  <2>1. event[work[w].event] \in EventRow
    BY <1>0 DEF Task
  <2>2. [work[w] EXCEPT !.pc = "refreshing", !.sawEvent = event[work[w].event]] \in Task
    BY <1>0, <2>1 DEF Task
  <2>3. work' \in [Workers -> Task]
    BY <1>5, <2>2, BecomeType DEF RefreshEvent
  <2> QED
    BY <1>5, <2>3 DEF RefreshEvent
<1>6. CASE RefreshAttempt(w)
  <2>1. \A pc \in {"closing", "refreshed"} :
           [work[w] EXCEPT !.sawAttempt = attempt, !.pc = pc] \in Task
    BY <1>0 DEF Task
  <2>2. work' \in [Workers -> Task]
    BY <1>6, <2>1, BecomeType DEF RefreshAttempt
  <2> QED
    BY <1>6, <2>2 DEF RefreshAttempt
<1>7. CASE FlushAttempt(w)
  <2>1. [work[w] EXCEPT !.pc = "flushed", !.sawCase = case] \in Task
    BY <1>0 DEF Task
  <2>2. work' \in [Workers -> Task]
    BY <1>7, <2>1, BecomeType DEF FlushAttempt
  <2> QED
    BY <1>7, <2>2 DEF FlushAttempt
<1> QED
  BY <1>2, <1>3, <1>4, <1>5, <1>6, <1>7

\* Commits and rollbacks of a worker.
LEMMA TypeCommitting ==
    ASSUME TypeOK, NEW w \in Workers,
           \/ CommitReschedule(w) \/ CommitExhausted(w) \/ CommitUnknown(w)
           \/ CommitSuccess(w) \/ CommitContradiction(w)
           \/ CommitLostRace(w) \/ RollBack(w)
    PROVE  TypeOK'
<1> USE DEF TypeOK
<1>0. /\ work[w] \in Task
      /\ work[w].event \in EventIds
      /\ work[w].sawEvent \in EventRow
      /\ work[w].sawCase \in CaseRow
  BY DEF Task
<1>1. Become(w, NextTask(work[w])) => work' \in [Workers -> Task]
  BY <1>0, NextTaskType, BecomeType
<1>2. ASSUME NEW reply \in Replies, NEW status \in {"pending", "done", "dead"},
             Commit(w, reply, status), case' \in CaseRow
      PROVE  TypeOK'
  <2>1. attempt' \in RefundAttemptStatus
    BY <1>2, FlushType, OutcomeType DEF Commit
  <2>2. event' \in [EventIds -> EventRow]
    BY <1>0, <1>2, WriteEventType DEF Commit
  <2> QED
    BY <1>1, <1>2, <2>1, <2>2 DEF Commit
<1>3. CASE CommitReschedule(w)
  BY <1>2, <1>3 DEF CommitReschedule, Replies
<1>4. CASE CommitExhausted(w)
  BY <1>0, <1>2, <1>4, MarkType DEF CommitExhausted, Replies
<1>5. CASE CommitUnknown(w)
  BY <1>0, <1>2, <1>5, MarkType DEF CommitUnknown, Replies
<1>6. CASE CommitSuccess(w)
  BY <1>0, <1>2, <1>6, MarkType DEF CommitSuccess, Replies
<1>7. CASE CommitContradiction(w)
  BY <1>0, <1>2, <1>7, MarkType DEF CommitContradiction, Replies
<1>8. CASE CommitLostRace(w)
  <2>1. event' \in [EventIds -> EventRow]
    BY <1>0, <1>8, WriteEventType DEF CommitLostRace
  <2> QED
    BY <1>1, <1>8, <2>1 DEF CommitLostRace, RefundAttemptStatus
<1>9. CASE RollBack(w)
  BY <1>1, <1>9 DEF RollBack
<1> QED
  BY <1>3, <1>4, <1>5, <1>6, <1>7, <1>8, <1>9

\* Faults, the clock and the provider.
LEMMA TypeEnvironment ==
    ASSUME TypeOK,
           \/ \E w \in Workers : WorkerFails(w)
           \/ \E e \in EventIds : ExpireLease(e)
           \/ LateRequest \/ ProviderSettles
    PROVE  TypeOK'
<1> USE DEF TypeOK
<1>1. ASSUME NEW w \in Workers, WorkerFails(w) PROVE TypeOK'
  <2>1. NoTask \in Task /\ NextTask(work[w]) \in Task
    BY DefaultTypes, NextTaskType
  <2>2. work' \in [Workers -> Task]
    BY <1>1, <2>1, BecomeType DEF WorkerFails
  <2>3. late' \in Nat
    BY <1>1 DEF WorkerFails
  <2> QED
    BY <1>1, <2>2, <2>3 DEF WorkerFails
<1>2. ASSUME NEW e \in EventIds, ExpireLease(e) PROVE TypeOK'
  <2>1. event' \in [EventIds -> EventRow]
    BY <1>2 DEF ExpireLease, EventRow
  <2>2. faults' \in Nat
    BY <1>2 DEF ExpireLease
  <2> QED
    BY <1>2, <2>1, <2>2 DEF ExpireLease
<1>3. CASE LateRequest
  <2>1. provider' \in ProviderRow /\ hook' \in [HookIds -> HookRow]
    BY <1>3, StoreType, StoredAfter, SendType DEF LateRequest
  <2> QED
    BY <1>3, <2>1 DEF LateRequest
<1>4. CASE ProviderSettles
  <2>1. provider' \in ProviderRow /\ provider'.status # "absent"
    BY <1>4 DEF ProviderSettles, ProviderRow
  <2>2. hook' \in [HookIds -> HookRow]
    BY <1>4, <2>1, SendType DEF ProviderSettles
  <2> QED
    BY <1>4, <2>1, <2>2 DEF ProviderSettles
<1> QED
  BY <1>1, <1>2, <1>3, <1>4


\* Webhook deliveries.
LEMMA TypeHooks ==
    ASSUME TypeOK, HooksCounted, NEW h \in HookIds, HookStep(h)
    PROVE  TypeOK'
<1> USE DEF TypeOK
<1>0. hook[h] \in HookRow
  OBVIOUS
<1>1. CASE HookRead(h)
  <2>1. [hook[h] EXCEPT !.phase = "reading", !.saw = attempt] \in HookRow
    BY <1>0 DEF HookRow
  <2>2. hook' \in [HookIds -> HookRow]
    BY <1>1, <2>1 DEF HookRead
  <2> QED
    BY <1>1, <2>2 DEF HookRead
<1>2. ASSUME hook[h].copies > 0, Consumed(h)
      PROVE  hook' \in [HookIds -> HookRow]
  <2>1. hook[h].copies - 1 \in Nat /\ "planned" \in RefundAttemptStatus
    BY <1>0, <1>2 DEF HookRow, RefundAttemptStatus
  <2>2. Delivered(hook[h]) = [hook[h] EXCEPT !.phase = "sent", !.saw = "planned",
                                             !.copies = hook[h].copies - 1]
    BY <1>0 DEF Delivered, HookRow
  <2>3. Delivered(hook[h]) \in HookRow
    BY <1>0, <2>1, <2>2 DEF HookRow
  <2> QED
    BY <1>2, <2>3 DEF Consumed
<1>3. CASE HookReplayed(h)
  BY <1>2, <1>3 DEF HookReplayed, Deliverable
<1>4. CASE HookLost(h)
  BY <1>2, <1>4 DEF HookLost, Deliverable, HooksCounted
<1>5. CASE HookCommit(h)
  <2>1. hook' \in [HookIds -> HookRow]
    BY <1>2, <1>5 DEF HookCommit, HooksCounted
  <2>2. receipts' \in SUBSET HookIds
    BY <1>5 DEF HookCommit
  <2>3. attempt' \in RefundAttemptStatus /\ case' \in CaseRow
    <3>1. CASE hook[h].says = "succeeded"
      <4>1. attempt' = Flush(attempt, hook[h].saw, "succeeded") /\ MarkSuccessCase(case)
        BY <1>5, <3>1 DEF HookCommit
      <4>2. attempt' \in RefundAttemptStatus
        BY <4>1, FlushType DEF RefundAttemptStatus
      <4> QED
        BY <4>1, <4>2, MarkType
    <3>2. CASE hook[h].says # "succeeded"
      BY <1>5, <3>2 DEF HookCommit
    <3> QED
      BY <3>1, <3>2
  <2> QED
    BY <1>5, <2>1, <2>2, <2>3 DEF HookCommit
<1> QED
  BY <1>1, <1>3, <1>4, <1>5 DEF HookStep

\* Requests of finance users.
LEMMA TypeDesk ==
    ASSUME TypeOK, NEW u \in Users, DeskStep(u)
    PROVE  TypeOK'
<1> USE DEF TypeOK
<1>0. desk[u] \in Errand /\ desk[u].sawCase \in CaseRow
  BY DEF Errand
<1>1. CASE BeginReconcile(u)
  <2>1. [NoErrand EXCEPT !.op = "opening", !.sawCase = case] \in Errand
    BY DefaultTypes DEF Errand
  <2>2. desk' \in [Users -> Errand]
    BY <1>1, <2>1, TurnType DEF BeginReconcile
  <2> QED
    BY <1>1, <2>2 DEF BeginReconcile
<1>2. CASE ReadForReconcile(u)
  <2>1. [desk[u] EXCEPT !.op = "looking", !.sawAttempt = attempt] \in Errand
    BY <1>0 DEF Errand
  <2>2. desk' \in [Users -> Errand]
    BY <1>2, <2>1, TurnType DEF ReadForReconcile
  <2> QED
    BY <1>2, <2>2 DEF ReadForReconcile
<1>3. CASE LookUp(u)
  <2>1. PICK found \in IF provider.status = "absent" THEN {"absent"}
                       ELSE Evidence(provider.status) :
           Turn(u, [desk[u] EXCEPT !.op = "deciding", !.found = found])
    BY <1>3 DEF LookUp
  <2>2. found \in {"absent"} \cup Says
    BY <2>1, EvidenceType DEF ProviderRow
  <2>3. [desk[u] EXCEPT !.op = "deciding", !.found = found] \in Errand
    BY <1>0, <2>2 DEF Errand
  <2>4. desk' \in [Users -> Errand]
    BY <2>1, <2>3, TurnType
  <2> QED
    BY <1>3, <2>4 DEF LookUp
<1>4. Turn(u, NoErrand) => desk' \in [Users -> Errand]
  BY DefaultTypes, TurnType
<1>5. ASSUME NEW found, Decide(u, found), attempt' \in RefundAttemptStatus, case' \in CaseRow
      PROVE  TypeOK'
  BY <1>4, <1>5 DEF Decide
<1>6. CASE SettleFound(u)
  <2>1. attempt' \in RefundAttemptStatus
    BY <1>6, FlushType DEF SettleFound, RefundAttemptStatus
  <2>2. case' \in CaseRow
    BY <1>0, <1>6, MarkType DEF SettleFound
  <2> QED
    BY <1>5, <1>6, <2>1, <2>2 DEF SettleFound
<1>7. CASE SettleNonTerminal(u)
  BY <1>0, <1>5, <1>7, MarkType DEF SettleNonTerminal
<1>8. CASE SettleAbsent(u)
  <2>1. attempt' \in RefundAttemptStatus
    BY <1>8 DEF SettleAbsent, RefundAttemptStatus
  <2>2. case' \in CaseRow
    BY <1>0, <1>8, MarkType DEF SettleAbsent
  <2> QED
    BY <1>5, <1>8, <2>1, <2>2 DEF SettleAbsent
<1>9. CASE BeginRetry(u)
  <2>1. [NoErrand EXCEPT !.op = "retrying", !.sawCase = case, !.sawAttempt = attempt] \in Errand
    BY DefaultTypes DEF Errand
  <2>2. desk' \in [Users -> Errand]
    BY <1>9, <2>1, TurnType DEF BeginRetry
  <2> QED
    BY <1>9, <2>2 DEF BeginRetry
<1>10. CASE CommitRetry(u)
  <2>1. event' \in [EventIds -> EventRow]
    BY <1>10, DefaultTypes DEF CommitRetry
  <2>2. attempt' \in RefundAttemptStatus
    BY <1>10, FlushType DEF CommitRetry, RefundAttemptStatus
  <2>3. case' \in CaseRow
    BY <1>0, <1>10, CasType DEF CommitRetry, ReturnStatus
  <2> QED
    BY <1>4, <1>10, <2>1, <2>2, <2>3 DEF CommitRetry
<1>11. CASE EndsInError(u)
  <2>1. faults' \in Nat
    BY <1>11 DEF EndsInError
  <2> QED
    BY <1>4, <1>11, <2>1 DEF EndsInError
<1> QED
  BY <1>1, <1>2, <1>3, <1>6, <1>7, <1>8, <1>9, <1>10, <1>11 DEF DeskStep

LEMMA TypeNext == TypeOK /\ HooksCounted /\ [Next]_vars => TypeOK'
<1> SUFFICES ASSUME TypeOK, HooksCounted, [Next]_vars PROVE TypeOK'
  OBVIOUS
<1>1. ASSUME NEW w \in Workers, WorkerStep(w) PROVE TypeOK'
  BY <1>1, TypeDispatching, TypeAnswering, TypeCommitting DEF WorkerStep
<1>2. CASE \/ \E w \in Workers : WorkerFails(w)
           \/ \E e \in EventIds : ExpireLease(e)
           \/ LateRequest \/ ProviderSettles
  BY <1>2, TypeEnvironment
<1>3. ASSUME NEW h \in HookIds, HookStep(h) PROVE TypeOK'
  BY <1>3, TypeHooks
<1>4. ASSUME NEW u \in Users, DeskStep(u) PROVE TypeOK'
  BY <1>4, TypeDesk
<1>5. CASE Settled \/ UNCHANGED vars
  BY <1>5 DEF Settled, vars, TypeOK
<1> QED
  BY <1>1, <1>2, <1>3, <1>4, <1>5 DEF Next

-----------------------------------------------------------------------------
(***************************************************************************)
(* What a step does to the case and to the provider's refund.  No step     *)
(* writes both: the network is never crossed inside a transaction.         *)
(***************************************************************************)
Confirms  == case.status \in Unsettled /\ case'.status = "refunded"
                /\ provider.status # "absent"
Suspects  == case.status = "refund_pending" /\ case'.status = "refund_unknown"
Escalates == case.status \in Doubtful /\ case'.status = "needs_reconciliation"
Retries   == case.status = "needs_reconciliation" /\ case'.status = "refund_pending"

CaseStep ==
    \/ UNCHANGED case
    \/ /\ case'.version > case.version
       /\ Confirms \/ Suspects \/ Escalates \/ Retries

\* The mark operations write the case only if it is still the row they loaded.
LEMMA DoubtStep ==
    ASSUME case \in CaseRow, NEW saw \in CaseRow,
           MarkUnknownCase(saw) \/ MarkManual(saw) \/ MarkUnknownThenManual(saw)
    PROVE  CaseStep
<1>1. CASE MarkUnknownCase(saw)
  BY <1>1 DEF MarkUnknownCase, CasTransition, CaseStep, Suspects, CaseRow
<1>2. CASE MarkManual(saw)
  BY <1>2 DEF MarkManual, CasTransition, CaseStep, Escalates, CaseRow
<1>3. CASE MarkUnknownThenManual(saw)
  BY <1>2, <1>3 DEF MarkUnknownThenManual, CaseStep, Escalates, Doubtful, CaseRow
<1> QED
  BY <1>1, <1>2, <1>3

LEMMA SuccessStep ==
    ASSUME case \in CaseRow, NEW saw \in CaseRow, MarkSuccessCase(saw),
           provider.status # "absent"
    PROVE  CaseStep
BY DEF MarkSuccessCase, CasTransition, CaseStep, Confirms, CaseRow

\* A commit of a worker moves the case, if at all, by what it holds as evidence.
LEMMA CommitStep ==
    ASSUME TypeOK, EvidenceIsTrue, NEW w \in Workers,
           \/ CommitExhausted(w) \/ CommitUnknown(w) \/ CommitSuccess(w)
           \/ CommitContradiction(w)
    PROVE  CaseStep /\ UNCHANGED provider
<1>1. case \in CaseRow /\ work[w].sawCase \in CaseRow
  BY DEF TypeOK, Task
<1>2. CASE CommitSuccess(w)
  <2>1. provider.status # "absent"
    BY <1>2 DEF CommitSuccess, Commit, EvidenceIsTrue
  <2> QED
    BY <1>1, <1>2, <2>1, SuccessStep DEF CommitSuccess, Commit
<1>3. CASE CommitExhausted(w) \/ CommitUnknown(w) \/ CommitContradiction(w)
  BY <1>1, <1>3, DoubtStep DEF CommitExhausted, CommitUnknown, CommitContradiction, Commit
<1> QED
  BY <1>2, <1>3

LEMMA WorkerLeavesBoth ==
    ASSUME NEW w \in Workers,
           \/ Claim(w) \/ Open(w) \/ ReadAttempt(w) \/ CloseEvent(w) \/ Dispatch(w)
           \/ ProviderRefuses(w) \/ NoAnswer(w) \/ RefreshEvent(w) \/ RefreshAttempt(w)
           \/ FlushAttempt(w) \/ CommitReschedule(w) \/ CommitLostRace(w)
           \/ RollBack(w) \/ WorkerFails(w)
    PROVE  UNCHANGED <<case, provider>>
BY DEF Claim, Open, ReadAttempt, CloseEvent, Dispatch, ProviderRefuses, NoAnswer,
       RefreshEvent, RefreshAttempt, FlushAttempt, CommitReschedule, Commit,
       CommitLostRace, RollBack, WorkerFails

\* Webhooks and finance users.
LEMMA HookCaseStep ==
    ASSUME TypeOK, EvidenceIsTrue, NEW h \in HookIds, HookStep(h)
    PROVE  CaseStep /\ UNCHANGED provider
<1>1. case \in CaseRow
  BY DEF TypeOK
<1>2. CASE HookCommit(h)
  <2>1. CASE hook[h].says = "succeeded"
    <3>1. provider.status # "absent"
      BY <1>2, <2>1 DEF HookCommit, EvidenceIsTrue
    <3> QED
      BY <1>1, <1>2, <2>1, <3>1, SuccessStep DEF HookCommit
  <2>2. CASE hook[h].says # "succeeded"
    BY <1>2, <2>2 DEF HookCommit, CaseStep
  <2> QED BY <2>1, <2>2
<1>3. CASE HookReplayed(h) \/ HookRead(h) \/ HookLost(h)
  BY <1>3 DEF HookReplayed, HookRead, HookLost, CaseStep
<1> QED
  BY <1>2, <1>3 DEF HookStep

LEMMA DeskCaseStep ==
    ASSUME TypeOK, InPipeline, EvidenceIsTrue, NEW u \in Users, DeskStep(u)
    PROVE  CaseStep /\ UNCHANGED provider
<1>1. case \in CaseRow /\ desk[u].sawCase \in CaseRow
  BY DEF TypeOK, Errand
<1>2. CASE SettleFound(u)
  <2>1. provider.status # "absent"
    BY <1>2 DEF SettleFound, Decide, EvidenceIsTrue
  <2> QED
    BY <1>1, <1>2, <2>1, SuccessStep DEF SettleFound, Decide
<1>3. CASE SettleNonTerminal(u) \/ SettleAbsent(u)
  BY <1>1, <1>3, DoubtStep DEF SettleNonTerminal, SettleAbsent, Decide
<1>4. CASE CommitRetry(u)
  <2>1. CasTransition(desk[u].sawCase, "refund_pending") /\ UNCHANGED provider
    BY <1>4 DEF CommitRetry
  <2>2. "refund_pending" \in TRANSITIONS[case.status] => case.status = "needs_reconciliation"
    BY DEF TRANSITIONS, ReturnStatus, InPipeline, Unsettled
  <2>3. /\ case = desk[u].sawCase
        /\ case' = [status |-> "refund_pending", version |-> case.version + 1]
        /\ case.status = "needs_reconciliation"
    BY <2>1, <2>2 DEF CasTransition
  <2> QED
    BY <1>1, <2>1, <2>3 DEF CaseStep, Retries, CaseRow
<1>5. CASE BeginReconcile(u) \/ ReadForReconcile(u) \/ LookUp(u) \/ BeginRetry(u)
           \/ EndsInError(u)
  BY <1>5 DEF BeginReconcile, ReadForReconcile, LookUp, BeginRetry, EndsInError, CaseStep
<1> QED
  BY <1>2, <1>3, <1>4, <1>5 DEF DeskStep

\* A step of the system changes the case by CaseStep, or the provider, not both.
LEMMA EffectsOfNext ==
    ASSUME TypeOK, InPipeline, EvidenceIsTrue, [Next]_vars
    PROVE  \/ CaseStep /\ UNCHANGED provider
           \/ /\ UNCHANGED case
              /\ StoreRefund \/ ProviderSettles
<1>1. ASSUME NEW w \in Workers, WorkerStep(w) \/ WorkerFails(w)
      PROVE  \/ CaseStep /\ UNCHANGED provider
             \/ UNCHANGED case /\ StoreRefund
  <2>1. CASE ProviderAnswers(w)
    BY <2>1 DEF ProviderAnswers
  <2>2. CASE \/ CommitExhausted(w) \/ CommitUnknown(w) \/ CommitSuccess(w)
             \/ CommitContradiction(w)
    BY <2>2, CommitStep
  <2> QED
    BY <1>1, <2>1, <2>2, WorkerLeavesBoth DEF WorkerStep, CaseStep
<1>2. ASSUME NEW e \in EventIds, ExpireLease(e)
      PROVE  UNCHANGED <<case, provider>>
  BY <1>2 DEF ExpireLease
<1>3. CASE LateRequest \/ ProviderSettles
  BY <1>3 DEF LateRequest, ProviderSettles
<1>4. CASE Settled \/ UNCHANGED vars
  BY <1>4 DEF Settled, vars, CaseStep
<1> QED
  BY <1>1, <1>2, <1>3, <1>4, HookCaseStep, DeskCaseStep DEF Next, CaseStep

\* The refund of the provider, once known, stays known; once made, stays made.
LEMMA ProviderStep ==
    ASSUME TypeOK, EvidenceIsTrue, StoreRefund \/ ProviderSettles
    PROVE  /\ provider.status # "absent" => provider'.status # "absent"
           /\ provider.status = "succeeded" => UNCHANGED provider
           /\ provider'.executed = IF provider'.status = "succeeded" THEN 1 ELSE 0
           /\ NewStatuses = {"succeeded"} => provider'.status \in {"absent", "succeeded"}
<1>1. provider \in ProviderRow
  BY DEF TypeOK
<1>2. provider.executed = IF provider.status = "succeeded" THEN 1 ELSE 0
  BY DEF EvidenceIsTrue
<1>3. NewStatuses = {"succeeded"} => provider.status \in {"absent", "succeeded"}
  BY DEF EvidenceIsTrue
<1>4. CASE ProviderSettles
  BY <1>1, <1>2, <1>3, <1>4 DEF ProviderSettles, ProviderRow
<1>5. CASE StoreRefund /\ provider.status = "absent"
  <2>1. PICK s \in NewStatuses :
          provider' = [status |-> s,
                       executed |-> provider.executed + (IF s = "succeeded" THEN 1 ELSE 0)]
    BY <1>5 DEF StoreRefund
  <2>2. s \in {"succeeded", "pending"}
    BY ProviderAssumption
  <2> QED
    BY <1>2, <1>5, <2>1, <2>2
<1>6. CASE StoreRefund /\ provider.status # "absent"
  BY <1>2, <1>3, <1>6 DEF StoreRefund
<1> QED
  BY <1>4, <1>5, <1>6

-----------------------------------------------------------------------------
(***************************************************************************)
(* Evidence stays true: who holds it after a step held it before, or got   *)
(* it from the provider in this step.                                      *)
(***************************************************************************)
LEMMA ReplyStep ==
    ASSUME TypeOK, [Next]_vars, NEW v \in Workers, work'[v].reply = "row"
    PROVE  work[v].reply = "row" \/ provider'.status # "absent"
<1>1. work \in [Workers -> Task]
  BY DEF TypeOK
<1>2. ASSUME NEW w \in Workers, NEW t, Become(w, t), t.reply # "row" \/ t.reply = work[w].reply
      PROVE  work[v].reply = "row"
  BY <1>1, <1>2 DEF Become
<1>3. NoTask.reply = "none" /\ \A t \in Task : NextTask(t).reply = "none"
  BY DEF NoTask, NextTask
<1>4. ASSUME NEW w \in Workers, WorkerFails(w)
      PROVE  work[v].reply = "row"
  BY <1>1, <1>2, <1>3, <1>4 DEF WorkerFails
<1>5. ASSUME NEW w \in Workers,
             \/ CloseEvent(w) \/ CommitReschedule(w) \/ CommitExhausted(w) \/ CommitUnknown(w)
             \/ CommitSuccess(w) \/ CommitContradiction(w) \/ CommitLostRace(w) \/ RollBack(w)
      PROVE  work[v].reply = "row"
  <2>1. Become(w, NextTask(work[w]))
    BY <1>5 DEF CloseEvent, CommitReschedule, CommitExhausted, CommitUnknown, CommitSuccess,
                CommitContradiction, Commit, CommitLostRace, RollBack
  <2> QED
    BY <1>1, <1>2, <1>3, <2>1
<1>6. ASSUME NEW w \in Workers, Claim(w)
      PROVE  work[v].reply = "row"
  <2>1. PICK batch : Become(w, [NoTask EXCEPT !.pc = "claimed", !.batch = batch])
    BY <1>6 DEF Claim
  <2>2. [NoTask EXCEPT !.pc = "claimed", !.batch = batch].reply = "none"
    BY DEF NoTask
  <2> QED
    BY <1>2, <2>1, <2>2
<1>7. ASSUME NEW w \in Workers, Open(w)
      PROVE  work[v].reply = "row"
  <2> PICK e \in work[w].batch :
        LET rest == [work[w] EXCEPT !.batch = @ \ {e}]
        IN  IF event[e].status = "processing"
            THEN Become(w, [rest EXCEPT !.pc = "opened", !.event = e, !.sawEvent = event[e]])
            ELSE Become(w, NextTask(rest))
    BY <1>7 DEF Open
  <2> DEFINE rest == [work[w] EXCEPT !.batch = @ \ {e}]
             opened == [rest EXCEPT !.pc = "opened", !.event = e, !.sawEvent = event[e]]
  <2>1. work[w] \in Task
    BY <1>1
  <2>2. rest \in Task /\ rest.reply = work[w].reply
    BY <2>1 DEF Task
  <2>3. opened.reply = work[w].reply
    BY <2>1, <2>2 DEF Task
  <2>4. NextTask(rest).reply = "none"
    BY <1>3, <2>2
  <2>5. Become(w, opened) \/ Become(w, NextTask(rest))
    OBVIOUS
  <2> HIDE DEF rest, opened
  <2> QED
    BY <1>2, <2>3, <2>4, <2>5
<1>8. ASSUME NEW w \in Workers,
             \/ ReadAttempt(w) \/ Dispatch(w) \/ ProviderRefuses(w) \/ NoAnswer(w)
             \/ RefreshEvent(w) \/ RefreshAttempt(w) \/ FlushAttempt(w)
      PROVE  work[v].reply = "row"
  <2>1. work[w] \in Task
    BY <1>1
  <2>2. CASE ReadAttempt(w)
    BY <1>1, <2>1, <2>2 DEF ReadAttempt, Become, Task
  <2>3. CASE Dispatch(w)
    BY <1>1, <2>1, <2>3 DEF Dispatch, Become, Task
  <2>4. CASE ProviderRefuses(w) \/ NoAnswer(w)
    BY <1>1, <2>1, <2>4 DEF ProviderRefuses, NoAnswer, Answer, Become, Task
  <2>5. CASE RefreshEvent(w)
    BY <1>1, <2>1, <2>5 DEF RefreshEvent, Become, Task
  <2>6. CASE RefreshAttempt(w)
    BY <1>1, <2>1, <2>6 DEF RefreshAttempt, Become, Task
  <2>7. CASE FlushAttempt(w)
    BY <1>1, <2>1, <2>7 DEF FlushAttempt, Become, Task
  <2> QED
    BY <1>8, <2>2, <2>3, <2>4, <2>5, <2>6, <2>7
<1>9. ASSUME NEW w \in Workers, ProviderAnswers(w)
      PROVE  provider'.status # "absent"
  BY <1>9, StoredAfter DEF ProviderAnswers, TypeOK
<1>10. CASE UNCHANGED work
  BY <1>10
<1>11. ASSUME NEW h \in HookIds, HookStep(h) PROVE UNCHANGED work
  BY <1>11 DEF HookStep, HookReplayed, HookRead, HookCommit, HookLost
<1>12. ASSUME NEW u \in Users, DeskStep(u) PROVE UNCHANGED work
  BY <1>12 DEF DeskStep, BeginReconcile, ReadForReconcile, LookUp, SettleFound,
               SettleNonTerminal, SettleAbsent, Decide, BeginRetry, CommitRetry, EndsInError
<1>13. ASSUME NEW e \in EventIds, ExpireLease(e) PROVE UNCHANGED work
  BY <1>13 DEF ExpireLease
<1>14. LateRequest \/ ProviderSettles \/ Settled \/ UNCHANGED vars => UNCHANGED work
  BY DEF LateRequest, ProviderSettles, Settled, vars
<1> QED
  BY <1>4, <1>5, <1>6, <1>7, <1>8, <1>9, <1>10, <1>11, <1>12, <1>13, <1>14
     DEF Next, WorkerStep

\* No step of a worker but the one the provider answers in touches the webhooks
\* or, ever, the finance desk.
LEMMA WorkerLeavesHooks ==
    ASSUME NEW w \in Workers, WorkerStep(w) \/ WorkerFails(w)
    PROVE  /\ UNCHANGED desk
           /\ UNCHANGED hook \/ ProviderAnswers(w)
<1>1. CASE \/ Claim(w) \/ Open(w) \/ ReadAttempt(w) \/ CloseEvent(w) \/ Dispatch(w)
           \/ ProviderRefuses(w) \/ NoAnswer(w) \/ WorkerFails(w)
  BY <1>1 DEF Claim, Open, ReadAttempt, CloseEvent, Dispatch, ProviderRefuses, NoAnswer,
              WorkerFails
<1>2. CASE RefreshEvent(w) \/ RefreshAttempt(w) \/ FlushAttempt(w) \/ RollBack(w)
  BY <1>2 DEF RefreshEvent, RefreshAttempt, FlushAttempt, RollBack
<1>3. CASE \/ CommitReschedule(w) \/ CommitExhausted(w) \/ CommitUnknown(w)
           \/ CommitSuccess(w) \/ CommitContradiction(w) \/ CommitLostRace(w)
  BY <1>3 DEF CommitReschedule, CommitExhausted, CommitUnknown, CommitSuccess,
              CommitContradiction, Commit, CommitLostRace
<1>4. CASE ProviderAnswers(w)
  BY <1>4 DEF ProviderAnswers
<1> QED
  BY <1>1, <1>2, <1>3, <1>4 DEF WorkerStep

\* How the record of a webhook event changes: it is sent with what the provider
\* has, read, or counted as delivered.
HookChange(g) ==
    \/ hook'[g] = hook[g]
    \/ /\ hook'[g].phase = "sent"
       /\ hook'[g].says = "succeeded" => provider'.status = "succeeded"
    \/ /\ hook'[g].phase = "reading" /\ hook'[g].copies > 0
       /\ hook[g].phase # "unused" /\ hook'[g].says = hook[g].says
    \/ /\ hook'[g].phase = "sent"
       /\ hook[g].phase # "unused" /\ hook'[g].says = hook[g].says

LEMMA SentChange ==
    ASSUME TypeOK, SendWebhook, NEW g \in HookIds
    PROVE  HookChange(g)
<1>1. hook[g] \in HookRow
  BY DEF TypeOK
<1>2. CASE UNCHANGED hook
  BY <1>2 DEF HookChange
<1>3. ASSUME NEW h \in HookIds, NEW n \in 1 .. MaxCopies,
             NEW says \in Evidence(provider'.status),
             hook' = [hook EXCEPT ![h] = [hook[h] EXCEPT !.phase = "sent", !.copies = n,
                                                         !.says = says]]
      PROVE  HookChange(g)
  <2>1. says = "succeeded" => provider'.status = "succeeded"
    BY <1>3 DEF Evidence
  <2>2. CASE g = h
    <3>1. hook'[g] = [hook[g] EXCEPT !.phase = "sent", !.copies = n, !.says = says]
      BY <1>3, <2>2 DEF TypeOK
    <3>2. hook'[g].phase = "sent" /\ hook'[g].says = says
      BY <1>1, <3>1 DEF HookRow
    <3> QED
      BY <2>1, <3>2 DEF HookChange
  <2>3. CASE g # h
    BY <1>3, <2>3 DEF HookChange, TypeOK
  <2> QED BY <2>2, <2>3
<1> QED
  BY <1>2, <1>3 DEF SendWebhook

LEMMA DeliveryChange ==
    ASSUME TypeOK, NEW h \in HookIds, HookStep(h), NEW g \in HookIds
    PROVE  HookChange(g)
<1>1. hook \in [HookIds -> HookRow]
  BY DEF TypeOK
<1>2. CASE HookRead(h)
  <2>1. CASE g = h
    <3>1. hook'[g] = [hook[g] EXCEPT !.phase = "reading", !.saw = attempt]
      BY <1>1, <1>2, <2>1 DEF HookRead
    <3>2. /\ hook'[g].phase = "reading"
          /\ hook'[g].copies = hook[g].copies
          /\ hook'[g].says = hook[g].says
      BY <1>1, <3>1 DEF HookRow
    <3>3. hook[g].phase = "sent" /\ hook[g].copies > 0
      BY <1>2, <2>1 DEF HookRead, Deliverable
    <3> QED
      BY <3>2, <3>3 DEF HookChange
  <2>2. CASE g # h
    BY <1>1, <1>2, <2>2 DEF HookRead, HookChange
  <2> QED BY <2>1, <2>2
<1>3. ASSUME Consumed(h), hook[h].phase # "unused"
      PROVE  HookChange(g)
  <2>1. CASE g = h
    <3>1. hook'[g] = Delivered(hook[g])
      BY <1>1, <1>3, <2>1 DEF Consumed
    <3>2. hook'[g].phase = "sent" /\ hook'[g].says = hook[g].says
      BY <1>1, <3>1 DEF Delivered, HookRow
    <3> QED
      BY <1>3, <2>1, <3>2 DEF HookChange
  <2>2. CASE g # h
    BY <1>1, <1>3, <2>2 DEF Consumed, HookChange
  <2> QED BY <2>1, <2>2
<1>4. CASE HookReplayed(h) \/ HookCommit(h) \/ HookLost(h)
  BY <1>3, <1>4 DEF HookReplayed, HookCommit, HookLost, Deliverable
<1> QED
  BY <1>2, <1>4 DEF HookStep

LEMMA HookChanges ==
    ASSUME TypeOK, [Next]_vars, NEW g \in HookIds
    PROVE  HookChange(g)
<1>1. CASE UNCHANGED hook
  BY <1>1 DEF HookChange
<1>2. ASSUME NEW w \in Workers, WorkerStep(w) \/ WorkerFails(w)
      PROVE  HookChange(g)
  BY <1>1, <1>2, WorkerLeavesHooks, SentChange DEF ProviderAnswers
<1>3. CASE LateRequest \/ ProviderSettles
  BY <1>3, SentChange DEF LateRequest, ProviderSettles
<1>4. ASSUME NEW u \in Users, DeskStep(u) PROVE UNCHANGED hook
  BY <1>4 DEF DeskStep, BeginReconcile, ReadForReconcile, LookUp, SettleFound,
              SettleNonTerminal, SettleAbsent, Decide, BeginRetry, CommitRetry, EndsInError
<1>5. ASSUME NEW e \in EventIds, ExpireLease(e) PROVE UNCHANGED hook
  BY <1>5 DEF ExpireLease
<1>6. Settled \/ UNCHANGED vars => UNCHANGED hook
  BY DEF Settled, vars
<1> QED
  BY <1>1, <1>2, <1>3, <1>4, <1>5, <1>6, DeliveryChange DEF Next

\* What a finance user was told, the provider has.
LEMMA FoundStep ==
    ASSUME TypeOK, [Next]_vars, NEW v \in Users, desk'[v].found = "succeeded"
    PROVE  \/ desk[v].found = "succeeded"
           \/ provider.status = "succeeded" /\ UNCHANGED provider
<1>1. desk \in [Users -> Errand]
  BY DEF TypeOK
<1>2. CASE UNCHANGED desk
  BY <1>2
<1>3. ASSUME NEW u \in Users, NEW t, Turn(u, t),
             t.found # "succeeded" \/ t.found = desk[u].found
      PROVE  desk[v].found = "succeeded"
  BY <1>1, <1>3 DEF Turn
<1>4. NoErrand.found = "absent"
  BY DEF NoErrand
<1>5. ASSUME NEW u \in Users, DeskStep(u)
      PROVE  \/ desk[v].found = "succeeded"
             \/ provider.status = "succeeded" /\ UNCHANGED provider
  <2>1. CASE BeginReconcile(u)
    <3>1. [NoErrand EXCEPT !.op = "opening", !.sawCase = case].found = "absent"
      BY DEF NoErrand
    <3> QED
      BY <1>3, <2>1, <3>1 DEF BeginReconcile
  <2>2. CASE ReadForReconcile(u)
    <3>1. [desk[u] EXCEPT !.op = "looking", !.sawAttempt = attempt].found = desk[u].found
      BY <1>1 DEF Errand
    <3> QED
      BY <1>3, <2>2, <3>1 DEF ReadForReconcile
  <2>3. CASE LookUp(u)
    <3>1. PICK found \in IF provider.status = "absent" THEN {"absent"}
                         ELSE Evidence(provider.status) :
            Turn(u, [desk[u] EXCEPT !.op = "deciding", !.found = found])
      BY <2>3 DEF LookUp
    <3>2. found = "succeeded" => provider.status = "succeeded"
      BY DEF Evidence
    <3>3. [desk[u] EXCEPT !.op = "deciding", !.found = found].found = found
      BY <1>1 DEF Errand
    <3>4. UNCHANGED provider
      BY <2>3 DEF LookUp
    <3> QED
      BY <1>3, <3>1, <3>2, <3>3, <3>4
  <2>4. CASE SettleFound(u) \/ SettleNonTerminal(u) \/ SettleAbsent(u) \/ CommitRetry(u)
             \/ EndsInError(u)
    BY <1>3, <1>4, <2>4 DEF SettleFound, SettleNonTerminal, SettleAbsent, Decide, CommitRetry,
                            EndsInError
  <2>5. CASE BeginRetry(u)
    <3>1. [NoErrand EXCEPT !.op = "retrying", !.sawCase = case,
                           !.sawAttempt = attempt].found = "absent"
      BY DEF NoErrand
    <3> QED
      BY <1>3, <2>5, <3>1 DEF BeginRetry
  <2> QED
    BY <1>5, <2>1, <2>2, <2>3, <2>4, <2>5 DEF DeskStep
<1>6. ASSUME NEW h \in HookIds, HookStep(h) PROVE UNCHANGED desk
  BY <1>6 DEF HookStep, HookReplayed, HookRead, HookCommit, HookLost
<1>7. ASSUME NEW e \in EventIds, ExpireLease(e) PROVE UNCHANGED desk
  BY <1>7 DEF ExpireLease
<1>8. LateRequest \/ ProviderSettles \/ Settled \/ UNCHANGED vars => UNCHANGED desk
  BY DEF LateRequest, ProviderSettles, Settled, vars
<1> QED
  BY <1>2, <1>5, <1>6, <1>7, <1>8, WorkerLeavesHooks DEF Next

-----------------------------------------------------------------------------
(***************************************************************************)
(* The inductive invariant.                                                *)
(***************************************************************************)
LEMMA InitIInv == Init => IInv
<1> SUFFICES ASSUME Init PROVE IInv
  OBVIOUS
<1>1. TypeOK
  BY TypeInit
<1>2. InPipeline
  BY DEF Init, PlannedCase, InPipeline, Unsettled
<1>3. HooksCounted
  BY DEF Init, HooksCounted
<1>4. EvidenceIsTrue
  BY DEF Init, EvidenceIsTrue, PlannedCase, NoTask, NoErrand
<1> QED
  BY <1>1, <1>2, <1>3, <1>4 DEF IInv

LEMMA NextHooksCounted ==
    ASSUME TypeOK, HooksCounted, [Next]_vars PROVE HooksCounted'
<1> SUFFICES ASSUME NEW g \in HookIds, hook'[g].phase = "reading"
             PROVE  hook'[g].copies > 0
  BY DEF HooksCounted
<1> QED
  BY HookChanges DEF HookChange, HooksCounted

LEMMA NextEvidence ==
    ASSUME TypeOK, InPipeline, EvidenceIsTrue, [Next]_vars
    PROVE  InPipeline' /\ EvidenceIsTrue'
<1>1. /\ provider.status # "absent" => provider'.status # "absent"
      /\ provider.status = "succeeded" => provider'.status = "succeeded"
      /\ provider'.executed = IF provider'.status = "succeeded" THEN 1 ELSE 0
      /\ NewStatuses = {"succeeded"} => provider'.status \in {"absent", "succeeded"}
  <2>1. CASE UNCHANGED provider
    BY <2>1 DEF EvidenceIsTrue
  <2>2. CASE StoreRefund \/ ProviderSettles
    BY <2>2, ProviderStep
  <2> QED
    BY <2>1, <2>2, EffectsOfNext
<1>2. UNCHANGED case \/ CaseStep
  BY EffectsOfNext
<1>3. InPipeline'
  BY <1>2 DEF InPipeline, CaseStep, Confirms, Suspects, Escalates, Retries, Unsettled, Doubtful
<1>4. case'.status = "refunded" => provider'.status # "absent"
  BY <1>1, <1>2 DEF EvidenceIsTrue, CaseStep, Confirms, Suspects, Escalates, Retries
<1>5. ASSUME NEW w \in Workers, work'[w].reply = "row"
      PROVE  provider'.status # "absent"
  BY <1>1, <1>5, ReplyStep DEF EvidenceIsTrue
<1>6. ASSUME NEW h \in HookIds, hook'[h].phase # "unused", hook'[h].says = "succeeded"
      PROVE  provider'.status = "succeeded"
  BY <1>1, <1>6, HookChanges DEF EvidenceIsTrue, HookChange
<1>7. ASSUME NEW u \in Users, desk'[u].found = "succeeded"
      PROVE  provider'.status = "succeeded"
  BY <1>1, <1>7, FoundStep DEF EvidenceIsTrue
<1> QED
  BY <1>1, <1>3, <1>4, <1>5, <1>6, <1>7 DEF EvidenceIsTrue

LEMMA NextIInv == IInv /\ [Next]_vars => IInv'
BY TypeNext, NextHooksCounted, NextEvidence DEF IInv

\* Whatever the numbers of workers, users, events, webhooks and faults, an actor
\* never holds false evidence of the refund.
THEOREM EvidenceHolds == Spec => []IInv
BY InitIInv, NextIInv, PTL DEF Spec

\* Every row of the database, and every record an actor keeps, keeps its type.
THEOREM TypeCorrect == Spec => []TypeOK
<1>1. IInv => TypeOK
  BY DEF IInv
<1> QED
  BY <1>1, EvidenceHolds, PTL

-----------------------------------------------------------------------------
(***************************************************************************)
(* The properties.                                                         *)
(***************************************************************************)

\* However many workers post the refund and however often finance retries it,
\* the money moves at most once, given that the provider keeps its keys.
THEOREM MoneyMovesOnce == Spec => []SingleEffect
<1>1. IInv => SingleEffect
  BY DEF IInv, EvidenceIsTrue, SingleEffect
<1> QED
  BY <1>1, EvidenceHolds, PTL

\* With a provider that answers only with refunds it has made, no interleaving
\* marks a case refunded whose refund was not made.
THEOREM RefundIsReal ==
    ASSUME NewStatuses = {"succeeded"}
    PROVE  Spec => []RefundedIsBacked
<1>1. IInv => RefundedIsBacked
  BY DEF IInv, EvidenceIsTrue, RefundedIsBacked
<1> QED
  BY <1>1, EvidenceHolds, PTL

LEMMA DeclaredMoves ==
    /\ \A s \in Unsettled : "refunded" \in TRANSITIONS[s]
    /\ "refund_unknown" \in TRANSITIONS["refund_pending"]
    /\ \A s \in Doubtful : "needs_reconciliation" \in TRANSITIONS[s]
    /\ "refund_pending" \in TRANSITIONS["needs_reconciliation"]
BY DEF TRANSITIONS, ReturnStatus, Unsettled, Doubtful

\* The case moves along the declared state machine and its version only grows,
\* whichever copy of the row the writer had loaded.
THEOREM CaseIsSwappedForward == Spec => CaseMovesForward
<1>1. IInv /\ [Next]_vars =>
        [case' # case => /\ case'.status \in TRANSITIONS[case.status]
                         /\ case'.version > case.version]_vars
  BY EffectsOfNext, DeclaredMoves
     DEF IInv, CaseStep, Confirms, Suspects, Escalates, Retries
<1> QED
  BY <1>1, EvidenceHolds, PTL DEF Spec, CaseMovesForward

-----------------------------------------------------------------------------
(***************************************************************************)
(* The refinement of RefundPromise.                                        *)
(***************************************************************************)
LEMMA PromiseStarts == Init => Promise!PromiseInit
BY DEF Init, PlannedCase, Promise!PromiseInit

LEMMA PromiseStep ==
    ASSUME NewStatuses = {"succeeded"}, IInv, [Next]_vars
    PROVE  [Promise!PromiseNext]_(Promise!promise)
<1>1. /\ provider \in ProviderRow
      /\ provider.executed = IF provider.status = "succeeded" THEN 1 ELSE 0
      /\ provider.status \in {"absent", "succeeded"}
  BY DEF IInv, TypeOK, EvidenceIsTrue
<1>2. CASE CaseStep /\ UNCHANGED provider
  BY <1>1, <1>2 DEF CaseStep, Confirms, Suspects, Escalates, Retries, Unsettled, Doubtful,
                    Promise!PromiseNext, Promise!promise, Promise!Confirm, Promise!Suspect,
                    Promise!Escalate, Promise!Retry, Promise!Unsettled, Promise!Doubtful
<1>3. CASE UNCHANGED case /\ (StoreRefund \/ ProviderSettles)
  <2>1. CASE UNCHANGED provider
    BY <1>3, <2>1 DEF Promise!promise
  <2>2. CASE provider.status = "absent" /\ StoreRefund
    BY <1>1, <1>3, <2>2 DEF StoreRefund, Promise!PromiseNext, Promise!Pay
  <2> QED
    BY <1>1, <1>3, <2>1, <2>2 DEF StoreRefund, ProviderSettles
<1> QED
  BY <1>2, <1>3, EffectsOfNext DEF IInv

\* The pipeline implements the promise: one payment at most, a refunded case only
\* after it, and the moves of the case a reader of the promise expects.
THEOREM PromiseIsKept ==
    ASSUME NewStatuses = {"succeeded"}
    PROVE  Spec => KeepsPromise
<1>1. IInv /\ [Next]_vars => [Promise!PromiseNext]_(Promise!promise)
  BY PromiseStep
<1> QED
  BY <1>1, EvidenceHolds, PromiseStarts, PTL DEF Spec, KeepsPromise, Promise!PromiseSpec
=============================================================================
