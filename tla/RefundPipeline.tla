--------------------------- MODULE RefundPipeline ---------------------------
(***************************************************************************)
(* The refund pipeline of one return case, from the commit of the finance  *)
(* approval that planned the refund to the provider evidence that settles  *)
(* it.  Its actors share a PostgreSQL database (READ COMMITTED) and reach  *)
(* the payment provider by HTTP:                                           *)
(*                                                                         *)
(*   - outbox workers claim the dispatch events under a lease, post the    *)
(*     refund and record its outcome (services/worker.py, outbox.py);      *)
(*   - the provider keeps at most one refund for an idempotency key and    *)
(*     announces it by webhook (fake_payment/app.py);                      *)
(*   - the API applies webhooks (services/webhooks.py);                    *)
(*   - finance users reconcile doubtful refunds against the provider and   *)
(*     retry failed ones (services/reconciliation.py, refunds.py).         *)
(*                                                                         *)
(* A transaction is a read step followed by a commit step, so that other   *)
(* transactions commit in between.  The ORM writes, at a flush, only the   *)
(* columns whose new value differs from the value the session loaded: that *)
(* is Flush.  Only the case row is compared and swapped; the rows of the   *)
(* attempt and of the event are overwritten.                               *)
(***************************************************************************)
EXTENDS Naturals, ReturnStates

CONSTANTS
    Workers,              \* worker processes
    Users,                \* finance users at their desks
    MaxDispatchAttempts,  \* settings.max_dispatch_attempts
    MaxEvents,            \* bound: the planned dispatch and its manual retries
    MaxHooks,             \* bound: webhook events the provider sends
    MaxCopies,            \* bound: deliveries of one webhook event
    MaxFaults,            \* bound: crashes, leases lost while held, aborted requests
    NewStatuses,          \* statuses a provider may give a refund it accepts
    MayContradict         \* may a provider's evidence contradict the intent?

ASSUME BoundsAssumption ==
    /\ MaxDispatchAttempts \in Nat \ {0}
    /\ MaxEvents \in Nat \ {0}
    /\ MaxHooks \in Nat
    /\ MaxCopies \in Nat \ {0}
    /\ MaxFaults \in Nat

\* The fake provider answers "succeeded" only; a real one may also accept a
\* refund and settle it later.
ASSUME ProviderAssumption ==
    /\ NewStatuses \subseteq {"succeeded", "pending"}
    /\ NewStatuses # {}
    /\ MayContradict \in BOOLEAN

VARIABLES
    case,      \* row of return_cases: status and version
    attempt,   \* row of refund_attempts: its status
    event,     \* rows of outbox_events
    provider,  \* the refund the provider keeps under the attempt's key
    late,      \* requests given up by the client that may still reach the provider
    hook,      \* webhook events the provider sent
    receipts,  \* rows of webhook_receipts
    work,      \* what each worker is doing
    desk,      \* what each finance user is doing
    faults     \* faults so far

vars == <<case, attempt, event, provider, late, hook, receipts, work, desk, faults>>

EventIds == 1 .. MaxEvents
HookIds  == 1 .. MaxHooks

CaseRow  == [status : ReturnStatus, version : Nat]
EventRow == [status : {"absent", "pending", "processing", "done", "dead"},
             lease : {"null", "live", "expired"}, attempts : Nat]
ProviderRow == [status : {"absent", "pending", "succeeded", "declined"},
                executed : Nat]
Says     == {"pending", "succeeded", "declined", "contradiction"}
HookRow  == [phase : {"unused", "sent", "reading"}, copies : Nat,
             says : Says, saw : RefundAttemptStatus]

Replies == {"none", "refused", "silent", "row", "contradiction"}
Task == [pc : {"idle", "claimed", "opened", "closing", "dispatching", "posting",
               "answered", "refreshing", "refreshed", "flushed"},
         batch : SUBSET EventIds, event : EventIds, reply : Replies,
         sawEvent : EventRow, sawAttempt : RefundAttemptStatus, sawCase : CaseRow]
Errand == [op : {"idle", "opening", "looking", "deciding", "retrying"},
           sawCase : CaseRow, sawAttempt : RefundAttemptStatus,
           found : {"absent"} \cup Says]

\* Every row of the database and every record of a process keeps its type: the
\* status columns are plain strings, which nothing but the code that writes them
\* keeps within the words the queries know.
TypeOK ==
    /\ case \in CaseRow
    /\ attempt \in RefundAttemptStatus
    /\ event \in [EventIds -> EventRow]
    /\ provider \in ProviderRow
    /\ late \in Nat
    /\ hook \in [HookIds -> HookRow]
    /\ receipts \in SUBSET HookIds
    /\ work \in [Workers -> Task]
    /\ desk \in [Users -> Errand]
    /\ faults \in Nat

-----------------------------------------------------------------------------
(***************************************************************************)
(* Initial state: approve_refund has committed.  The case is pending, its  *)
(* attempt is planned and one dispatch event waits in the outbox.          *)
(***************************************************************************)
PlannedCase == [status |-> "refund_pending", version |-> 0]
NoEvent  == [status |-> "absent", lease |-> "null", attempts |-> 0]
NewEvent == [NoEvent EXCEPT !.status = "pending"]

NoTask == [pc |-> "idle", batch |-> {}, event |-> 1, reply |-> "none",
           sawEvent |-> NoEvent, sawAttempt |-> "planned", sawCase |-> PlannedCase]
NoErrand == [op |-> "idle", sawCase |-> PlannedCase, sawAttempt |-> "planned",
             found |-> "absent"]

Init ==
    /\ case = PlannedCase
    /\ attempt = "planned"
    /\ event = [e \in EventIds |-> IF e = 1 THEN NewEvent ELSE NoEvent]
    /\ provider = [status |-> "absent", executed |-> 0]
    /\ late = 0
    /\ hook = [h \in HookIds |-> [phase |-> "unused", copies |-> 0,
                                  says |-> "succeeded", saw |-> "planned"]]
    /\ receipts = {}
    /\ work = [w \in Workers |-> NoTask]
    /\ desk = [u \in Users |-> NoErrand]
    /\ faults = 0

-----------------------------------------------------------------------------
(***************************************************************************)
(* Database writes.                                                        *)
(***************************************************************************)

\* What a column holds after a session that loaded `loaded' sets it to `new'.
Flush(stored, loaded, new) == IF new = loaded THEN stored ELSE new

\* Mutated form: a dead letter is given the word of a failed attempt, which no
\* query of the outbox knows.
ReleasedMisnamed(row, loaded, status) ==
    [row EXCEPT !.status = Flush(@, loaded.status,
                                 IF status = "dead" THEN "failed" ELSE status),
                !.lease  = Flush(@, loaded.lease, "null")]

\* mark_done, reschedule and dead_letter: a status and no lease.
Released(row, loaded, status) ==
    [row EXCEPT !.status = Flush(@, loaded.status, status),
                !.lease  = Flush(@, loaded.lease, "null")]

WriteEvent(e, loaded, status) ==
    event' = [event EXCEPT ![e] = Released(event[e], loaded, status)]

\* Mutated form: the row is overwritten without comparing its version.
CasTransitionUnchecked(saw, target) ==
    /\ target \in TRANSITIONS[saw.status]
    /\ case' = [status |-> target, version |-> saw.version + 1]

\* Mutated form: nobody looks whether the swap hit a row.
CasTransitionUnnoticed(saw, target) ==
    /\ target \in TRANSITIONS[saw.status]
    /\ case' = IF case = saw THEN [status |-> target, version |-> saw.version + 1] ELSE case

\* One compare-and-swap of the case the session loaded as `saw'.
CasTransition(saw, target) ==
    /\ target \in TRANSITIONS[saw.status]
    /\ case = saw
    /\ case' = [status |-> target, version |-> saw.version + 1]

MarkUnknownCase(saw) ==
    IF saw.status = "refund_pending"
    THEN CasTransition(saw, "refund_unknown") ELSE UNCHANGED case

MarkManual(saw) ==
    IF saw.status \in Doubtful
    THEN CasTransition(saw, "needs_reconciliation") ELSE UNCHANGED case

\* Mutated form: a case on the finance desk is not settled by evidence.
MarkSuccessCaseNotFromDesk(saw) ==
    IF saw.status \in Doubtful
    THEN CasTransition(saw, "refunded") ELSE UNCHANGED case

MarkSuccessCase(saw) ==
    IF saw.status \in Unsettled
    THEN CasTransition(saw, "refunded") ELSE UNCHANGED case

\* mark_unknown and then mark_manual_reconciliation_needed, in one transaction.
MarkUnknownThenManual(saw) ==
    IF saw.status = "refund_pending"
    THEN /\ case = saw
         /\ case' = [status |-> "needs_reconciliation", version |-> saw.version + 2]
    ELSE MarkManual(saw)

\* Mutated form: a refusal or contradicting evidence leaves the attempt as it is.
OutcomeUnrecorded(reply) ==
    CASE reply \in {"refused", "contradiction"} -> "dispatching"
      [] reply = "row" -> "succeeded"
      [] OTHER         -> "unknown"

\* The status a worker's transaction flushes to the attempt for each reply.
Outcome(reply) ==
    CASE reply = "refused" -> "failed"
      [] reply = "row"     -> "succeeded"
      [] OTHER             -> "unknown"

\* Between the flush and the commit a worker holds the lock of the attempt row.
\* When its status stays the same a flush may still rewrite a text column; not
\* taking the lock for that only adds interleavings.
WritesAttempt(t) == t.sawAttempt # Outcome(t.reply)
AttemptLocked == \E w \in Workers : work[w].pc = "flushed" /\ WritesAttempt(work[w])

-----------------------------------------------------------------------------
(***************************************************************************)
(* The payment provider.                                                   *)
(***************************************************************************)

\* Mutated form: the key is not looked up before a row is inserted.
StoreRefundAgain ==
    \E s \in NewStatuses :
        provider' = [status |-> s,
                     executed |-> provider.executed + (IF s = "succeeded" THEN 1 ELSE 0)]

\* _store: the row kept under the key, or a new one.
StoreRefund ==
    IF provider.status = "absent"
    THEN \E s \in NewStatuses :
            provider' = [status |-> s,
                         executed |-> provider.executed + (IF s = "succeeded" THEN 1 ELSE 0)]
    ELSE UNCHANGED provider

Evidence(status) == {status} \cup (IF MayContradict THEN {"contradiction"} ELSE {})

\* Every request the provider processes may announce the row by one new event.
SendWebhook ==
    \/ UNCHANGED hook
    \/ \E h \in HookIds, n \in 1 .. MaxCopies, says \in Evidence(provider'.status) :
          /\ hook[h].phase = "unused"
          /\ \A g \in HookIds : g < h => hook[g].phase # "unused"
          /\ hook' = [hook EXCEPT ![h] = [@ EXCEPT !.phase = "sent", !.copies = n,
                                                   !.says = says]]

\* A request whose client stopped waiting reaches the provider after all.
LateRequest ==
    /\ late > 0
    /\ late' = late - 1
    /\ StoreRefund
    /\ SendWebhook
    /\ UNCHANGED <<case, attempt, event, receipts, work, desk, faults>>

\* A provider that accepted a refund as pending executes it or declines it.
ProviderSettles ==
    /\ provider.status = "pending"
    /\ provider' \in {[status |-> "succeeded", executed |-> provider.executed + 1],
                      [provider EXCEPT !.status = "declined"]}
    /\ SendWebhook
    /\ UNCHANGED <<case, attempt, event, late, receipts, work, desk, faults>>

-----------------------------------------------------------------------------
(***************************************************************************)
(* Workers: run_once, process_event_once and process_event.                *)
(***************************************************************************)
Become(w, t) == work' = [work EXCEPT ![w] = t]

\* The task once its event is finished with: the next of the batch, or none.
NextTask(t) == [NoTask EXCEPT !.batch = t.batch,
                              !.pc = IF t.batch = {} THEN "idle" ELSE "claimed"]

Claimable(e) ==
    \/ event[e].status = "pending"
    \/ event[e].status = "processing" /\ event[e].lease = "expired"

\* Mutated form: taking an event is not counted as an attempt.
ClaimUncounted(w) ==
    /\ work[w].pc = "idle"
    /\ \E batch \in SUBSET {e \in EventIds : Claimable(e)} :
          /\ batch # {}
          /\ event' = [e \in EventIds |->
                         IF e \in batch
                         THEN [event[e] EXCEPT !.status = "processing", !.lease = "live"]
                         ELSE event[e]]
          /\ Become(w, [NoTask EXCEPT !.pc = "claimed", !.batch = batch])
    /\ UNCHANGED <<case, attempt, provider, late, hook, receipts, desk, faults>>

\* claim_batch, claim_event: SKIP LOCKED leaves out rows others are writing.
Claim(w) ==
    /\ work[w].pc = "idle"
    /\ \E batch \in SUBSET {e \in EventIds : Claimable(e)} :
          /\ batch # {}
          /\ event' = [e \in EventIds |->
                         IF e \in batch
                         THEN [status |-> "processing", lease |-> "live",
                               attempts |-> event[e].attempts + 1]
                         ELSE event[e]]
          /\ Become(w, [NoTask EXCEPT !.pc = "claimed", !.batch = batch])
    /\ UNCHANGED <<case, attempt, provider, late, hook, receipts, desk, faults>>

\* A new session reads the event; it asks whether it is processing, not by whom.
Open(w) ==
    /\ work[w].pc = "claimed"
    /\ \E e \in work[w].batch :
          /\ \A f \in work[w].batch : e <= f
          /\ LET rest == [work[w] EXCEPT !.batch = @ \ {e}]
             IN  IF event[e].status = "processing"
                 THEN Become(w, [rest EXCEPT !.pc = "opened", !.event = e,
                                             !.sawEvent = event[e]])
                 ELSE Become(w, NextTask(rest))
    /\ UNCHANGED <<case, attempt, event, provider, late, hook, receipts, desk, faults>>

ReadAttempt(w) ==
    /\ work[w].pc = "opened"
    /\ Become(w, [work[w] EXCEPT
                    !.sawAttempt = attempt,
                    !.pc = IF attempt \in {"succeeded", "unknown"}
                           THEN "closing" ELSE "dispatching"])
    /\ UNCHANGED <<case, attempt, event, provider, late, hook, receipts, desk, faults>>

\* Nothing to dispatch, or the timed out refund is already confirmed.
CloseEvent(w) ==
    /\ work[w].pc = "closing"
    /\ WriteEvent(work[w].event, work[w].sawEvent, "done")
    /\ Become(w, NextTask(work[w]))
    /\ UNCHANGED <<case, attempt, provider, late, hook, receipts, desk, faults>>

\* mark_dispatching, committed before the network is crossed.
Dispatch(w) ==
    /\ work[w].pc = "dispatching"
    /\ ~AttemptLocked
    /\ attempt' = Flush(attempt, work[w].sawAttempt, "dispatching")
    /\ Become(w, [work[w] EXCEPT !.pc = "posting", !.sawEvent = NoEvent,
                                 !.sawAttempt = "planned"])
    /\ UNCHANGED <<case, event, provider, late, hook, receipts, desk, faults>>

Answer(w, reply) == Become(w, [work[w] EXCEPT !.pc = "answered", !.reply = reply])

\* A 503: the provider refused the request before processing it.
ProviderRefuses(w) ==
    /\ work[w].pc = "posting"
    /\ Answer(w, "refused")
    /\ UNCHANGED <<case, attempt, event, provider, late, hook, receipts, desk, faults>>

\* The row comes back; its status is not looked at by the worker.
ProviderAnswers(w) ==
    /\ work[w].pc = "posting"
    /\ StoreRefund
    /\ SendWebhook
    /\ \E reply \in Evidence("row") : Answer(w, reply)
    /\ UNCHANGED <<case, attempt, event, late, receipts, desk, faults>>

\* Timeout or network error: the request may be lost or still on its way.
NoAnswer(w) ==
    /\ work[w].pc = "posting"
    /\ late' \in {late, late + 1}
    /\ Answer(w, "silent")
    /\ UNCHANGED <<case, attempt, event, provider, hook, receipts, desk, faults>>

RefreshEvent(w) ==
    /\ work[w].pc = "answered"
    /\ Become(w, [work[w] EXCEPT !.pc = "refreshing",
                                 !.sawEvent = event[work[w].event]])
    /\ UNCHANGED <<case, attempt, event, provider, late, hook, receipts, desk, faults>>

\* Only the branch of the timeout asks whether success is already recorded.
RefreshAttempt(w) ==
    /\ work[w].pc = "refreshing"
    /\ Become(w, [work[w] EXCEPT
                    !.sawAttempt = attempt,
                    !.pc = IF work[w].reply = "silent" /\ attempt = "succeeded"
                           THEN "closing" ELSE "refreshed"])
    /\ UNCHANGED <<case, attempt, event, provider, late, hook, receipts, desk, faults>>

\* The attempt is flushed, which locks its row, and the case is read.
FlushAttempt(w) ==
    /\ work[w].pc = "refreshed"
    /\ WritesAttempt(work[w]) => ~AttemptLocked
    /\ Become(w, [work[w] EXCEPT !.pc = "flushed", !.sawCase = case])
    /\ UNCHANGED <<case, attempt, event, provider, late, hook, receipts, desk, faults>>

\* The transaction that records the outcome commits.
Commit(w, reply, eventStatus) ==
    /\ work[w].pc = "flushed"
    /\ work[w].reply = reply
    /\ attempt' = Flush(attempt, work[w].sawAttempt, Outcome(reply))
    /\ WriteEvent(work[w].event, work[w].sawEvent, eventStatus)
    /\ Become(w, NextTask(work[w]))
    /\ UNCHANGED <<provider, late, hook, receipts, desk, faults>>

Exhausted(w) == work[w].sawEvent.attempts >= MaxDispatchAttempts

CommitReschedule(w) ==
    /\ ~Exhausted(w)
    /\ Commit(w, "refused", "pending")
    /\ UNCHANGED case

CommitExhausted(w) ==
    /\ Exhausted(w)
    /\ Commit(w, "refused", "dead")
    /\ MarkManual(work[w].sawCase)

\* Mutated form: a missing answer is taken for a success.
CommitUnknownAsSuccess(w) ==
    /\ Commit(w, "silent", "done")
    /\ MarkSuccessCase(work[w].sawCase)

CommitUnknown(w) ==
    /\ Commit(w, "silent", "done")
    /\ MarkUnknownCase(work[w].sawCase)

CommitSuccess(w) ==
    /\ Commit(w, "row", "done")
    /\ MarkSuccessCase(work[w].sawCase)

CommitContradiction(w) ==
    /\ Commit(w, "contradiction", "dead")
    /\ MarkUnknownThenManual(work[w].sawCase)

\* The version conflict of mark_success is a Conflict: it takes the branch of
\* contradicting evidence, where the session believes its own case is refunded.
CommitLostRace(w) ==
    /\ work[w].pc = "flushed"
    /\ work[w].reply = "row"
    /\ work[w].sawCase.status \in Unsettled
    /\ case # work[w].sawCase
    /\ work[w].sawAttempt = "succeeded" => ~AttemptLocked
    /\ attempt' = "unknown"
    /\ WriteEvent(work[w].event, work[w].sawEvent, "dead")
    /\ Become(w, NextTask(work[w]))
    /\ UNCHANGED <<case, provider, late, hook, receipts, desk, faults>>

\* In the other branches a lost compare-and-swap rolls everything back.
RollBack(w) ==
    /\ work[w].pc = "flushed"
    /\ work[w].reply # "row"
    /\ case # work[w].sawCase
    /\ \/ work[w].sawCase.status = "refund_pending"
       \/ work[w].sawCase.status = "refund_unknown" /\ work[w].reply # "silent"
    /\ work[w].reply = "refused" => Exhausted(w)
    /\ Become(w, NextTask(work[w]))
    /\ UNCHANGED <<case, attempt, event, provider, late, hook, receipts, desk, faults>>

\* The process dies with its batch, or an exception abandons one event of it.
WorkerFails(w) ==
    /\ work[w].pc # "idle"
    /\ faults < MaxFaults
    /\ faults' = faults + 1
    /\ \E t \in {NoTask, NextTask(work[w])} : Become(w, t)
    /\ late' \in IF work[w].pc = "posting" THEN {late, late + 1} ELSE {late}
    /\ UNCHANGED <<case, attempt, event, provider, hook, receipts, desk>>

Holders(e) ==
    {w \in Workers : \/ e \in work[w].batch
                     \/ work[w].pc \notin {"idle", "claimed"} /\ work[w].event = e}

\* Time passes.  A lease that runs out while its worker still works is a fault.
ExpireLease(e) ==
    /\ event[e].status = "processing"
    /\ event[e].lease = "live"
    /\ event' = [event EXCEPT ![e].lease = "expired"]
    /\ IF Holders(e) = {} THEN UNCHANGED faults
       ELSE faults < MaxFaults /\ faults' = faults + 1
    /\ UNCHANGED <<case, attempt, provider, late, hook, receipts, work, desk>>

-----------------------------------------------------------------------------
(***************************************************************************)
(* Webhooks: process_payment_webhook.  Two deliveries of one event exclude *)
(* each other by the unique index of the receipts, so that the second one  *)
(* waits for the first and then finds its receipt.                         *)
(***************************************************************************)
\* A post of the event is still to come: the provider sends it once or twice, and
\* keeps no record of it that would make it send it again.
Deliverable(h) == hook[h].phase = "sent" /\ hook[h].copies > 0

Delivered(row) == [row EXCEPT !.phase = "sent", !.copies = @ - 1, !.saw = "planned"]

Consumed(h) == hook' = [hook EXCEPT ![h] = Delivered(hook[h])]

HookReplayed(h) ==
    /\ Deliverable(h)
    /\ h \in receipts
    /\ Consumed(h)
    /\ UNCHANGED <<case, attempt, event, provider, late, receipts, work, desk, faults>>

HookRead(h) ==
    /\ Deliverable(h)
    /\ h \notin receipts
    /\ hook' = [hook EXCEPT ![h] = [@ EXCEPT !.phase = "reading", !.saw = attempt]]
    /\ UNCHANGED <<case, attempt, event, provider, late, receipts, work, desk, faults>>

\* The receipt and, for a success, mark_success; any other status is only noted.
HookCommit(h) ==
    /\ hook[h].phase = "reading"
    /\ hook[h].says # "contradiction"
    /\ receipts' = receipts \cup {h}
    /\ IF hook[h].says = "succeeded"
       THEN /\ hook[h].saw # "succeeded" => ~AttemptLocked
            /\ attempt' = Flush(attempt, hook[h].saw, "succeeded")
            /\ MarkSuccessCase(case)
       ELSE UNCHANGED <<case, attempt>>
    /\ Consumed(h)
    /\ UNCHANGED <<event, provider, late, work, desk, faults>>

\* The delivery is lost, or answered 409 and rolled back with its receipt.  The
\* provider does not send it again.
HookLost(h) ==
    /\ hook[h].phase = "reading" \/ Deliverable(h)
    /\ Consumed(h)
    /\ UNCHANGED <<case, attempt, event, provider, late, receipts, work, desk, faults>>

-----------------------------------------------------------------------------
(***************************************************************************)
(* Finance users: reconcile_unknown_refund and retry_failed_refund.        *)
(***************************************************************************)
Turn(u, errand) == desk' = [desk EXCEPT ![u] = errand]

BeginReconcile(u) ==
    /\ desk[u].op = "idle"
    /\ case.status \in {"refund_unknown", "needs_reconciliation"}
    /\ Turn(u, [NoErrand EXCEPT !.op = "opening", !.sawCase = case])
    /\ UNCHANGED <<case, attempt, event, provider, late, hook, receipts, work, faults>>

ReadForReconcile(u) ==
    /\ desk[u].op = "opening"
    /\ Turn(u, [desk[u] EXCEPT !.op = "looking", !.sawAttempt = attempt])
    /\ UNCHANGED <<case, attempt, event, provider, late, hook, receipts, work, faults>>

\* Mutated form: a 404 of the provider is read as its row.
LookUpWithoutNotFound(u) ==
    /\ desk[u].op = "looking"
    /\ Turn(u, [desk[u] EXCEPT !.op = "deciding", !.found = "succeeded"])
    /\ UNCHANGED <<case, attempt, event, provider, late, hook, receipts, work, faults>>

\* lookup_by_idempotency_key, with the two rows loaded before it.
LookUp(u) ==
    /\ desk[u].op = "looking"
    /\ \E found \in IF provider.status = "absent" THEN {"absent"}
                    ELSE Evidence(provider.status) :
          Turn(u, [desk[u] EXCEPT !.op = "deciding", !.found = found])
    /\ UNCHANGED <<case, attempt, event, provider, late, hook, receipts, work, faults>>

Decide(u, found) ==
    /\ desk[u].op = "deciding"
    /\ desk[u].found = found
    /\ Turn(u, NoErrand)
    /\ UNCHANGED <<event, provider, late, hook, receipts, work, faults>>

SettleFound(u) ==
    /\ Decide(u, "succeeded")
    /\ desk[u].sawAttempt # "succeeded" => ~AttemptLocked
    /\ attempt' = Flush(attempt, desk[u].sawAttempt, "succeeded")
    /\ MarkSuccessCase(desk[u].sawCase)

\* Mutated form: a refund the provider has not finished counts as absent.
SettleNonTerminalAsAbsent(u) ==
    /\ \E found \in {"pending", "declined"} : Decide(u, found)
    /\ MarkManual(desk[u].sawCase)
    /\ attempt' = IF desk[u].sawAttempt = "unknown" THEN "failed" ELSE attempt

SettleNonTerminal(u) ==
    /\ \E found \in {"pending", "declined"} : Decide(u, found)
    /\ MarkManual(desk[u].sawCase)
    /\ UNCHANGED attempt

\* mark_authoritatively_not_found for an attempt loaded as unknown.
SettleAbsent(u) ==
    /\ Decide(u, "absent")
    /\ IF desk[u].sawAttempt = "unknown"
       THEN ~AttemptLocked /\ attempt' = "failed"
       ELSE UNCHANGED attempt
    /\ MarkManual(desk[u].sawCase)

BeginRetry(u) ==
    /\ desk[u].op = "idle"
    /\ case.status = "needs_reconciliation"
    /\ attempt = "failed"
    /\ \E e \in EventIds : event[e].status = "absent"   \* bound
    /\ Turn(u, [NoErrand EXCEPT !.op = "retrying", !.sawCase = case,
                                !.sawAttempt = attempt])
    /\ UNCHANGED <<case, attempt, event, provider, late, hook, receipts, work, faults>>

\* Mutated form: the retry is recorded but not enqueued.
CommitRetryNotEnqueued(u) ==
    /\ desk[u].op = "retrying"
    /\ ~AttemptLocked
    /\ attempt' = Flush(attempt, desk[u].sawAttempt, "planned")
    /\ CasTransition(desk[u].sawCase, "refund_pending")
    /\ Turn(u, NoErrand)
    /\ UNCHANGED <<event, provider, late, hook, receipts, work, faults>>

\* A new outbox event is enqueued with the case back to pending.
CommitRetry(u) ==
    /\ desk[u].op = "retrying"
    /\ ~AttemptLocked
    /\ \E e \in EventIds :
          /\ event[e].status = "absent"
          /\ \A f \in EventIds : f < e => event[f].status # "absent"
          /\ event' = [event EXCEPT ![e] = NewEvent]
    /\ attempt' = Flush(attempt, desk[u].sawAttempt, "planned")
    /\ CasTransition(desk[u].sawCase, "refund_pending")
    /\ Turn(u, NoErrand)
    /\ UNCHANGED <<provider, late, hook, receipts, work, faults>>

LosesRace(u) ==
    /\ case # desk[u].sawCase
    /\ \/ desk[u].op = "retrying"
       \/ /\ desk[u].op = "deciding"
          /\ desk[u].found = "succeeded" \/ desk[u].sawCase.status = "refund_unknown"

\* A request that ends without a commit: contradicting evidence or a lost
\* compare-and-swap, the bound on events, or a failure such as a timeout.
EndsInError(u) ==
    /\ desk[u].op # "idle"
    /\ \/ /\ \/ desk[u].op = "deciding" /\ desk[u].found = "contradiction"
             \/ LosesRace(u)
             \/ desk[u].op = "retrying" /\ \A e \in EventIds : event[e].status # "absent"
          /\ UNCHANGED faults
       \/ faults < MaxFaults /\ faults' = faults + 1
    /\ Turn(u, NoErrand)
    /\ UNCHANGED <<case, attempt, event, provider, late, hook, receipts, work>>

-----------------------------------------------------------------------------
\* A refunded case asks nothing more of the pipeline.
Settled == case.status = "refunded" /\ UNCHANGED vars

WorkerStep(w) ==
    \/ Claim(w) \/ Open(w) \/ ReadAttempt(w) \/ CloseEvent(w) \/ Dispatch(w)
    \/ ProviderRefuses(w) \/ ProviderAnswers(w) \/ NoAnswer(w)
    \/ RefreshEvent(w) \/ RefreshAttempt(w) \/ FlushAttempt(w)
    \/ CommitReschedule(w) \/ CommitExhausted(w) \/ CommitUnknown(w)
    \/ CommitSuccess(w) \/ CommitContradiction(w) \/ CommitLostRace(w) \/ RollBack(w)

HookStep(h) == HookReplayed(h) \/ HookRead(h) \/ HookCommit(h) \/ HookLost(h)

DeskStep(u) ==
    \/ BeginReconcile(u) \/ ReadForReconcile(u) \/ LookUp(u)
    \/ SettleFound(u) \/ SettleNonTerminal(u) \/ SettleAbsent(u)
    \/ BeginRetry(u) \/ CommitRetry(u) \/ EndsInError(u)

Next ==
    \/ \E w \in Workers : WorkerStep(w) \/ WorkerFails(w)
    \/ \E e \in EventIds : ExpireLease(e)
    \/ LateRequest \/ ProviderSettles
    \/ \E h \in HookIds : HookStep(h)
    \/ \E u \in Users : DeskStep(u)
    \/ Settled

Spec == Init /\ [][Next]_vars

(***************************************************************************)
(* Fairness.  A worker loops for ever and its client gives up after three  *)
(* seconds, so that each of its steps is taken once it stays possible; the *)
(* clock runs out every lease nobody works under.  FairDeskSpec adds that  *)
(* finance users take up what their page offers for a doubtful refund, and *)
(* that a request once begun ends.  A request the page does not offer,     *)
(* such as a reconcile of a failed attempt, may be made but need not be.   *)
(***************************************************************************)
FairSpec ==
    /\ Spec
    /\ \A w \in Workers : WF_vars(WorkerStep(w))
    /\ \A e \in EventIds : WF_vars(Holders(e) = {} /\ ExpireLease(e))

OfferedDeskStep(u) ==
    \/ attempt = "unknown" /\ BeginReconcile(u)
    \/ BeginRetry(u)
    \/ desk[u].op # "idle" /\ DeskStep(u)

FairDeskSpec ==
    /\ FairSpec
    /\ \A u \in Users : WF_vars(OfferedDeskStep(u))

-----------------------------------------------------------------------------
(***************************************************************************)
(* Properties.                                                             *)
(***************************************************************************)

\* The money moves at most once, however many workers post the refund, time
\* out, crash, and post it again, and however often finance retries it.
SingleEffect == provider.executed <= 1

\* A case is refunded only when the provider has executed the refund: timeouts,
\* late requests, webhooks and lookups never add up to a refund nobody made.
RefundedIsBacked == case.status = "refunded" => provider.status = "succeeded"

\* Whatever an actor holds as evidence of the refund is true at the provider
\* while it holds it, and a refunded case is known to the provider: evidence
\* may be late, duplicated or lost, but it is never false.
EvidenceIsTrue ==
    /\ provider.executed = IF provider.status = "succeeded" THEN 1 ELSE 0
    /\ NewStatuses = {"succeeded"} => provider.status \in {"absent", "succeeded"}
    /\ case.status = "refunded" => provider.status # "absent"
    /\ \A w \in Workers : work[w].reply = "row" => provider.status # "absent"
    /\ \A h \in HookIds : (hook[h].phase # "unused" /\ hook[h].says = "succeeded")
                             => provider.status = "succeeded"
    /\ \A u \in Users : desk[u].found = "succeeded" => provider.status = "succeeded"

\* A delivery being processed has not been counted yet.
HooksCounted == \A h \in HookIds : hook[h].phase = "reading" => hook[h].copies > 0

\* The case stays in the part of the state machine the pipeline is about.
InPipeline == case.status \in Unsettled \cup {"refunded"}

\* The inductive invariant of the safety proofs.
IInv == TypeOK /\ InPipeline /\ HooksCounted /\ EvidenceIsTrue

Active(e) == event[e].status \in {"pending", "processing"}

\* A case the workers are responsible for is never forgotten: while it is
\* pending the outbox holds an event that is or can be claimed.  The event and
\* the case are written by separate statements of transactions that may abort.
PendingHasWork == case.status = "refund_pending" => \E e \in EventIds : Active(e)

\* The case and its attempt tell the same story, although the case is compared
\* and swapped while the attempt is overwritten: a pending case never hides an
\* unknown or successful attempt, and a doubtful one has no attempt under way.
\* The exception: refund_unknown belongs to an unknown attempt, yet its attempt
\* may be failed when a whole retry of a second finance user fits between the
\* two reads of a reconcile.
BooksAgree ==
    /\ case.status = "refund_pending" => attempt \in {"planned", "dispatching", "failed"}
    /\ case.status \in {"refund_unknown", "needs_reconciliation"}
          => attempt \in {"unknown", "failed"}

\* allowed_actions, for a finance user and the statuses of the pipeline.
allowed_actions ==
    {a \in {"provider_reconcile", "retry_failed_refund", "mark_reconciled"} :
        \/ /\ case.status \in {"refund_unknown", "needs_reconciliation"}
           /\ \/ a = "provider_reconcile" /\ attempt = "unknown"
              \/ a = "retry_failed_refund" /\ attempt = "failed"
        \/ case.status = "refunded" /\ a = "mark_reconciled"}

\* Once the workers have let go of a case it always has a next action on the
\* finance desk: no order of dispatches, failures and settlements strands it.
NextActionExists ==
    (/\ case.status # "refund_pending"
     /\ \A e \in EventIds : ~Active(e)
     /\ \A w \in Workers : work[w].pc = "idle") => allowed_actions # {}

\* The status of the case changes only along the declared state machine and with
\* a newer version, whichever stale copy of the case the writer had loaded.
CaseMovesForward ==
    [][case' # case => /\ case'.status \in TRANSITIONS[case.status]
                       /\ case'.version > case.version]_vars

\* An unknown outcome is left only by evidence: a recorded success, or the
\* provider's answer to a finance user that it knows of no such refund.
UnknownNeedsEvidence ==
    [][attempt = "unknown" /\ attempt' # "unknown" =>
          \/ attempt' = "succeeded"
          \/ /\ attempt' = "failed"
             /\ \E u \in Users : desk[u].found = "absent" /\ desk'[u] # desk[u]]_vars

\* A recorded success is never replaced by a later outcome.
SuccessIsFinal == [][attempt = "succeeded" => attempt' = "succeeded"]_vars

\* A worker records a refund as failed only while the provider has not made it.
FailureIsProven ==
    [][(attempt' = "failed" /\ attempt # "failed" /\ work' # work)
          => provider.executed = 0]_vars

\* Sooner or later every case leaves the hands of the workers, although workers
\* crash, lose their leases and get no answers: each event is reclaimed, closed,
\* rescheduled a bounded number of times or handed to finance.
PendingIsLeft == (case.status = "refund_pending") ~> (case.status # "refund_pending")

\* Every outbox event is finally done or dead.
OutboxDrains == \A e \in EventIds : Active(e) ~> ~Active(e)

\* The attempt is failed and its event closed, after as many retries as the bound
\* allows.  The page offers nothing but one more retry.
RetriesRefused ==
    /\ attempt = "failed"
    /\ \A e \in EventIds : event[e].status \in {"done", "dead"}

\* A refund the provider made is finally recorded on the case, even when its
\* answer and all its webhooks are lost, if finance does what its page offers.
\* The exception: a refund that was made, then refused (RefusedRetry shows how),
\* stays open for as long as the provider refuses every retry.
Converges ==
    (provider.status = "succeeded") ~> (case.status = "refunded" \/ RetriesRefused)

\* The pipeline keeps the promise of RefundPromise.
Promise == INSTANCE RefundPromise WITH payments <- provider.executed,
                                       status <- case.status
KeepsPromise == Promise!PromiseSpec
=============================================================================
