# ReturnOps-Mini in TLA+

Specifications, model-checking runs and machine-checked proofs for the return
and refund system in `src/` (Python: FastAPI, SQLAlchemy, PostgreSQL, an outbox
worker and a payment provider; a React page and n8n workflows as clients).  A
return case is opened, inspected and approved by people whose requests overlap;
the refund is made by a worker that calls a payment provider over a network
that loses answers; clients repeat what they get no answer to.

## 1. Inventory

| component | state | operations | hard behaviour | what makes it correct |
|---|---|---|---|---|
| domain tables (`domain/states.py`) | none | declared transitions, roles, system targets, amounts | none | every move of a case is declared |
| case store (`services/case_store.py`) | `return_case` rows with a version | create, compare-and-swap, queries | concurrent writers with stale copies | status and version move together, forwards |
| lifecycle and four-eyes approval (`services/returns.py`, `refunds.py`) | case, `approval` rows | authorize, receive, inspect, approve, reject, reconcile, close | two approvers at once, one approver twice | two people for a high refund, at most one plan |
| refund plan and retry (`services/refunds.py`) | `refund_attempt`, `outbox_event` | plan, retry | a retry that races a late answer | a pending case always has an event |
| outbox and worker (`services/outbox.py`, `worker.py`) | `outbox_event` with a lease | claim, dispatch, record, reschedule, bury | lost leases, crashes, several workers, read-then-write | single effect, no unknown is retried blindly, the outbox drains |
| provider client and attempt (`services/payments.py`) | `refund_attempt` | post, look up, mark dispatching / failed / unknown / success / manual / absent | timeouts, late requests, contradicting evidence | refunded only on evidence |
| webhooks (`services/webhooks.py`) | `webhook_receipt` | receive, replay, refuse | lost, duplicated, early, late deliveries | one event acts once |
| reconciliation (`services/reconciliation.py`) | none of its own | look up and settle | rows held across an HTTP call | a doubtful refund converges |
| fake provider (`fake_payment/app.py`) | refunds by idempotency key | store, look up, announce | answers after the client gave up | at most one refund for a key |
| idempotency (`services/idempotency.py`, `api/routes.py`) | `idempotency_record` | claim, replay, complete | concurrent first use, roll-back | an operation commits once for a key |
| demo sessions (`services/demo_auth.py`) | a dictionary under a lock | issue, resolve, expire, revoke | resolve racing revoke | a revoked session is not revived |
| seed (`seed.py`) | users, samples, a credential file | seed, rotate | crash between file and commit, a rerun beside a system in use | the file holds a token that works, samples are neither duplicated nor brought back |
| operator queries (`services/operator_queries.py`) | none | allowed actions, attention list | rules written twice, a list that is cut | what is offered is accepted, every case is reached |
| audit trail (`services/audit.py`) | `audit_event` rows | one row a write, in its transaction | refused and lost writes | the rows retrace the life of the case |
| tenancy (`services/tenancy.py`, `api/deps.py`) | none | role and session checks | accounts that change during a request | authority is read, not remembered |
| routes, schemas, models, database | requests, rows | adapters | transaction boundaries | - |
| frontend, n8n workflows | a key per form, one cookie | submit, repeat, sign in and out | lost answers, one cookie for all tabs and requests | a repeated form goes through once |
| demo scenarios, fault lab, scripts | - | tooling | - | - |

They interact through one PostgreSQL database (READ COMMITTED, sessions that do
not flush before queries) and by HTTP: worker to provider, provider to webhook
endpoint, finance user to API to provider.  There is no shared memory between
processes.

`PROJECT.json` lists the components with their status, and under `hazards` each
place in the code where an order of steps is hard to test.

## 2. Modules and plan

| module | what it is | proofs | checked by |
|---|---|---|---|
| `ReturnStates` | statuses, declared transitions, roles, amounts | - | all |
| `RefundPipeline` | from the planned refund to its evidence | `RefundPipelineProofs`, `RefundWorkProofs`, `RefundDeskProofs` | `TwoDesks`, `TwoWorkers`, `Convergence`, and the three disagreements |
| `RefundPromise` | abstract: what the pipeline promises | | `TwoWorkers` |
| `CaseLifecycle` | the case as people move it | `CaseLifecycleProofs` | `FullStaff` |
| `RefundGate` | abstract: consents, one plan, a shut gate | | `FullStaff` |
| `Idempotency` | records of the API and the clients that repeat requests | `IdempotencyProofs` | `SameKey`, `PatientTabs` |
| `OnceOnly` | abstract: one effect a key, answers of it or pledges of it | | `SameKey` |
| `DemoSessions` | sessions in memory, the requests that use them, the browser's cookie | `DemoSessionsProofs` | `SharedCookie` |
| `DemoSeed` | the seed beside a system in use, and its file | `DemoSeedProofs` | `SeededAgain` |
| `OperatorViews` | the attention list | `OperatorViewsProofs` | `LongQueue` |

The `MC...` modules add a symmetry set or a small staff for TLC and nothing
else; `OperatorViews` needs neither.

How they compose: `CaseLifecycle` takes the refund between `refund_pending` and
`refunded` from `RefundPromise` (`PipelineStep` is a step of the promise,
together with the row and the trail), and `RefundPipeline` implements that
promise.  `OperatorViews` and `DemoSeed` take their moves from the transitions
of `ReturnStates`.  `Idempotency` leaves open which operation a key is for: each
command of the API on a case goes through the same claim.

Done: everything above.  Every safety invariant and every action property of the
passing runs is also a theorem; liveness stays with TLC.

## 3. The refund pipeline (`RefundPipeline`)

`RefundPipeline` follows one case from the commit of the approval that planned
its refund to the evidence that settles it.  Cases do not share rows, so one is
enough; what differs between cases is data.

| state | in the code |
|---|---|
| `case` | `return_case.status`, `.version` |
| `attempt` | `refund_attempt.status` |
| `event` | `outbox_event` rows: status, lease, attempts |
| `provider` | the provider's row under the attempt's key; `executed` counts the times money moved |
| `late` | requests whose client stopped waiting and that may still arrive |
| `hook`, `receipts` | webhook events on their way, `webhook_receipt` rows |
| `work` | each worker's position in `run_once` / `process_event` and the rows its session loaded |
| `desk` | each finance user's request and the rows its session loaded |
| `faults` | how many faults have happened |

A transaction that reads and later writes is two or more actions, and the rows
it read are kept in `sawCase`, `sawAttempt`, `sawEvent`.  The worker's path is

    Claim -> Open -> ReadAttempt -> Dispatch -> (provider) -> RefreshEvent
          -> RefreshAttempt -> FlushAttempt -> Commit...

with a commit in the code exactly at `Claim`, `Dispatch` and `Commit...`.  Two
facts about the ORM and the database decide most of what follows:

- **`Flush`.** A session writes, at a flush, the columns whose new value
  differs from the loaded one.  The attempt and the event have no version, so a
  write by a stale session overwrites.  From the flush to the commit the row is
  locked (`AttemptLocked`): others that write it wait.
- **`CasTransition`.** The case is updated where version and status still are
  the loaded ones.  A lost race raises `VersionConflict`: `RollBack` in a worker,
  409 for a webhook (`HookLost`) or a user (`EndsInError`) - except after
  `mark_success` in the worker, whose `except Conflict` catches it
  (`CommitLostRace`).

Provider and network: a post is refused before processing (503), answered,
or not answered; then it may still be processed later (`LateRequest`).
Every processed request may announce the refund by a webhook event that is
delivered up to `MaxCopies` times, in any order, or lost.  `NewStatuses` and
`MayContradict` say what kind of provider it is: the repository's own answers
`succeeded` only; a real one may accept a refund as pending and execute or
decline it later, or answer with another amount, currency or reference.

Faults: a process dies anywhere (`WorkerFails`), a lease ends while its holder
works (`ExpireLease`), a request ends in an error.  They share the budget
`MaxFaults`.  A lease nobody works under ends without a fault.

What is abstracted: `available_at` and back-off (a rescheduled event may be
claimed at any time), `limit` of a batch (any set of claimable events may be
claimed), error texts, audit rows, `dispatch_count`; the webhook transaction is
a read and a commit, its case being read at the commit; a retry reads the case
and the attempt in one step, as a change of either in between shows as a lost
compare-and-swap; two deliveries of one event exclude each other by the unique
index.  A database deadlock ends one transaction, like any other failure.
After `refunded` people reconcile and close the case; no step of the pipeline
writes a case then, and the model stops there (`Settled`).

### The abstract specification

`RefundPromise` has two variables, the number of payments and the status of the
case, and says: pay at most once, confirm only after paying, never leave
`refunded`; until then suspect, escalate and retry.  The pipeline implements it
with `payments <- provider.executed` and `status <- case.status`
(`KeepsPromise`).

## 4. The return lifecycle (`CaseLifecycle`)

One case, everybody who may act on it, and their requests.  A request is a
transaction under READ COMMITTED in two or three steps:

| action | code |
|---|---|
| `Create` | `create_case` |
| `Load` | the case read, the checks of role, transition, version and amount that need nothing else |
| `JudgeApproval` | the second read of `approve_refund`: the approvals given so far, and what it asks of them |
| `CommitTransition` | `authorize`, `receive`, `inspect`, `reject`, `reconcile`, `close_case` with `_cas_transition` |
| `CommitFirstApproval` | the first approval of a high refund: a row, and a new version under the same status |
| `CommitApproval` | the only or second approval and `_plan_refund`, which moves the case twice |
| `EndsInError` | every refusal after the load, a lost compare-and-swap, a unique key, a crash |
| `Restart` | the API with another `high_value_threshold` |
| `PipelineStep` | the pipeline, as `RefundPromise` |

A request is only started when the checks on the case pass (`Permits`): a
refusal there changes nothing.  The version a form carries is compared with the
loaded one at once, so that the version of a request is the one it loaded.  The
audit row of a write is part of the write, without its details.  `Unique` is the
unique key of approvals.  `attempt.limit` is a history: the threshold a refund
was planned under.

`allowed_actions` repeats in `operator_queries.py` what the services require;
`OffersHonoured` compares the two for every user, every status of the case and
of the attempt, and every set of approvals.  It covers all nine actions a page
can offer: the seven `Ops` people move the case with, and the two `DoubtOps` on
a doubtful refund, whose steps are in `RefundPipeline` and whose guards are
here (`DoubtAccepts`).  Page and services agree but for three pairs, which the
property names: finance may reject a requested return and look up a refund whose
attempt is not unknown, though no page offers either (`HiddenFrom`), and a page
offers the retry of a failed attempt on a case that is still `refund_unknown`,
which the service refuses (`OfferedInVain`).

`RefundGate` sees consents, the plan and the limit, and not how many requests
read what when: a plan at or above the limit needs an earlier consent of another
user to the same amount, is made once, and never after a rejection.

## 5. Idempotency (`Idempotency`)

| action | code |
|---|---|
| `Find` | the first look for a record, with `_validate_existing` |
| `Insert` | the insert in a savepoint; it waits while another transaction holds the key |
| `Reread` | the `IntegrityError` branch |
| `Operate` | the operation and `complete` |
| `Answer`, `Commit` | an answer that leaves ahead of the commit; the commit, with the answer if it has not left |
| `Fails` | a refusal, a crash, a commit that fails, before the answer or after it: the claim goes with the rest |
| `Submit`, `Resubmit` | a tab draws a key for its form, and keeps it until it sees a positive answer |
| `Intake` | an execution of the n8n workflow: its key comes from the event |
| `GiveUp` | the connection breaks, the request goes on |

A key stands for the triple of the unique index.  The response is its
identifier, the request hash is the form.

The session is closed by a dependency that yields (`db.py:26`).  `pyproject.toml`
gives FastAPI a lower bound only, and its versions differ in whether that runs
before or after the answer is sent, so the model leaves the order open for each
request.  What can go wrong then is one thing: the answer has left and the commit
fails.  `broken` is the history of such answers.  `AnswersAgree` excepts them and
nothing else, and `OnceOnly` knows them as pledges: an answer ahead of the effect
binds the effect (`Pledge`, then `Do`) unless it is broken off (`BreakOff`), and
nobody is told anything else under the key in between.

`NoConflictWithItself` and `FormsGoThrough` are about a user who repeats the
form unchanged (`MayEdit = FALSE`).  A changed form under a kept key is refused.

## 6. Demo sessions (`DemoSessions`)

`sessions` is the dictionary under its lock; every action that touches it is one
critical section, and what follows it (`ReadUser`, `ReadMembership`,
`ResolveTenant`) are reads of their own.  A row a request has loaded reads as it
was loaded while the request still refers to the object: after a sign-in picked
its user, `ReadUser` keeps the activity it saw.  Nothing refers to the membership
of `resolve_demo_session` when `resolve_tenant` selects it again, so that
`ResolveTenant` may find either the earlier role or the present one.

The browser is its cookie (`jar`).  Its tabs send what they like whenever they
like, several requests of one tab at once included: `App.tsx` loads in parallel
and leaves the role switch and the logout enabled meanwhile.  A request takes the
cookie along as it is when it goes out (`Send`), and an answer may set or delete
it at any later time, in any order, or be lost (`Reply`).  The identity a page
shows is not modelled: it is set after the cookie, by whichever answer is handled
last, so that overlapping switches can leave the two apart, and nothing in the
repository promises that they agree.

`req.stale`, `wasActive` and `held` are histories: was the token gone when the
request started, and what has been true of the account since.  Which role a
sign-in asks for is left open.  Time is left open too: a session may expire at
any moment.

## 7. The seed (`DemoSeed`)

`EnsureSample` is the loop of `main` over the samples, each with its own goal
(`Ensured`); nothing is visible before `CommitSamples`, but rows the run has
updated are locked.  Then `KeepFile`, or `Rotate`, `OpenFile`, `WriteFile`,
`CommitToken`, where `write_text` is an opening that truncates and a write; then
`FinishSample`, `LeaveSample`.  `Dies` may happen anywhere.  Around it the demo
is in use: `MoveSample`, `Intake`, `ReuseOrder`, `LoseFile`.  `MoveSample`
follows the declared transitions, whoever takes them.  The first approval of
the `high` sample is created with the sample and not kept apart from it.
Identities and the intake key are committed in one transaction, so that the
workflow cannot sign in before the key is claimed.

## 8. The attention list (`OperatorViews`)

`updated_at`, which each write renews, matters only as an order: `older[c]` is the
set of rows written before `c` was last written.  The query, ordered and cut, is
the set of waiting cases that have fewer than `Limit` waiting ones before them.
There is no second page, so the order decides which case
anybody ever sees.  Oldest first, with operators who take the head, reaches
every case; newest first would not.

## 9. Runs

| run | instance | checks |
|---|---|---|
| `TwoDesks` | 1 worker, 2 users, 2 events, 1 webhook, 1 fault, a provider that accepts, declines and contradicts | `IInv`, `NextActionExists`, `BooksAgree`, `UnknownNeedsEvidence`, `CaseMovesForward` |
| `TwoWorkers` | 2 workers, 1 user, 2 events, 1 webhook of 2 copies, 1 fault | `SingleEffect`, `RefundedIsBacked`, `PendingHasWork`, `KeepsPromise` |
| `Convergence` | fair worker, user fair in what is offered, 3 events, 1 webhook, 2 faults | `TypeOK`, `PendingIsLeft`, `Converges`, `OutboxDrains` |
| `FullStaff` | 2 requests, one person each of customer service, warehouse, finance and administration, 2 amounts, 2 thresholds | `TypeOK`, `FourEyes`, `PlannedAsApproved`, `RejectedMovesNoMoney`, `RefundStaysReachable`, `AuditRetraces`, `OffersHonoured`, `KeepsGate` |
| `SameKey` | 1 tab, 2 workflow executions, 2 forms, 3 requests at a time, 1 fault | `TypeOK`, `AnswersAgree`, `RaceIsResolved`, `KeepsOnce` |
| `PatientTabs` | 1 tab, 1 execution, 2 requests at a time, 2 faults, fair server and tab | `OncePerKey`, `RecordedTogether`, `NoConflictWithItself`, `RequestsEnd`, `FormsGoThrough` |
| `SharedCookie` | 2 requests at a time, 2 users, 2 roles, 2 tokens, 2 changes | `TypeOK`, `GoneStaysGone`, `FreshAuthority` |
| `SeededAgain` | samples `intake` and `normal`, 4 tokens, 3 faults, a reused order | `NotDuplicated`, `FileWorks`, `SamplesMoveForward`, `CredentialRecovers` |
| `LongQueue` | 3 cases, a list of 1 | `ListedUntilHandled`, `EveryCaseIsReached` |

The bounds are the smallest at which each behaviour happens.  Two events are the
planned dispatch and one retry (the retry of a retry starts from the same rows;
`Convergence` has one more, so that a retry may be refused and tried again);
two dispatch attempts have one that is rescheduled and one that is exhausted;
two workers are a holder and a usurper; two copies of a webhook give duplicates
and reordering; two faults are a crash and another one in its recovery.  Two
requests are a race, of two users or of one user in two tabs; the amounts and
thresholds are chosen so that one amount is high under both thresholds and the
other under one.  `MaxVersion` ends the retries, whose cycle repeats the same
statuses.  Three requests of one key are the holder, one that waits and one that
comes after the commit.  Two tokens are the session and the one that replaces
it; two account changes or restarts may fall anywhere in two requests.  The two
samples of `SeededAgain` are the ones with a behaviour of their own (the
claimed key and the finish); the others differ in `Ensured` alone.  Four tokens
are the first one and a rotation for each fault.  What is proved holds without
bounds.

### Disagreements

Each of these runs checks one sentence of the repository and finds a
counterexample; `PROJECT.json` quotes the sentence.

| run | what happens |
|---|---|
| `LateTimeout` | worker times out and refreshes (`dispatching`); webhook commits success; worker flushes `unknown`. Case `refunded`, attempt `unknown`. |
| `RefusedRetry` | first post is executed, worker dies, second post is refused with 503: attempt `failed` although the money moved. |
| `StaleLease` | lease ends after a worker read the attempt; another dispatches and records `unknown`; the first writes `dispatching` and posts again. |

They need a stale lease, a crash or an unusual provider, and none of them moves
money twice: `SingleEffect` holds because every post carries the same
idempotency key.

Met while modelling, without a sentence that says otherwise, and therefore
described here and excepted by name in the properties:

- A late write under `needs_reconciliation`, then a crash and the closing of the
  event, leave finance without an action.  It takes a lost lease under two
  workers; `NextActionExists` is checked for one.
- A refund that was made and then refused (`RefusedRetry`) is offered a retry and
  nothing else.  As long as the provider refuses each retry before processing it,
  the case stays open; `Converges` excepts it (`RetriesRefused`).  The service
  would take a lookup, which ends the matter, but no page offers it.
- A worker that loses the compare-and-swap although the provider's answer
  matches records contradicting evidence, and its event is dead.
- A provider that accepts a refund as pending is recorded as having refunded.
  `RefundedIsBacked` and `KeepsPromise` assume that it does not.
- With two finance users a reconciliation whose two reads straddle a whole retry
  leaves a case `refund_unknown` with a failed attempt, and the page offers a
  retry that the service refuses.  `BooksAgree` lets `refund_unknown` go with
  either doubtful status of the attempt, and `OffersHonoured` names the offer.
- A threshold raised between two approvals strands the case: the amount is low
  now, and a low refund with an approval is refused (`ApprovalsStillCount`).
- Finance may reject a requested return; no page offers it.
- An answer that leaves before a commit that fails tells of something that never
  happened; a repetition then makes it happen once, under another identifier
  (`broken`).
- One page's overlapping role switches, or another tab's, can leave it showing
  somebody other than whom its cookie stands for.
- A second return for the order of a sample ends every later run of the seed
  with an exception.
- A seed that dies while it writes the credential file leaves a file no later
  run repairs (`torn`).
- The exception centre is cut at its old end.

### Fairness

`FairSpec`: each worker takes a step when one stays possible - `main` loops for
ever, every wait in it is bounded (the HTTP client gives up after three
seconds) - and the clock ends each lease nobody works under.  Fairness is on
the disjunction of a worker's steps: which answer it gets is never assumed.
`FairDeskSpec` adds that finance users finish the requests they began and keep
taking up what their page offers for a doubtful refund (`OfferedDeskStep`): a
lookup of an unknown attempt, a retry of a failed one.  Nothing is assumed of
the provider, of webhooks or of late requests.  Faults are finitely many: a
worker that dies for ever makes no progress.

`Idempotency!FairSpec`: the API works on each request it has accepted; the only
wait is for the holder of the same key, which is one of those.  `PatientSpec`
adds, strongly, that a user submits an unanswered form again: the button is
enabled again and again, not for ever, as each submission disables it.

`RerunSpec`: a run of the seed goes on, and a new one is started after one
ended; start-demo runs it at each start.  `AttendedSpec`: operators handle the
case at the head of the list whenever there is one; that they can is assumed.

`CHECK_DEADLOCK FALSE` is stated where clients may have nothing left to ask
within the bounds (`PatientTabs`) or every case may be closed (`LongQueue`).

## 10. Proofs

Checked by TLAPS for every value of the constants, from the assumptions on
constants and the hypotheses the table names.

| theorem | statement |
|---|---|
| `RefundPipelineProofs!EvidenceHolds` | `Spec => []IInv` |
| `TypeCorrect`, `MoneyMovesOnce` | `TypeOK`, `SingleEffect` |
| `RefundIsReal`, `PromiseIsKept` | `RefundedIsBacked`, `KeepsPromise`, if `NewStatuses = {"succeeded"}` |
| `CaseIsSwappedForward` | `CaseMovesForward` |
| `RefundWorkProofs!WorkHolds` | `Spec => []WInv` |
| `PendingIsWorked` | `PendingHasWork` |
| `RefundDeskProofs!AloneHolds` | `Spec => []SInv`, if `OneWorker` |
| `NothingIsStranded`, `UnknownIsProven` | `NextActionExists`, `UnknownNeedsEvidence`, if `OneWorker` |
| `BooksHold` | `BooksAgree`, if `OneWorker` |
| `CaseLifecycleProofs!LifecycleHolds` | `Spec => []IInv` |
| `LifecycleTyped`, `FourEyesHold`, `PlanIsApproved`, `RejectionIsSafe` | `TypeOK`, `FourEyes`, `PlannedAsApproved`, `RejectedMovesNoMoney` |
| `GateIsKept` | `KeepsGate` |
| `OffersAreHonoured`, `TrailRetraces` | `OffersHonoured`, `AuditRetraces` |
| `RefundIsReachable` | `RefundStaysReachable`, if two people may approve |
| `IdempotencyProofs!RequestsExclude` | `Spec => []IInv` |
| `IdempotencyTyped`, `ClaimsFollowEffects`, `AtMostOneEffect`, `LosersReplay` | `TypeOK`, `RecordedTogether`, `OncePerKey`, `RaceIsResolved` |
| `OneTruthPerKey`, `RecordsKeepOnce` | `AnswersAgree`, `KeepsOnce` |
| `NoFormMeetsAnother` | `NoConflictWithItself`, which is about `~MayEdit` |
| `DemoSessionsProofs!SessionsHold` | `Spec => []IInv` |
| `SessionsTyped`, `RevocationIsFinal`, `AuthorityIsFresh` | `TypeOK`, `GoneStaysGone`, `FreshAuthority` |
| `DemoSeedProofs!SeedHolds` | `Spec => []SeedInv` |
| `SampleIsFound`, `CredentialWorks`, `SamplesGoForward` | `NotDuplicated`, `FileWorks`, `SamplesMoveForward` |
| `OperatorViewsProofs!RowsStayOrdered` | `Spec => []ViewInv` |
| `ListStands`, `ListIsFirst` | `ListedUntilHandled`; what waits longer than a listed case is listed |

**Pipeline.** `RefundedIsBacked` alone is not inductive: the evidence that lets
a case be refunded sits in a worker's reply, a webhook or a user's lookup, taken
some steps before it is used.  `IInv` therefore says that each of these is true
of the provider as long as it is held (`EvidenceIsTrue`).  It survives because
the provider's refund only moves forward: absent, then known, then executed.
The two other conjuncts keep the case in the statuses of the pipeline
(`InPipeline`: a retry's compare-and-swap must not start from
`refund_approved`) and a webhook in process uncounted (`HooksCounted`).  The
argument is in three parts: what a step does to case and provider, and that it
never writes both (`EffectsOfNext`, `ProviderStep`); who holds evidence after a
step held it before or got it from the provider (`ReplyStep`, `HookChanges`,
`FoundStep`); and the theorems from these.  The refinement maps every step that
changes the case to `Confirm`, `Suspect`, `Escalate` or `Retry`, every execution
to `Pay`, and the rest to stutters.

**Work.** A case stays pending while events end, leases are lost and rows are
overwritten, so that an open event is no invariant of its own: some worker might
be about to close it.  `Guarded` says of an event that nobody is: no worker
closes it, and whoever is between flush and commit on it has loaded the case as
it is, so that its commit moves the case as well.  `WInv` says that a pending case has
such an event (`WorkIsGuarded`).  It is kept because a worker that decides to
close has read a settled attempt, and `succeeded` is only ever recorded together
with the case (`OutcomeMovesCase`), because an attempt locked by a flush keeps a
retry out (`LockedKnows`), and because a retry brings an event of its own.

**Desk.** Two workers on one event can leave doubt without a way out, as the
remarks in section 9 tell, so that these theorems have hypotheses.  With one
worker, as the repository starts it, `SInv` says that nobody else writes the
event it works on or makes its attempt unknown (`WorkerOwns`), that at most one
event is open and none in doubt, and that a case in doubt has an attempt that is
unknown or failed: each of which has its action.  Users overlap freely; what a
request remembers of the case is older than the case or equal to it
(`UserRemembers`), and the compare-and-swap tells which.  The books agree for any
number of users.

**Lifecycle.** Four eyes are judged on approvals read before the commit.  `IInv`
says of each request in process that it was entitled to what it asks, and that
the approvals it judged are still all there are *unless the version of the case
has moved* (`Judged`).  It is inductive because each write of an approval also
writes the version, a first approval too; the compare-and-swap then refuses
whoever judged something else.  The rest keeps approvals in the hands of finance
and payments behind a plan.  A commit that plans maps to `Plan`, a first
approval to `Consent`, a rejection to `Shut`.

What a page offers, and that an approval is missing somebody can give, follow
from what is true of the approvals in every status (`PeopleHold`): none before
the inspection, one at most on an inspected case, all of amounts that may be
approved.  The offers on a doubtful refund need none of it: they depend on the two
statuses alone.  The trail is stated without recursion: each transition follows the
greatest transition before it.  A write appends one row, so that it is enough to
know where the last one ended; its writer was entitled when it started and the
row it swaps is the one it judged.

**Idempotency.** `OncePerKey` rests on the exclusion of the insert: whoever is
between its insert and its end holds the key alone and nothing is recorded under
it (`Holds`), whoever was refused has a record to read (`Lost`), and an
operation that ran has its identifier (`Numbered`).  What a client was told, and
was not broken off, is what is recorded or what the holder of the key, which has
answered, is about to commit (`AnswersTold`).  It is inductive because a key has
one holder and no record while it is held.  That is also the refinement: an
`Answer` is `Pledge`, a `Commit` is `Do`, a failure after the answer is
`BreakOff`, a replay is `Tell`.

For a user's own key, `KeysInv` follows the form: a key not yet drawn is seen
nowhere, a drawn one is seen with the form of the tab that holds it, in requests
and in the record.

**Sessions.** A token that is gone must not come back: sessions are only made
for tokens that were not drawn, and what is gone was drawn (`Dictionary`,
`Drawn`).  A request that started with such a token has not passed the look-up
(`Stale`).  For the authority, what is true of the account *now* has been true
during the request (`Witnessed`) and so has what was read (`Remembered`); an
account change touches both sides.

**Seed.** The token of a run, the stored hash and the file are written in three
places by steps a crash separates.  `Credentials` says which of them agree at
each point: outside the stretch from opening the file to the commit, the file is
absent, holds the stored token or is torn.  The samples are found again because
rows the run has changed are locked and so stay as the run found them
(`LocksHold`), and because a sample the run will create has no case until then;
for the intake sample that needs the key, which is claimed in the transaction
that creates the case (`IntakeLone`).  The tokens are assumed to be at least two
and none of them to look like a file that is absent or torn: they come from
`issue_token`, a prefix and random text.  `Later`, the statuses after a status, is defined as
what every closed set contains, not recursively.

**Attention list.** `older` is a total order (`Ordered`); a write moves its row
to the end.  The rows before another one only get fewer until it is written
itself, so that a listed case stays within the limit.

Only model-checked is liveness, which is out of the prover's reach: `PendingIsLeft`,
`Converges`, `OutboxDrains`, `RequestsEnd`, `FormsGoThrough`,
`CredentialRecovers` and `EveryCaseIsReached`.

## 11. Not modelled

- Several organizations: each query names the organization, and rows of
  different ones never meet.
- Bearer tokens of the API (a look-up), validation of bodies, error texts.
- Database deadlocks, other than as a failed request; stale reads of the ORM
  beyond the ones sections 3 to 6 name.
- The exception centre, counters and the detail view: projections no step
  depends on.
- `demo_scenarios.py` and the fault lab: scripts that drive the modelled
  services through fixed scenarios.  Rendering, the other n8n workflows, build
  and start scripts.
