# HilalMarkets: a TLA+ verification of the monitoring platform

HilalMarkets watches screened crypto markets for its users. A user describes a setup, the platform
checks it on every closed candle of every screened symbol, and tells the user by Telegram, email or
WhatsApp when it forms. A FastAPI process (two of them in production), Celery workers and a Celery
beat share one Postgres database; Redis is the broker and the cache. There is no other coordination:
what keeps the parts from harming each other is row locks, optimistic versions, unique keys, status
columns and the order of commits. That is what this project models, checks with TLC and, for the
parts named below, proves with TLAPS.

Paths are relative to `src/src/ai_market_monitor/` unless they start with `src/`.

## 1. Inventory

### 1.1 The scan-job queue — `services/scanner.py`, `services/scan_retention.py`, `worker.py`

- **State**: the `scan_jobs` row (status, attempts, heartbeat, retry time, error), `scan_results`,
  the usage record, the Celery message, the memory of the worker that runs it.
- **Operations**: `schedule_due`, `schedule_due_experiments`, `recover_stale_or_retryable`,
  `expire_abandoned`, `purge_expired`, `run_job` (claim, gates, one transaction per symbol, verdict).
- **Interacts with**: monitor control (the gates read the strategy and can pause it), setups and
  alerts (each symbol's transaction), market data, usage metering.
- **Hard**: at-least-once messages with late acknowledgement, workers killed between symbols, a
  message lost between commit and publish, a worker that outlives its claim, passes that overlap.
- **Correct when**: a job runs on one worker at a time, is retried within its budget, settles
  whatever was lost, never reports more than it left behind, and a settled row stays as it is.

### 1.2 Setups and alerts — `services/scanner.py`, `services/lifecycle.py`, `engine/dedup.py`

- **State**: `setup_instances` (with a version), lifecycle events, `alerts` (unique deduplication
  key), scan results, the trial counter.
- **Operations**: `_upsert_setup`, `_create_alert` with the trial cap, the fatigue guard and the
  notices, `transition_setup`, `_expire_setup_instances`.
- **Hard**: live and experiment evaluations and the expiry task write one row; a savepoint that fails
  takes the scan result with it; counts read before they are acted on.
- **Correct when**: history is a legal path, a confirmation is always answered (alert or reason),
  limits bind, refusals are explained to the user, closed setups stay closed, everything closes.

### 1.3 Alert delivery and trial counting — `services/notifications.py`, `services/alert_emails.py`, `services/trials.py`

- **State**: `alert_deliveries`, `trial_alert_attributions`, `trial_cycles`, the chat link, and what
  the providers have accepted.
- **Operations**: `enqueue`, `process_due` per channel, `record_successful_delivery`,
  `evaluate_due_cycles`, `repair_cycle_counters`, `reconcile_alert_deliveries`.
- **Hard**: one commit after many irrevocable sends, stale in-memory counters, two tasks of one
  channel, row locks taken in different orders, uncaught provider errors.
- **Correct when**: what is recorded was sent, every row ends, a sent alert is counted, the counter
  never overstates and ends up exact, a message is tried at most `MAX_ATTEMPTS` times.

### 1.4 The AI spend ledger — `services/ai_budget.py`, `services/ai_spend.py`

- **State**: `ai_budget_counters`, one row per ceiling, owner and period; `ai_budget_reservations`,
  unique by idempotency key, with the windows they were taken against.
- **Operations**: `reserve` (replay, refusal, lost race), `reconcile` and `release`, `sweep_expired`.
- **Interacts with**: setup chat turns (two transactions per turn) and Hilal turns (one).
- **Hard**: row locks held over a provider call, a state checked before the locks, a sweep that
  meets late answers and retries, midnight between the two halves of a turn, crashes between them.
- **Correct when**: spent plus reserved never passes a ceiling, a counter is the sum of its
  reservations, nothing is held for ever, and every paid call is counted.

### 1.5 Setup chat turns — `services/setup_chat_launch.py`, `setup_chat_recovery.py`, `engine/setup_turn_lifecycle.py`

- **State**: the chat row with the draft as one JSON column, `setup_chat_turns` (status, session claim,
  lease, stored result, reply, tries), the operators' queue.
- **Operations**: admission, replay and refusal of a message, planning, the freshness check, the
  checkpoint, the reply, both failure paths, clicks of the builder, approval, `run_once` of recovery.
- **Hard**: the draft is read without a lock and written as a whole; a message is sent again while its
  first attempt is working, carried out or dead; recovery races both.
- **Correct when**: a change is made at most once and is on record, a message is answered at most once,
  one turn at a time works on the session, no plan is carried out over an approval it has not seen,
  and no chat stays locked. That a change stays in the draft is not among them: the code does not
  keep it (section 8).

### 1.6 The other components

| Component | State and operations | Hard behaviour | Status |
|---|---|---|---|
| Monitor control (`monitor_operations.py`, `strategy.py`) | strategy status; pause, resume (preview, activate), delete, degrade | resume activates what it read before a long preview; the row has no version | planned |
| Provider reliability (`provider_reliability.py`) | breaker per provider; allow, record, retry loop | the single half-open probe, cancelled callers, shared store lost | planned |
| Operational alerts (`observability/alert_delivery.py`) | page rows; claim per window, send, fall back | crash between "sending" and the send; rollback drops neighbours | planned |
| WhatsApp (`whatsapp/service.py`) | inbound queue, outbound rows, receipts | receipts in any order, duplicates | planned |
| Telegram links (`telegram_account_links.py`) | link attempts, linked chat; complete, attach, disconnect | two users, one chat; the link leaves during a send | planned; an environment variable today |
| Trials (`trials.py`) | activation, cycle, conversion, extension | counting against closing | cycle and counting modelled |
| Billing (`billing.py`, `plan_changes.py`, `plan_replacements.py`, `payment_emails.py`) | webhook events, subscriptions, scheduled changes, mail outbox | duplicate, reordered and failed events | planned |
| On-demand scans, dashboard jobs | quota, job tables; run, retry | no claim on backtests and exports | planned |
| Entitlements, plan limits | plan numbers | none of their own | constants of the models |
| Notification preferences | channel choices | none | constant `Chosen` |
| Market data and cache | cached candles | pure I/O | outcome of a fetch |
| Evaluation engine | none (pure) | floating-point series | proposed outcome only |
| Strategy language, setup chat | one draft per conversation | text and model output | not modelled |
| Verified strategies, templates, previews | catalogues | none | not modelled |
| Capability extensions | request, approve, build | one administrator at a time | not modelled |
| Sharia governance, screening, universe, watch, evidence | review cases, decisions, evidence | human workflow over documents | not modelled; the universe is an input of a job |
| Web authentication, accounts | sessions, codes | secrecy, out of scope | not modelled |
| Public site, forms, chats, support | outboxes | same shape as payment mails | with billing |
| Affiliates, referrals, discounts | attributions | follows billing | after billing |
| Observability, System Brain, API, frontend, tools | reports, consoles, rendering | no influence on the rest | not modelled |

`PROJECT.json` lists them again with their files, and the hazards of each at its line; a hazard
without a property says why.

## 2. Plan

Modules, most important behaviour first:

1. `ScanJobs` + `ScanJobLifecycle` (abstract) + `MCScanJobs` + `ScanJobsProofs` + `ScanJobsOrderlyProofs` — done.
2. `SetupAlerts` + `MCSetupAlerts` + `SetupAlertsProofs` — done.
3. `AlertDelivery` + `MCAlertDelivery` + `AlertDeliveryProofs` — done. `SetupAlerts`' `delivered` is
   its `cycle.delivered`.
4. `AIBudget` + `AIBudgetBook` (abstract) + `MCAIBudget` + `AIBudgetProofs` + `AIBudgetBookProofs` — done.
5. `ChatTurns` + `MCChatTurns` + `ChatTurnsProofs` — done. A setup turn of `AIBudget` is one request of `ChatTurns`: its
   `Answer` is the `Checkpoint` (or `Talk`), its `Settle` runs after `Finish`.

What would come next: `MonitorControl` (the strategy's status under pause, resume, delete,
degradation and plan slots, with the queue's gates as its client; "an archived monitor stays
archived"); `CircuitBreaker` and `OperationalAlerts`, two small claim protocols; WhatsApp receipts as
a third channel of `AlertDelivery`; `Billing` (webhook replay and the subscription machine).

## 3. ScanJobs

| State | In the code |
|---|---|
| `job` | the `scan_jobs` row per idempotency key (who asked, version, candle bucket); `absent` before the insert, `purged` after retention |
| `results`, `usage` | `scan_results` per job; the usage record under `scan:<job id>:symbols` |
| `planned`, `beat` | what a beat task holds between its query and its commit, and between its commit and its `.delay()` |
| `broker` | keys with a deliverable message; a delivery may or may not take the last copy |
| `worker` | the local variables of `_run_claimed_job`: attempt claimed, symbols left, counter, failure kinds |
| `active`, `experiments`, `bucket` | strategies that are ACTIVE, running experiments, the current candle |

One action per committed transaction, or per message sent or received. The clock is reduced to the
three comparisons the code makes: heartbeat older than the claim timeout (`HeartbeatGoesStale`),
retry time passed (`RetryFallsDue`), row older than the abandonment window (`GrowsOld`, which like the
code looks at the row's age and at nothing else). `Claim` is
`run_job`'s locked select, check and commit; `PassGate`, `CancelAtGate`, `DegradeAtGate` are the gates
of `_run_claimed_job`; `ScanSymbol` and `FailSymbol` are one iteration of the symbol loop with its
heartbeat; `FinishScan` is everything after the loop, including the requeue decision that compares
the attempt the worker claimed with; `FailClaimed` is the outer exception handler; `WorkerCrash` may
or may not return the message. The ORM writes only changed columns, so each write leaves the others
as stored. `DropDelivery` stands for a delivery that claims nothing: not claimable, lock held
(`skip_locked`), or scanning disabled in the receiving worker.

`PurgeExpired` asks that the candle bucket be past and no worker on the row: retention is at least a
day, the longest candle is a day, and a task is killed after 3540 s, below the broker's one-hour
redelivery. Two constants name assumptions about time: `SlowWorkers` (may a worker go longer than the
claim timeout between two heartbeats and live?) and `Backlog` (may a row reach the abandonment window
although a worker, a message or a retry still has it?). The second is about the deployment and not
about the code: `AgesOut` is `GrowsOld`, and without a backlog also `Unattended`. It says that the
workers keep up, so that a job is through long before the window of a day (by default). What needs it is
said with each run, and what happens without it in section 8.

`Workers` is a set although production runs one worker process of concurrency 1 by default
(`core/config.py`, 1 to 32): the two API processes and a redeploy add claimants.

| Run | Bounds | Shows |
|---|---|---|
| `ScanJobsOrderly` | 2 candles, 2 symbols, 2 workers, 2 attempts; 57 322 states | no slow workers, no backlog: `TypeOK`, `CountsAgree`, `TerminalIsFinal`; and `ImplementsLifecycle`: the queue implements `ScanJobLifecycle`, a job's five phases with mutual exclusion per monitor (which makes `OneLiveInFlight` follow) and a bounded number of tries |
| `ScanJobsExperiment` | one candle, live and experiment job of one version, a backlog; 1 934 664 states | `SingleExecution` and `CountsAgree` when either job can pause the monitor under the other and the expiry can fail a row under its worker |
| `ScanJobsOverlap` | 3 workers, slow workers and backlog allowed | what survives any overlap: `SucceededIsComplete`, `UsageIsBacked`, `RecoveryCanSeeIt`, `AttemptsBounded`; and `Settles`: no job stays queued or running for ever |

Two candles are enough for the in-flight rule and the purge, two symbols for "some failed, some not"
and for a crash between two commits, two attempts for first, last and one too many, three workers
for two stale ones beside the current one. `CHECK_DEADLOCK FALSE` because a bounded number of candles
ends with every job settled.

Fairness (`FairSpec`): clocks pass; beat runs its tasks every minute and does not die in each
(`SF` on `Publish`); the broker delivers what it holds (`SF` on some worker's claim, because a
claimable row comes and goes); a worker that is not killed takes its next step. Nothing is assumed
of crashes, lost messages or toggles.

## 4. SetupAlerts

| State | In the code |
|---|---|
| `setups`, `history` | `setup_instances` by `uq_setup_instance_key` with its `lifecycle_version`; the events of `transition_setup` |
| `alerts` | rows with their deduplication key: events, alerts suppressed at the cap, notices |
| `results`, `failures` | committed scan results; the errors that rolled an evaluation back |
| `tx` | an evaluator's open savepoint |
| `sweep` | the rows that `_expire_setup_instances` has selected |
| `delivered`, `subscribed`, `now` | the trial cycle's counter, the subscription, the clock in candles |

An evaluation is three steps: `ReadSetup` (the select of `_upsert_setup`), `Decide` (the flush under
the row lock, then trial cap, fatigue guard, notices and alert in the order of `_create_alert`), and
`Commit`. `SetupConflict` and `AlertConflict` are the version mismatch and the unique keys; both roll
the savepoint back with its scan result, and the job goes on. `SelectDue` and `ExpireDue` are the one
transaction of the expiry pass. `AllowedFrom` is the reachable part of `ALLOWED_SETUP_TRANSITIONS`.

Left out: target milestones, condition results, near-miss snapshots and the ERROR outcome (written,
never read by this logic), the user-configured daily number and the `limit(200)` of the cooldown
query (the plan's number binds first in the bounds used). One tick is one candle and one calendar
day. `Withheld` says whether an alert may
find no destination that takes it.

| Run | Bounds | Shows |
|---|---|---|
| `SetupAlertsOneByOne` | one monitor, two symbols, two candles, three ticks, a trial cap of one; 2 409 316 states | `OneOpenSetup`, `PaceHolds`, `WeekBudgetHolds`, `RefusalIsExplained`, `TypeOK` |
| `SetupAlertsOverlap` | live and experiment evaluations of one symbol and the expiry pass, a cap that is reached and lifted; 702 525 states | `HistoryIsALegalPath`, `ConfirmationsAreAnswered`, `SentMeansAlerted`, `ClosedStaysClosed`, `Closes` |

The bounds of `SetupAlertsOneByOne` let every limit bind on its own. Two symbols can confirm in the same
tick (hourly, one alert), the same symbol in the next one (cooldown, one tick), and two alerts fill the
day's window of three ticks. The week counts only what was not withheld, so withheld alerts fill the
other three limits under a week of one; and the trial cap binds only once its counter has moved, and until
the user subscribes. Each of the four conditions of the fatigue guard, when it is dropped or is off by
one, is found by `PaceHolds` or `WeekBudgetHolds` in this run.

`OneOpenSetup` and the pace limits are claims about one monitor whose checks run one at a time, which
is what `ScanJobs` provides; they are not checked under overlap, where the counts are read before
they are acted on. Two candles and an expiry of one let a setup be reused, closed and succeeded by
another. Fairness (`SetupAlertsOverlap`): time passes, the expiry task runs every minute and queues for the row locks it
needs (`SF`), an evaluation that has started ends. `CHECK_DEADLOCK FALSE`: candles and clock are
bounded.

Observation, not a finding: a setup that was SUPPRESSED becomes ALERT_SENT when a later near miss of
the same setup is alerted, because `_create_alert` moves both states.

## 5. AlertDelivery

| State | In the code |
|---|---|
| `deliveries`, `waiting` | `alert_deliveries` (status, attempts); whether `next_retry_at` lies ahead |
| `attribution`, `cycle` | the attribution of each alert; the cycle's status, end and `qualifying_alerts_delivered` |
| `pass` | the open transaction of a delivery task: rows left, rows as read and as it will write them, the counter as loaded, alerts counted |
| `repair` | what `repair_cycle_counters` is about to write |
| `connected`, `links` | the chat link |
| `tries`, `accepted`, `faults` | what the provider saw; bound of the crashes explored |

A pass is `Begin` (select the oldest due rows), then per row `Cancel` or `Send`, `Flush` (the next
query flushes the row and waits for its lock; after a success the cycle is loaded), `Count` (the attribution and the counter, under the
cycle's row lock), and one `Commit` for all. A rollback (`Crash`, an uncaught answer, `Deadlocked`)
forgets everything but what the provider has accepted. `Answers` gives, for each channel, whether the
provider took the message and what the code makes of its answer: a timeout may be an acceptance, and
on Telegram an httpx or circuit error is not caught at all. Only changed columns are written, so a
stale pass can put a finished row back to retrying; `Settles` is therefore "eventually always".
`Loaded` is what the pass knows of the counter: each qualifying success loads the cycle, an object that
the session still holds is not refreshed, and the session holds an object that was only looked at
by a weak reference, so whether it is still there at the next alert is left open.

Left out: WhatsApp and web channels, preferences, rendering, reminders, the reason column, the first
message to a new trial (its insert is serialised by the cycle's lock) and the other counters of the
cycle. The check of the link and the send are one step. `RepairRead` merges the task's two reads:
the counted set only grows, so the merged read is one of those the code can make. Telegram's clause
"SENT without a message id" selects nothing, because no writer leaves such a row; and
`reconcile_alert_deliveries` has nothing to do, which is what `SentIsCounted` says (an attribution
precedes every enqueue, so its insert branch is not reached either).

| Run | Bounds | Shows |
|---|---|---|
| `AlertDeliveryChannels` | one Telegram and one email pass, 2 alerts, 1 attempt, one crash, one unlink, the cycle ends; 301 202 states | `NeverOverstated`, `SentIsCounted`, `CounterSettles`, `TypeOK` |
| `AlertDeliveryOverlap` | two Telegram passes, 2 alerts, 2 attempts, one crash or uncaught error, one unlink; 424 926 states | `RecordedIsReal`, `Settles` |

`MAX_ATTEMPTS` is 5 in the code: 1 and 2 have the first, the last and the one-too-many. Two alerts
give a batch with a neighbour and a counter that can lose an increment. Fairness: beat starts each
task again and again, a running pass makes progress, a lock is granted in its queue's turn (`SF`),
the database breaks deadlocks, and the repair task (every six hours) runs.

## 6. AIBudget

| State | In the code |
|---|---|
| `counters`, `rows` | `ai_budget_counters` by window and `ai_budget_reservations` by key, as committed |
| `tx` | the open transaction of a process: the counters it has locked, as it sees them, and the reservations it has written |
| `turn` | how far a turn has come between `reserve` and `reconcile`, its day, the outcome and cost of its call |
| `sweep` | the reservations `sweep_expired` has selected, and the one it is settling |
| `lapsed`, `today` | whose `expires_at` has passed; the day the windows of a new reservation come from |
| `bill` | what the provider really charged, which no table holds |

A turn is `Ask` (the look-up of the key and the concurrency limit), one `Lock` per ceiling in the
fixed order of `windows_for`, `Reserve` (check, increment, insert, or refuse), `Answer`, `Reconcile`
(the state check), the locks again, and `Settle`. A Hilal turn is one transaction from beginning to
end; a setup turn commits at `Answer` with its carried out plan and settles in a second one. The
sweep locks the counters of one reservation after the other in a single transaction (`SweepOne`). A
process that dies loses its transaction; `Deadlocked` is the database ending one of two transactions
that wait for each other. Amounts are units: every estimate is the uniform ceiling of a turn, a call
costs one or nothing.

Two assumptions about time are one constant. Without `MayOverrun`, a message is worked on by one
turn, and a turn ends before its reservation expires: its deadline (45 or 120 s) and the Celery limits
are far below the fifteen minutes. With it, a turn, its retry and the sweep meet on one reservation.

`AIBudgetBook` is what the ledger promises, without counters, locks, transactions, crashes or
retries: at most one entry for a key, made only where every ceiling it counts in has room next to what
is promised and charged, settled once or released once, never moved to another day. Its `entry` is
`rows`; it sums entries where the code keeps counters. A setup turn's `Answer` is its `Promise` and
`Settle` its `Settle`; a Hilal turn commits once, a `Spend`; a sweep's commit is one `Release` of all it
selected. Everything else is a stutter. With overruns or two sweeps the ledger is not such a
book: an estimate given back twice (section 8) makes the counters forget another promise, and an entry
is let in that has no room. TLC finds that with two sweeps, three setup turns and a ceiling of one.

| Run | Bounds | Shows |
|---|---|---|
| `AIBudgetLedger` | four turns of two users, one a retry, one sweep, two days, no overruns; 257 000 states | `CountersAddUp`, `CeilingHolds`; and `ImplementsBook`: the committed reservations are the book of `AIBudgetBook` |
| `AIBudgetOverrun` | overruns allowed, one crash; 81 000 states | `TypeOK`, `NothingLeaks`, `PromisesEnd` |
| `AIBudgetRetryBill` | one user, a failed turn and its retry | violates `BillWithinCeiling` (section 8) |

Two users give shared and private ceilings; two days a settlement after midnight and, with the sweep,
a deadlock; the retry a replayed key. Fairness: a turn reaches an answer or its deadline and a lock is
granted in its queue's turn (`SF`), the sweep and the clock go on. `CHECK_DEADLOCK FALSE`: turns are
bounded. Left out: unknown and oversized prices (refused before anything is read), the read-only
summary, and the model name in a scope key.

## 7. ChatTurns

| State | In the code |
|---|---|
| `chat` | the session row: the draft, as the sequence of the messages whose changes it carries, and whether it is approved |
| `row` | `setup_chat_turns`: status, `session_claim`, lease, stored result, reply, `recovery_attempts` |
| `attempt` | a request: how far it has come, and the chat as it read it |
| `approval` | what an approval in another tab has read |
| `answers`, `escalated` | replies written; the operators' queue |

A request is `Open` (the unlocked read), then `Replay`, `Refuse` or `Start` (claim and commit), and
for text `Execute` (row lock and freshness check), `Checkpoint` (draft and result in one commit) and
`Finish` (the reply), or `Talk` and `Finish` when the plan changes nothing. `FailTurn` and
`RecordFailure` are the two failure paths, in their order. A click commits its claim and is then one
transaction. `Recover` is one turn of `run_once`, claim and settlement in one commit;
`RecoverRaises` the same when it raises. Rows appear as other transactions can read them, so the
statuses RECEIVED, PLANNED and RECOVERING, which are overwritten before the commit, do not.

A request keeps the copy of the chat that `owned_session` read when it arrived, without a lock; nothing
reads it again when the message is admitted. So do approvals. Whatever a request writes back is that
copy, with its own change or without one. Two constants name assumptions about time: without `MayResend`
a message is sent again only after its request has ended or died, which is what the page does (it
disables the box while a turn runs) and not what the API enforces; without `MayOverrun` a request ends
within the lease of its turn (its deadline is 45 seconds, or 120 at most; the leases are 60 and more).

| Run | Bounds | Shows |
|---|---|---|
| `ChatTurnsOrderly` | a text message and a click, each sent twice, one approval, two crashes or exceptions, one recovery try; no resend to an open request, no overrun; 384 575 states | `AppliedOnRecord`, `OneOwner`, `AnsweredOnce`, `PlansRespectApproval`, `TurnsSettle`, `TypeOK` |
| `ChatTurnsRebase` | two text messages, one sent twice after its end, every lease intact | violates `RebaseKeepsTheDraft` (section 8) |

Two messages are enough for one to hold the session against another, two requests each for a retry
after every ending, two faults for a crash of the turn and one of its retry, and one try for the turn
that is given up. Fairness: a request ends at its deadline, leases run out, recovery runs every
minute. `CHECK_DEADLOCK FALSE`: requests are bounded. Left out: pending destructive changes that wait
for a confirmation, snapshots, renaming and archiving, and all text.

## 8. What the code does not do as its text says

Runs in `PROJECT.json` whose counterexample is part of the project:

- `AIBudgetRetryBill`: "actual spend + outstanding reservations can never exceed the enforced ceiling"
  (`src/tests/unit/test_invariant_ai_budget.py:10`). A retry finds the reservation of the failed
  attempt under its key and replays it although it has ended (`ai_budget.py:359`); the second call is
  paid for and reaches no counter.
- `ChatTurnsRebase`: a rebased plan "runs against the newer draft" (`setup_chat_launch.py:3081-3083`). The
  agent applies it to the draft read when the request began (`setup_chat_agent.py:533`), and the
  checkpoint writes that over the newer one.

Seen with the same modules under other bounds, and kept out of the runs. The properties are stated in
the modules; each fails with the bounds given.

In `ScanJobs`:

- **A terminal row that is written again.** "Nothing will write to it again" (`scan_retention.py:46`).
  A worker recovered as stale still writes its verdict (`scanner.py:1468-1527`). `TerminalIsFinal`
  fails with `SlowWorkers = TRUE` and one candle.
- **A second live job.** `schedule_due` checks and inserts in two statements (`scanner.py:193`). With
  `Schedulers = 2` and two candles, two passes across a candle boundary queue two live jobs, which
  `scan_cadence.py:22-23` excludes: `OneLiveInFlight`, the exclusion that `ImplementsLifecycle` includes, fails.
- **An expired job under its worker.** The abandonment cutoff compares `created_at`
  (`scan_retention.py:103`), not the heartbeat, so a job claimed after a long wait is expired while
  it runs, which the docstring (`:89-90`) and `src/tests/unit/test_invariant_scan_retention.py:184`
  say cannot be. `ExpiryOnlyHitsLostJobs` says the same and fails in four steps with the bounds of
  `ScanJobsOrderly` and `Backlog = TRUE`, and so does `TerminalIsFinal` when the worker then writes its
  verdict. Both fail with the bounds of `ScanJobsExperiment` too; what is left there is that the job is
  given to nobody else and that its counts stay right.

In `SetupAlerts`:

- **Evidence lost at the trial cap.** The suppressed alert is inserted under the same key at every
  evaluation, without the look-up both notices have (`scanner.py:810-822`); the second one undoes its
  own scan result, while the user reads "Monitoring evidence is preserved" (`scanner.py:1083`).
  `EvidenceIsKept` fails with the bounds of `SetupAlertsOneByOne`.
- **Colliding notices.** Two monitors that reach a limit together insert the same notice; the loser
  loses its scan result (`scanner.py:1027`). With two monitors, one candle, no trial cap, a daily budget
  of 1, an hourly limit of 2 and a week of 4, `EvidenceIsKept` fails.
- **The plan's day.** "Up to {daily} monitor alerts per day" (`core/plans.py:851`) beside three
  monitors; the count is per strategy version (`engine/dedup.py:94-100`). `PlanDayHolds` fails with
  two monitors and a daily budget of 1.

In `AlertDelivery`:

- **More tries than the limit.** "How many attempts before an email delivery is given up on … The same
  five as Telegram" (`alert_emails.py:64-67`). A transport error towards Telegram is not caught
  (`notifications.py:398`, `provider_runtime.py:363-365`) and rolls back the whole pass: the attempt
  is not counted, and what the pass had already sent is sent again. `TriesWithinBudget` fails with one
  pass and two uncaught errors.
- **A second copy of an email.** "A retry cannot become a second copy" (`alert_emails.py:422-424`),
  but the Message-ID has a random suffix, and an acceptance followed by a crash is sent again:
  `tries` of an email row with a crash reaches 2 with `accepted` set.

In `AIBudget`:

- **An estimate given back twice.** The state of a reservation is checked before the counters are
  locked (`ai_budget.py:489`). With `MayOverrun` a turn and the sweep both pass the check and both take
  the estimate off; if another setup turn has a promise on the same counter, the counter understates
  it: `CountersAddUp` without its condition fails with the bounds of `AIBudgetOverrun` and
  `Durable = {k1, k2}`. `NothingLeaks` is what remains (and what is proved).
- **Deadlock across days.** The fixed order of the locks holds within a reservation. The sweep locks
  those of several (`ai_budget.py:572`), of two days even, and can wait in a circle with a turn. The
  database ends one of them; in `AIBudgetLedger` this happens, and no counter is wrong afterwards.

In `ChatTurns`:

- **An old error for an answer.** A retry does not clear the reply of the failed attempt
  (`setup_chat_launch.py:3900-3907`). If it is interrupted after its checkpoint, replay and recovery
  ("Draft and reply both landed; only the status was never updated.") complete the turn with that
  error. `AnswersTheChange` fails with the bounds of `ChatTurnsOrderly`.
- **A turn that is never given up.** When a settlement raises, the rollback takes the increment of
  `recovery_attempts` with it (`setup_chat_recovery.py:106`), so `MAX_RECOVERY_ATTEMPTS` is not
  reached and the chat stays locked; the lifecycle says "Without this a turn that fails the same way
  every cycle is retried forever". `TurnsSettle` fails with the bounds of `ChatTurnsOrderly` and `Broken = {m1}`.
- **A retry that closes its message.** Retrying a failed message while another one holds the session
  violates the unique claim outside the savepoint that handles it (`setup_chat_launch.py:3900`), which
  ends in a generic error and closes the message as answered, although "their message is not lost"
  (about `:3412`). `RetryStaysOpen` fails with the bounds of `ChatTurnsOrderly`.
- **A resend that frees a live turn.** A message sent again during its first attempt is refused, and
  recording that failure releases the claim of the attempt that is still running
  (`ai_setup_chat.py:4271-4310`), against the comment at `setup_chat_launch.py:3862`. `OneOwner` and
  `AnsweredOnce` fail with the bounds of `ChatTurnsOrderly` and `MayResend = TRUE`; with
  `MayOverrun = TRUE` instead they fail because recovery takes the turn of a request that goes on.
- **Older copies of the chat.** A message that arrived before another one finished, and is admitted after
  it, works on the older draft and writes it back: the first one stays recorded as carried out and
  its change is gone. No resend and no overrun is needed. The replay that is documented as an "exact
  read-only replay" writes the whole context back from an unlocked read to note itself; failed turns,
  turns without a change and approvals write theirs too. `ChangesAreKept` fails with the bounds of
  `ChatTurnsOrderly`; what is kept of it is `AppliedOnRecord`, a change is not made a second time.

## 9. What is proved

Seven modules hold theorems that TLAPS checks, for every value of the constants that the named
assumptions of the modelled module (`ConstantsAssumption`, `NoJobAssumption` in `ScanJobs`,
`AbsentIsNoRow` in `SetupAlerts`, `AbsentIsNoReservation` in `AIBudget`) allow: any number of workers, passes, symbols, alerts, calls,
messages, attempts and faults. What a theorem assumes beyond them stands in its ASSUME: it is a
statement about constants, which some run satisfies, and it is said below why it is needed.

### `ScanJobsProofs` (about `ScanJobs`)

- `TypeCorrect`: `Spec => []TypeOK`, action by action.
- `AttemptsCorrect`: `Spec => []AttemptsBounded`, at most `2 * MaxAttempts - 1` attempts of a job.
  That bound is not inductive: a worker recovered as stale can still put its job back on the queue
  when its own claim is below the budget, which allows a claim past it. `AttemptInv` does the
  accounting: the workers of a job hold different attempt numbers, none above the row's counter, and
  once the counter has reached the budget, counter plus `Early` workers (claimed below the budget)
  plus the row itself if it waits in the queue stay within the bound. A claim trades the waiting row
  for the counter, a late verdict trades an `Early` worker for a waiting row. Every other step is a
  `QuietStep`, which keeps the accounting (`QuietStepAttempts`).
- `SucceededIsCompleteCorrect` and `UsageIsBackedCorrect`: with overlapping workers neither is
  inductive, because a verdict speaks of what the worker remembers and not of the table. `WorkInv`
  relates the two: a symbol that a worker does not owe any more has a row unless it failed, its count
  is at most the number of rows, and a job somebody works on is not purged. Steps that touch no
  result and meter nothing are `HarmlessStep`s; the rest are treated one by one.

### `ScanJobsOrderlyProofs` (about `ScanJobs` and `ScanJobLifecycle`)

- `RecoveryCanSeeItCorrect` assumes nothing: `RowsMayBecome` lists the rows that any step may leave in
  place of a row, and each of them is visible to the recovery pass if the row was (`VisibleStays`).
- `SingleExecutionCorrect` and `CountsAgreeCorrect` assume `~SlowWorkers`: a slow worker loses its row
  to the recovery pass and goes on, which breaks both. A backlog does not. `Order` is the inductive
  invariant. A worker with a job is alone (`Alone`); its row has a fresh heartbeat, the attempt number
  the worker claimed and no metered usage, and the worker's counter is the number of results; the
  row is running, unless the expiry, in a backlog, has failed it under the worker (`Owned`, `Held`). A
  queued row has attempts left and a row that has not ended was not metered (`RowInOrder`); the counts
  agree (`Counted`). A crash leaves the row running with nobody on it, where `Owned` is vacuous and
  recovery takes over. The invariant is about one job at a time, so a step is treated at its own job
  only (`OrderElsewhere`).
- `TerminalIsFinalCorrect` assumes `~Backlog` as well: the worker of an expired row writes its verdict
  over it. `OldMeansLost` is how the assumption is used: a row past the abandonment window has no
  worker, no message, published or not, and no retry time, and stays so.
- `OneLiveInFlightCorrect` and `ImplementsLifecycleCorrect` assume also `Schedulers = 1`: two
  overlapping `schedule_due` passes can each find the monitor free, one for each candle. `OnePlan` says
  that what the one pass found due is still free when it is inserted, since nothing else starts a
  live check.
- The refinement: `MoveNext` shows that in this order, without a backlog, a step moves at most one row, and
  how (`RowStays`, `RowEnqueued`, `RowStarted`, `RowYields`, `RowSettles`, `RowForgotten`);
  `StepLifecycle` maps each move to its action of `ScanJobLifecycle` or to a stutter. The guard of
  `Enqueue` comes from `OnePlan`, that of `Start` and `Yield` from `Order`, and the unchanged `tries`
  of an enqueued job from `AttemptInv`.

### `SetupAlertsProofs` (about `SetupAlerts`)

Every safety property that a run checks is proved.

- Without a further assumption, under any overlap: `TypeCorrect`, `HistoryIsALegalPathCorrect`,
  `ConfirmationsAreAnsweredCorrect`, `SentMeansAlertedCorrect`, `RefusalIsExplainedCorrect` and the
  action property `ClosedStaysClosedCorrect`.
- `OneOpenSetupCorrect` and `PaceHoldsCorrect` assume `ExperimentMonitors = {}`: a monitor has one
  evaluator. Two of them read the open setups and count the alerts before either has committed, and
  both may then open a setup or take the last place.
- `WeekBudgetHoldsCorrect` assumes that any two evaluators are the same one: the week is the user's, so
  the monitors of one user race for it. `SetupAlertsOneByOne` satisfies both assumptions.

`Inv` says why a decision taken on a row read earlier is still right when it is committed. A row read
is the stored one or an older version of it (`Older`), so an equal version means the same row. A
decision continues the stored row (`Continues`) until it commits, because its writer holds the row's
lock alone (`OneHolder`) and the sweep writes only rows that are current and not locked. What it is
about to insert says what its events say (`Announces`), and a stored row agrees with its history and
its alerts (`Agrees`). Histories are treated as paths of the table (`Leads`); joining two of them is a
lemma, so the concatenation at the commit needs no induction. What the pure functions of the model
return (`Upserted`, `Refused`, `Alerted`, `Decided`) is stated once, in `DecidedIsMade` and
`DecidedRows`.

On top of it `OpenInv` carries the empty read of the open setups to the commit, and `PaceInv` and
`WeekInv` carry the room a decision has found: since alerts are never dated in the
future (`AlertsAreDated`), the window that ends with a new alert is the largest that contains it
(`PaceStep`).

### `AlertDeliveryProofs` (about `AlertDelivery`)

- `TypeCorrect`: `TypeOK` bounds the attempts of a row by `MaxAttempts`, and passes that overlap write
  columns of a row over each other, so it is not inductive either. `Base` adds what a pass has in its
  hands (`PassOK`: rows it read were due and had attempts left, rows it has not reached are unchanged,
  what it calls sent was accepted, what it counted it calls sent) and that a stored row that can still
  be retried has attempts left (`RowsReady`), also when its columns come from two passes.
- `RecordedIsRealCorrect`: with `Base`, `RecordedIsReal` is inductive.
- `NeverOverstatedCorrect`: the counter that the trial cap reads never exceeds the counted alerts.
  `Fresh` says that nothing knows of an alert before it is raised; `Ledger` that the stored counter, a
  recount under way and the sum in the memory of every pass are all covered by counted alerts, those
  the pass has counted itself included. The argument never uses the row locks: they decide how many
  increments are lost, not whether one is invented.
- `SentIsCountedCorrect`: an alert that a row calls sent is counted, unless the cycle was closed first.
  `Settled` carries it through a pass's memory (`Handled`) to the table (`Stored`).

A pass works on the oldest alert of its queue, a CHOOSE; that there is one comes from the library's
theorem that `<` on the naturals is well-founded (`LeastExists`).

### `AIBudgetProofs` (about `AIBudget`)

- `TypeCorrect` and `NothingLeaksCorrect` hold without a further assumption: whatever sweeps and late
  settlements do to each other, a counter never holds more than the reservations that can still
  give it back.
- `CountersAddUpCorrect` and `CeilingHoldsCorrect` assume a single sweep. Two sweeps, or with
  `MayOverrun` a sweep and a late settlement, may both find a reservation still open before either
  has locked a counter, and give it back twice (section 8); the properties exclude the overrun
  themselves.

The difficulty is that the ledger is written by transactions that interleave between two row locks.
The invariant looks at it as a transaction does: `Overlay` lays the transaction's own uncommitted
writes over the committed rows, and a counter that the transaction has locked agrees with the
reservations *as it sees them* (`Backed` for at most, `Exact` for equal), while an unlocked counter
agrees with the committed ones. That is preserved because the writer of a reservation holds every
window of it before it publishes, and never moves it to another day (`MineOK`), and because two
writers hold different windows (`Apart`). One lemma for each kind of step — locking, writing,
publishing a commit — is used by all the actions of that kind.

### `AIBudgetBookProofs` (about `AIBudget` and `AIBudgetBook`)

`ImplementsBookCorrect` assumes `~MayOverrun` and a single sweep, as `CeilingHoldsCorrect` does and
for the same reason. The room for an entry is checked at `Reserve` and the entry appears in the book
only at the commit, after the provider's answer and other turns' commits; so the two have to be joined:

- `PendingCorrect` is the first half, an invariant on top of the ledger's: a reservation that a turn has
  written and not committed is the only one under its key, and one that the sweep has expired and not
  committed is still reserved. It is kept because a key is worked on by one turn until it lapses and
  by the sweep afterwards (`Committed`).
- `Room` is the second: the counters a turn has locked stay exact for the reservations as it sees them,
  and those differ from the committed ones by its own promise alone, so the promise still fits.

Every step then leaves the rows alone (`Quiet`, `OthersBooked`) or is one action of the book
(`PublishPromise`, `SettleBooked`, `SweepOneBooked`).

### `ChatTurnsProofs` (about `ChatTurns`)

- `TypeCorrect`, `AppliedOnRecordCorrect` and `PlansRespectApprovalCorrect` assume nothing: they hold
  whatever is sent again, outlives its lease, crashes or writes an older copy back.
- `OneOwnerCorrect` and `AnsweredOnceCorrect` assume `~MayResend` and `~MayOverrun`: no message is sent
  again while a request at it is open, and no request outlasts its lease. Either alone breaks them
  (section 8).

`Ledger` is behind the first: every copy of the chat, the stored one, those the requests hold and those
an approval has read, carries a message at most once and only if its row has a stored result
(`Within`), and a request that is about to append its message finds it in no copy, because its row
has none. `Guarded` is behind the second: from the freshness check to the checkpoint the row lock keeps
approvals out, so the approval that was compared is the one that is written over.

`Safe`, for the other two, says what an attempt knows of its request's row (`RowOK`, `AttemptOK`), and
that one attempt at most holds the session's claim and one the live lease of a request (`OneClaim`,
`OneRequest`). The steps are proved by what they touch: the attempt's own row (`OwnStep`), a row nobody
works on (`RowStep`), nothing of the requests (`ElsewhereStep`), or the end of an attempt
(`EndingStep`). This part does not use the row lock on the chat (`Unlocked`): the claim and the
lease are enough.

The properties named are also checked by the runs; the strengthenings are the provers' own.

## 10. What is only model-checked, and what is not modelled

Liveness (`Settles` of both modules, `Closes`, `CounterSettles`, `PromisesEnd`, `TurnsSettle`) stays with TLC: fairness and ENABLED
are outside the prover. Every other property of a passing run is a theorem. The bounds of the runs are
listed above.

Each property of a passing run has a mutant in `PROJECT.json`: a plausible slip in a mapped
definition (the operators named `<definition>_<slip>`) with which
TLC finds the property violated. They are not used by the specification.

Not modelled are the parts of 1.6, for the reasons given there and in `PROJECT.json`. Clock skew
between hosts and a database that loses committed rows are excluded throughout.

## 11. Running it

    tlc -workers 2 -config ScanJobsOrderly.cfg MCScanJobs.tla
    tlapm ScanJobsProofs.tla
    tlapm ScanJobsOrderlyProofs.tla
    tlapm SetupAlertsProofs.tla
    tlapm AlertDeliveryProofs.tla
    tlapm AIBudgetProofs.tla
    tlapm AIBudgetBookProofs.tla
    tlapm ChatTurnsProofs.tla

Every `.cfg` names the constants of its run; its module is the `MC…` module of the same prefix.
