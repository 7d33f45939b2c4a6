# Fortress Prime: TLA+ models, model checks and proofs

The repository is the back office of a cabin-rental company. Its core is
`fortress-guest-platform/backend` (FastAPI, PostgreSQL, Stripe, an ARQ worker on Redis,
and a legacy reservation system called Streamline). This directory models the parts of it
where money and nights can be lost: the **direct booking** path, the **bridge** that tells
the legacy system about settled reservations, the **owner statements** that are approved,
mailed and paid every month, the automated **owner payouts** with the Stripe events that
follow them, the **trust ledger** with its hash chain, and the **background jobs** that
draft mails for abandoned carts. Paths below are relative to
`src/fortress-guest-platform/backend/`.

1. [Inventory](#1-inventory)
2. [Modules](#2-modules)
3. [Direct booking](#3-direct-booking)
4. [Legacy bridge](#4-legacy-bridge)
5. [Owner statements](#5-owner-statements)
6. [Owner payouts](#6-owner-payouts)
7. [Trust ledger and approvals](#7-trust-ledger-and-approvals)
8. [Recovery jobs](#8-recovery-jobs)
9. [Runs](#9-runs)
10. [Proofs](#10-proofs)
11. [What disagrees with the documents](#11-what-disagrees-with-the-documents)
12. [Not modelled](#12-not-modelled)
13. [Plan](#13-plan)

## 1. Inventory

| Component | State | Operations | What is hard | What makes it correct |
|---|---|---|---|---|
| Direct booking (`api/direct_booking.py`, `services/{fast_quote,hold,booking_hold,reservation_finalization}_service.py`, `api/stripe_webhooks.py`) | `reservation_holds`, `reservations`, advisory and row locks, Stripe intents | quote, book, confirm-hold, two webhooks, storefront settlement, expiry sweep, cancel | READ COMMITTED interleavings, two kinds of lock taken in opposite orders, duplicated and late events, a TTL, crashes | no night sold twice; a live hold keeps its nights; one reservation per hold; a 2xx only after the commit; every request ends |
| Legacy bridge (`integrations/circuit_breaker.py`, `integrations/streamline_vrs.py`, `services/reconciliation_janitor.py`, `workers/hermes_sync.py`) | a circuit breaker per process, `deferred_api_writes`, `pending_sync` | bridge call, deferred write, janitor sweep, Hermes cycle | lost answers, outages, a breaker shared by coroutines, restarts | a completed row was applied; a row is given up only after real replays; queues drain |
| Owner statements (`services/{statement_workflow,balance_period,owner_payout_service}.py`, `api/admin_charges.py`, `tasks/statement_jobs.py`) | `owner_balance_periods`, `owner_charges`, Stripe transfers | generate, approve, void, mark paid, mark emailed, pay, send, charges | unlocked reads before writes, a transfer before the commit, batch jobs beside requests | what is paid and mailed is what the statement says; a finalized statement is frozen; one transfer per statement |
| Payout scheduler, Stripe Connect (`services/payout_{scheduler,service}.py`, `api/admin_payouts.py`, `api/stripe_connect_webhooks.py`) | `payout_ledger`, `owner_payout_accounts`, clearing entries | sweep, manual send, stage, transfer, schedule, five Stripe events | a transfer without a key before the commit, events early, late and twice | no row claims money that did not leave; a liability is cleared once; each fault hides at most one transfer |
| Trust ledger, approvals (`services/trust_ledger.py`, `services/financial_approval_service.py`, `api/financial_approvals.py`, part of `api/stripe_webhooks.py`) | `trust_transactions` with a hash chain, `financial_approvals`, Stripe invoices | absorb, invoice, invoice paid, checkout posting | unlocked reads of approval and chain head, duplicate events, an invoice sent before the commit | one entry per event; approvals say what is posted; one chain |
| Background jobs (`services/async_jobs.py`, `core/worker.py`) and recovery drafts (`services/hunter_service.py`, `api/hunter.py`) | `async_job_runs`, ARQ queue and results, `hunter_recovery_ops` | enqueue, run, watchdog; sweep, draft, approve | a row committed before it is queued, watchdog beside worker, restarts | success means a draft; only drafts are approved; a cart that waits gets its draft |
| Stripe webhook, other events (`api/stripe_webhooks.py`) | `capex_staging`, quotes | capital call, paid quote | duplicate deliveries read before either writes; errors acknowledged | posted once |
| Reservation desk (`services/reservation_engine.py`, `api/reservations.py`, `services/agentic_orchestrator.py`) | `reservations` | staff edits, check-in/out, the lifecycle loop | writes by id after a read; handlers that never commit | a cancelled stay stays cancelled |
| Reservation mirror, Channex, quotes and tax, messaging, agents, legal platform, market signals, front ends, daemons, deployment | mostly third-party or derived | | | see [section 12](#12-not-modelled) |

How they meet. The booking path and the Stripe webhook share the `reservations` and
`reservation_holds` tables and nothing else: every coordination is a lock or a constraint of
PostgreSQL. After its commit the webhook calls the bridge; the bridge shares the deferred
queue with the worker process and the breaker with every other caller in its own process.
Statements read reservations and charges, and meet the requests of the staff and the two
scheduled jobs only in the rows of `owner_balance_periods`; the payout goes to Stripe. The
automated payouts are a second way to pay an owner: they read reservations and
`payout_ledger`, not the statements. Checkouts, approvals and paid invoices post to the trust
ledger inside their own transactions. The worker process runs the loops of janitor, Hermes,
payout sweep, watchdog and jobs as coroutines; the jobs meet the staff in
`hunter_recovery_ops`.
`PROJECT.json` lists under `hazards` the lines where these meetings can go wrong.

## 2. Modules

| Module | What it is |
|---|---|
| `Stays` | stays (property, arrival, departure) and when two overlap |
| `StayInventory` | abstract specification: claims on nights are placed, booked and released |
| `DirectBooking` | the booking path; refines `StayInventory` |
| `DirectBookingInv` | its inductive invariants, in named parts |
| `DirectBookingProofs`, `DirectBookingClaims`, `DirectBookingRefinement` | their proofs: types and bookkeeping; disjointness; refinement |
| `DeferredOutbox` | abstract specification: a write is confirmed once or given up after its tries |
| `LegacyBridge`, `LegacyBridgeProofs` | bridge, breaker, janitor, Hermes; refines `DeferredOutbox`; its inductive invariant and proofs |
| `StatementBook` | abstract specification: figures are redrawn until closed, then paid and mailed as they are |
| `OwnerStatements`, `OwnerStatementsProofs` | statements, charges, payout, mail job; refines `StatementBook`; its inductive invariant and proofs |
| `PayoutLifecycle` | abstract specification: the stages of a payout and its clearing entries |
| `OwnerPayouts`, `OwnerPayoutsProofs` | sweeps, sends, transfers and webhooks; refines `PayoutLifecycle`; its inductive invariant and proofs |
| `TrustJournal` | abstract specification: a journal that only grows, each entry over one that stands |
| `TrustLedger`, `TrustLedgerProofs` | approvals, invoices, postings and the chain; refines `TrustJournal`; its inductive invariant and proofs |
| `RecoveryJobs`, `RecoveryJobsProofs` | sweep, queue, slots, watchdog and recovery operations; its inductive invariant and proofs |
| `MCDirectBooking`, `MCLegacyBridge`, `MCOwnerStatements`, `MCOwnerPayouts`, `MCTrustLedger`, `MCRecoveryJobs` | small instances for TLC |

Operators whose comment starts with "Mutant:" are plausible bugs of the definition that
follows them. Nothing uses them; substituted for the original they must make the property
named in `PROJECT.json` fail, which shows that the run can tell the difference.

## 3. Direct booking

**State.** `holds` and `res` are the committed rows; `tx[w]` is the transaction of the
request in worker slot `w` with its uncommitted writes (`until`, `new`, `expiring`);
`advLock` and `rowLock` are PostgreSQL's advisory lock per property
(`pg_advisory_xact_lock`) and the row locks on holds. `pi` and `paid` are Stripe's side,
`acked`, `told` and `emitted` record what the outside was told.

**Actions.** One per statement of a transaction that another session can observe or that can
block: `AcquireLock`, `ExpireStale` (one UPDATE, it takes the locks of all rows it changes),
`BookCheck`/`BookPay`/`BookCommit` (`create_inventory_hold`, `create_checkout_hold`),
`FinalizeRow`/`FinalizeCheck`/`ReservationInsert`/`FinalizeCommit`/`FinalizeEmit`
(`_finalize_locked_hold` for the client call and both webhooks), `StoreStart` ...
`StoreCommit` (`_process_storefront_settlement`), `CancelBooking`. `Crash` ends a session
anywhere; `DeadlockVictim` is PostgreSQL's detector, which aborts one session of a cycle of
waits.

**Abstractions.** Prices, taxes, yield rules and blocked days only refuse more and are left
out. A finalizer asks for availability twice (before and inside `create_reservation`) under
the same lock; the model keeps the last. A 410 rolls the "expired" mark back with the
transaction, so the refused transaction leaves no trace. `Exclusion` says whether the
EXCLUDE constraints of the migration are installed, because the code works differently
with and without them; "pending" reservations, which the queries count as occupying and the
constraint does not, do not arise on these paths.

**Properties.** `NoDoubleBooking`, `DatesLockedForTTL`, `OneReservationPerHold`,
`AnsweredMeansBooked`, `EventsFollowBookings`, `ConvertedIsFinal`, and the refinement
`ImplementsInventory`: a hold stands while it is live, and past its expiry only while a
finalizer that found it live converts it. `DeadlocksCostNothing` is about the lock-order
inversion between booking (advisory lock, then rows) and finalizing (row, then advisory lock):
the session PostgreSQL aborts has no PaymentIntent and no reservation to lose, and its hold is
still there. Liveness: `RequestsEnd` (the inversion never blocks for ever) and
`PaidHoldSettles`.

**Fairness.** `SF` on the steps of each running transaction: PostgreSQL queues lock requests
in arrival order and the server keeps running what can run. `SF` on the delivery of a paid
hold's event: Stripe redelivers until it gets a 2xx. Nothing is assumed of guests, the clock
or crashes.

## 4. Legacy bridge

**State.** One `breaker` per process (the API process and the ARQ worker each import their
own), the handler of each settled reservation (`bridge`), the two tables `deferred` and
`sync`, what the janitor and Hermes have in hand, and `applied`, the reservations Streamline
has recorded. `sends` and `streak` count replays and consecutive outcomes for the properties.

**Actions.** A remote call is two actions, so that other coroutines move the breaker in
between: `BridgeStart`/`BridgeReturn`, `JanitorPick`/`JanitorReturn`,
`HermesPick`/`HermesReturn`/`HermesFetch`. The three attempts that tenacity makes are one
call which, when it fails, may have reached Streamline. `OtherCall` stands for every other
RPC through the same breaker. `CrashWeb` and `CrashDaemon` lose breakers and calls in flight.

**Abstractions.** The failure count is capped at the threshold (beyond it nothing differs).
The order and batch size of the janitor are left open. Hermes's parity audit uses another
client and writes audit rows only. An unconfigured Streamline and rows with an unreadable
payload are left out. `circuit_breaker.py:190` names a recovery worker file that does not
exist; the janitor is what recovers.

**Properties.** `CompletedMeansApplied` and `GivenUpAfterRealReplays`, the liveness
`DeferredWritesDrain` and `SyncRowsEnd`, and two that are proved for `Spec` only:
`ImplementsOutbox`, the promise of the queue as a whole, and `CircuitChanges`, what remains true
of a breaker that never closes: it opens on the last of `Threshold` failures in a row, and only a
restart closes it.

**Fairness.** `WF` on the steps of the loops (every call ends: httpx has timeouts), `SF` on
picking each row, since a sweep visits every pending row and a row is only passed over while
the circuit is open. `DeferredWritesDrain` additionally assumes, inside the property, that
the worker's circuit is eventually usable for good.

## 5. Owner statements

**State.** `row[p]` is the `owner_balance_periods` row of month `p` of one account (rows of
different accounts never meet); `locked` its row lock; `posted[c]` the month of a charge;
`op[w]` what the request or job in slot `w` is doing, with the figure it read; `transfers`,
`remembered` and `forgets` are Stripe's side (an idempotency key may be dropped after a day);
`mailed` the balances the owner has been sent.

**Actions.** Generation is read-and-lock then write (`GenerateLock`/`GenerateWrite`), or, for
a month without a row, read the previous closing balance then insert
(`GenerateNew`/`GenerateInsert`). The lifecycle calls are a read with `db.get` that checks
the status (`ApproveStatement`, `VoidStatement`, `MarkStatementPaid`,
`MarkStatementEmailed`) and an update by id (`WriteRow`) with no lock in between. Paying is
a read, a transfer, and a write (`PayOwner`, `TransferAnswered`/`TransferFails`, `WriteRow`).
The mail job lists, renders and sends, then calls `mark_statement_emailed`. Charges check the
month's status and commit later. `Abandon` ends any of these anywhere: a crash, a rollback
or a dry run.

**Abstractions.** A charge is one unit and a month's income is a constant, so a month's net
changes exactly when charges do; editing an amount has no effect until the month is
regenerated, as has posting a charge. Generation loops over all accounts and commits once; the
model's generation is of one account. Parallel mode is off. A replay of a transfer with
other metadata (another admin) is refused by Stripe: a `TransferFails`. The truncation in
`int(amount * 100)` is left out. `recompute_obp_for_charge_event` is documented as called by
`admin_charges.py` but has no caller, so it does not appear.

Three lines of this code cannot run as written, and the model follows their intent:
`stripe_transfer_id` and `paid_amount` (`owner_payout_service.py:189-190`) are not columns
of the ORM class, so they are not stored, and the message at line 91 would raise before the
"already paid" answer, a refusal either way; `statement_jobs.py:231` reads a field that
outcomes do not have, after the commit.

**Properties.** `TransfersMatchStatement` and `MailedFiguresStand`: although nothing is locked
between read, transfer or mail and write, what left the house is what the row still shows,
because money and mail leave for finalized rows only and `FinalizedIsFrozen`.
`OneTransferPerKey` and `PaidMeansTransferred` are about retries, lost answers and crashes
around the transfer. Two are proved only: `ImplementsBook`, which says in one specification
what the unlocked reads and writes come down to, and `PaidAgain`: a statement recorded as paid by
Stripe is transferred again only after Stripe dropped its key. No fairness is assumed: all of
these are safety.

## 6. Owner payouts

**State.** `account` is the owner's row (`status`, `next_scheduled_payout`,
`last_payout_at` as `since`); `ledger` the committed rows of `payout_ledger`; `journal`
counts the clearing entries of each row; `job[w]` is a sweep or a manual send with what it
read; `transfer` and `deposit` are Stripe's side (`transfer` is named by the row it was made
for, since the call carries the row's id in its metadata). `today` and `clock` are the two
grains of time the code mixes: dates bound the income, stamps the payouts.

**Actions.** `SweepSelect` and `ManualSend` begin; `Stage` inserts a row nobody else sees
with `calculate_pending_owner_amount` of that moment; `TransferMade`, `TransferRefused` and
`AnswerLost` are the three ends of `stripe.Transfer.create`; `RecordRefused` and `Commit`
make the row visible; `Advance` moves the date in a commit of its own. `Crash` ends any of
these. `PatchSchedule` and `AccountUpdated` change the account beside them.
`HandleTransferPaid`, `HandleTransferFailed`, `HandlePayoutPaid` and `HandlePayoutFailed`
are the webhook's handlers, enabled from the moment Stripe can tell what they hear and as
often as it likes, also before the commit of the row they look for.

**Abstractions.** PostgreSQL's `NOW()` is the start of the transaction, so a row's
`created_at` and the `last_payout_at` set with it are one stamp. A sweep that paid another
owner first is in a new transaction by the time it stages: the choice `fresh`. The trust
entry of a payout is posted in the same transaction and its error swallowed; one that spoils
the transaction is a `Crash`. Its content is left out, as are rounding and onboarding. Only one
property of the owner is modelled; the sweep treats properties one after another. The dates that
bound the income are of the transaction too (`CURRENT_DATE`): `Pending` takes the day of its stamp.

The webhook logs each event before it handles it (`_log_event`,
`api/stripe_connect_webhooks.py:36-57`, called at line 290). Its SQL writes the payload as
`:raw::jsonb` inside SQLAlchemy's `text()`, whose pattern for parameters does not take a name
that a colon follows: every event may well be answered with an error before its handler runs.
That depends on the library and not on this code's control, so the model follows the handlers
as they are written, as if the log worked; with a log that always fails, `HandleTransferPaid` to
`AccountUpdated` never happen, and rows stay in processing. No safety property below is hurt by that.

**Properties.** `RowsHaveTransfers`, `ClearedOnce`, `SettledMeansPaid` (a settled row names a
deposit of the account that landed, not necessarily one that carried it), the refinement
`ImplementsLifecycle`, which lets a settled payout fail, as the module's docstring and the
failure handler's query do (that the query never finds one is the run `payout_returned`), and `OrphansAreFaults`: without an idempotency key a transfer can
lose its row, but only one for each crash or lost answer. What cannot be claimed is that an
owner is paid once for a stay: two sweeps at a time, or a lost answer, pay twice, and so do
payouts one after the other without any fault, since income is bounded below by the *day* of the
last payout and the deduction by its *stamp*. With shares of 10, 12 and 4 for stays that end
on days 0, 2 and 3, a payout on day 1 (10) and two on day 2 (2 and 10) have paid all 22 that were
due; the next looks at everything that ended since day 2, 12 of it paid already, deducts only
the last 10, and pays 2 again.

## 7. Trust ledger and approvals

**State.** `app` holds the approvals, `bill` Stripe's invoices, `ledger` the committed rows
of `trust_transactions`; `op[w]` is a request or an event in work with the time it took and
the signature it read. A signature is unique to its row, so the event id stands for it.
`overlapped` remembers whether two postings were ever under way together.

**Actions.** `Absorb`, `ExecuteInvoice`/`CreateInvoice`, `InvoicePaid` and `Checkout` lead
to a posting, which is `Stamp` (the time), `Sign` (read the newest signature), `Insert`
(unique by event; waits for an uncommitted insert of the same event) and `Commit` with the
caller's changes. `Abort` rolls back anywhere: an error, a crash, or
`db.expunge(txn)` after a duplicate (`trust_ledger.py:45-71`), which may go on or raise. The
webhook acknowledges its errors (`stripe_webhooks.py:368`), so Stripe may or may not deliver
again.

**Abstractions.** Accounts and amounts (debits and credits are written as literal pairs), the
reservation's new total, and the statuses `auto_resolved` and `rejected` are left out. The
other posters post exactly like `Checkout`.

**Properties.** `PostedOnce`, `ApprovedIsPosted`, `ClearedIsPaid`: approvals are read
without a lock and invoices sent before anything is committed, and yet what an approval
shows agrees with the entries. That an approval is *either* absorbed *or* invoiced does not
hold: two requests at once do both. `LoneChainVerifies`: overlap of postings is the only
thing that breaks the chain; rollbacks, duplicates and redeliveries do not. And a fork is all
that overlap can do: `ImplementsJournal` says that rows are only added, each once and signed over
a row that stands, and that an approval changes in the step in which its entry appears.

## 8. Recovery jobs

**State.** `op` is the status of each cart's recovery operation, `drafted` the operations
with a draft, `row` the job rows, `entry` ARQ's queue entry and then the result of each,
`slot` what the worker runs, `sweep` the sweep loop with its own job (at most one exists),
`dog` what the watchdog has in hand, `approving` the operations a request of the staff has read
as ready and not yet written.

**Actions.** `SweepInsert`/`SweepEnqueue` queue a sweep; `SweepStage`/`SweepInflight` find
the carts that wait and have no job in flight; `DraftInsert`/`DraftEnqueue` commit a row and
put it into Redis, or fail to: the entry is refused or its answer lost, and the row is marked
failed (`DraftEnqueueFails`, `DraftUnqueued`), or Redis cannot be reached, and the row stays
queued, since `create_arq_pool` is called before the `try` (`DraftPoolFails`; for the sweep's own
row, an outcome of `SweepEnqueue`). `Take` ... `Leave` run a draft in a slot. `GrowOld` makes a
row stale; `WatchdogLoad` reads it, `WatchdogAsk` asks Redis for a result, and `WatchdogRequeue`
and `WatchdogMark` repair it with no look at what happened since. `WatchdogFails` is an error in
any of these: it ends the pass, or, while the operation is sent back, is swallowed and the row
fails alone. `ApproveRead` and `ApproveWrite` are the staff: the status is read without a lock
and written by id. `Restart` empties slots and watchdog; ARQ hands running jobs out again, up to
`MaxTries` times.

**Abstractions.** A cart stays on the list of candidates, so its operation is found by each
sweep; a cart that was dispatched and is abandoned anew is another member of `Op`. The sweep's
slot and its own retries are not counted. Other kinds of job share row, wrapper and queue, and
what they do is not modelled. ARQ's `job_timeout` (`worker.py:2252`), which would leave a row
running and its operation in EXECUTING, an hour by default, is left out: the
one long call of a draft has a timeout of 75 seconds of its own. Errors of the database are left out but for those of the watchdog; in
particular, the error handler of a draft that fails itself (`worker.py:1482-1489`) would leave its
operation in EXECUTING with nobody at work. Sessions keep what they read after a commit
(`expire_on_commit=False`, `core/database.py:62`).

**Properties.** `SucceededMeansDrafted`: four writers set the status without reading it.
`ApprovedWasDrafted`. `NeverStranded`: the sweep looks for carts in QUEUED only, so one left in
EXECUTING would be lost; with fewer faults than tries an operation in EXECUTING is in a slot or
an entry for it will be taken. Liveness, `DraftsArrive`: a cart that waits gets its draft in spite of lost
entries, failed drafts and a watchdog that repairs what is not broken, with two exceptions
that are the code's. A sweep whose row was committed and never enqueued stays queued for
ever, since the watchdog skips that job's rows (`worker.py:250-253`) and the loop sees a sweep
in flight: `sweep.pc = "lost"`. And with as many restarts as tries (`arq_max_tries`, 3 by
default) a draft can be given up while its operation says EXECUTING: `faults >= MaxTries`.
`DraftsStand` (proved, no run): a draft that is ready, or staff's approval of it, is not undone,
unless by one of three causes. A fault; the watchdog's requeue, which looks at no status; and
a late look (`LateLook`): a sweep commits what it read of the carts, asks afterwards which have
a job in flight and goes by the status it read before (`hunter_service.py:547-563`), so that a
draft that ends in between is drafted anew.

**Fairness.** `WF` on the loops, the slots, the watchdog's steps and on time passing; `SF` on
`DraftDone` (an orchestrator asked again and again answers at last), on ARQ taking or giving up
an entry (it takes them in the order of their scores, the slot being free again and again) and on
the watchdog taking a stale row (oldest first). Nothing is assumed of staff or restarts.

## 9. Runs

| Run | Instance | Shows |
|---|---|---|
| `booking_locks` | 2 holds, 2 reservations, 2 sessions, 2 stays overlapping in one night, TTL 1, clock to 2, 1 crash, no EXCLUDE, no storefront; 0.76 M states | locks alone keep every safety property and the refinement, and deadlocks cost nothing |
| `booking_exclusion` | 1 hold, 3 reservations, 1 storefront intent, EXCLUDE installed; 0.18 M | with the lock-free storefront the constraint keeps `NoDoubleBooking` |
| `booking_progress` | 1 hold, 1 reservation, 2 sessions; 40 k | `RequestsEnd`, `PaidHoldSettles` under `FairSpec` |
| `bridge` | 2 reservations (one storefront), 1 deferred row, threshold 1, 2 retries, 2 attempts, 1 restart; 0.25 M | `CompletedMeansApplied`, `GivenUpAfterRealReplays`; under `FairSpec` the queues drain |
| `statements_safety` | 2 months (no income, then 2), 1 charge, 2 workers, 1 dropped key per month; 4.9 M | the properties of section 5 |
| `payouts_safety` | 2 stays, 2 workers, 2 rows, 1 deposit, 3 transactions, 2 days, 1 fault; 0.24 M | the properties of section 6 and the refinement |
| `trust_safety` | 1 approval, 2 invoices, 1 checkout, 2 workers, 4 postings; 0.32 M | the properties of section 7 and the refinement |
| `jobs_progress` | 1 cart, 2 job rows, 1 slot, 2 tries, 2 faults; 0.98 M | the properties of section 8, `DraftsArrive` included; with 2 slots the safety part passes 5.2 M states too |
| `breaker_reopens`, `statement_paid_twice`, `payout_pending`, `payout_returned` | the smallest instances that show it | end in a violation: [section 11](#11-what-disagrees-with-the-documents) |

Why the bounds are enough to be interesting. Every race here is between two actors; a third
only adds another pair (the deadlock cycle advisory lock / hold row needs two, a broken chain
two postings, a double payout two sweeps). Two overlapping stays make every conflict; stays that
do not overlap never touch each other except through the sweep, which the two holds exercise.
TTL 1 with a clock to 2 reaches before, at and after the expiry. The last month with a debt
carried in (0 less a charge) and a positive net separates "what is owed" from "what is paid".
Retries, attempts and tries of 2 separate first, middle and last; a threshold of 1 opens a
circuit on the first failure, the case in which rows are skipped most often (`breaker_reopens` has
2, and the safety part of `bridge` passes with a threshold of 2 and two rows too, 3.0 M states). Two payout rows with
one deposit let a deposit's event meet a row it did not carry. Two invoices for one approval are
what a crash between invoice and commit leaves. One crash is enough for each position of one
process; the proofs have no bound on any of these.

Deadlock checking is off in every cfg because the bounded instances really stop: the clock, the
fresh ids and the crashes run out, and a system without requests rests. That nobody waits
for ever is what `RequestsEnd`, `DeferredWritesDrain`, `SyncRowsEnd` and `DraftsArrive` say.

Symmetry is used in safety runs only, over sets of ids the specifications only compare.

## 10. Proofs

All theorems are about `Spec` for every value of the constants that satisfies the named
assumption of the module (`ConstantsAssumption`, `BridgeAssumption`, `StatementAssumption`,
`PayoutsAssumption`, `LedgerAssumption`, `JobsAssumption`); TLC evaluates the assumptions in
the runs. The assumptions say that stays are non-empty, that ids of different kinds differ
and none of them is `None`, that limits are positive numbers and that the sets summed over or
counted are finite.

*Direct booking.* `BookkeepingInvariant` is inductive: the shape of each transaction record,
who owns which lock, that ids in use are fresh, that a row read FOR UPDATE stays active until
its owner writes it, and that reservations and converted holds point at each other. Type
correctness needs the shape (an operation decides the range of `src`).
`OneReservationPerHoldTheorem` is a part of it. On top of it:

- `ExclusionPreventsDoubleBooking` (assumes `Exclusion = TRUE`): reservations and INSERTs
  not yet committed are disjoint (`InsertsDisjoint`); the constraint makes an INSERT wait for
  or fail on any overlapping one.
- `ClaimsInvariant`: holds that stand, reservations made from holds, and holds about to be
  committed are disjoint (`ClaimsDisjoint`), whatever the storefront does. A session may
  rely on its availability check until its commit because it owns the advisory lock; a hold
  being converted stands past its expiry for the same reason.
- `LocksPreventDoubleBooking` and `DatesAreLocked` (assume there is no storefront,
  `Intent = {}`).
- `ConversionIsFinal`, an action property: the sweep only takes rows that are active, and
  the row lock keeps them so.
- `CheckoutImplementsInventory`: every step places, lapses, books or releases claims, or
  stutters. It needs `SweptAreOver`: a row in a sweep's hands is past its expiry, so the
  commit of the sweep changes no claim.
- `InventoryIsSafe` and `NothingIsPromisedTwice`: the abstract inventory keeps its own promise,
  that standing claims never share a night, and the checkout inherits it through the
  refinement. The first speaks of the abstract specification alone.
- `DeadlocksAreHarmless`. Ownership of locks (`AdvisoryLockOwned`, `RowLockOwned`) says that who
  needs a lock has it; here the converse is needed, that nobody has a lock without a reason
  (`LocksJustified`), and that a booking that has not paid has no intent (`UnpaidBookings`).
  A session that waits and is waited for is then a finalizer at the advisory lock or a sweep of
  stale holds (`CycleShape`), and neither has charged or inserted anything.
- `AnswersAreTrue` and `EventsAreTrue`: what was answered and announced agrees with the rows
  (`OutsideFollows`): an event is owed by one session at most, and only after its commit.

*Legacy bridge.* `BridgeInvariant` adds to the properties what is in hand (`InHand`: the row
the janitor works on is pending and has retries left), what each status implies
(`RowsInOrder`) and the account `retries + (1 if in flight or completed) <= sends <=
retries + ... + crashes`, from which `GivenUpTheorem` follows. `CircuitsOpenOnRuns` adds
`CountsRuns`: while a circuit is closed its failure count is the length of the run of failures.
`Refinement` maps the queue to `DeferredOutbox`: of all the steps only the janitor's and the
failed bridge call touch it.

*Owner statements.* `StatementInvariant` adds: a generation under way holds the lock of an
open row (so no lifecycle write lands between its read and its write), a payment in hand
carries the net of a row that is finalized, the mail job has finalized rows only, and the
count of transfers against keys. The proof regroups it per worker and per month
(`GoodOp`, `GoodMonth`), because a step changes one of each. `FinalizedStatementsAreFrozen`
is the action property; `PaidHasTransfer` says that no crash records a payment without one.
`PaidAgainOnlyForgotten` combines the count of keys with it: a month recorded as paid by Stripe
has a transfer, so without its key in Stripe's memory one key was dropped. `Refinement` maps
the rows to `StatementBook`. It needs `RowsRead` (a lifecycle call in hand has read a row, and
rows are never deleted), and that a generation in hand has an open row, so that a write by id
never redraws a closed statement.

*Owner payouts.* `PayoutInvariant` says of each job that the row in its hands is free in the
ledger and, about to be committed, has its transfer (`GoodJob`), that two jobs never hold one
row (`Apart`), and of each row how status, journal, transfer and deposit agree (`GoodRow`).
`Refinement` maps every step to one of `PayoutLifecycle` or a stutter: a webhook changes many
rows at once, hence the sets in `Settle` and `Fail`. `OrphansCounted` bounds the cardinality of
a set by a counter: a step adds at most one member, and only with a fault.

*Trust ledger.* The invariant adds: the event a worker posts is of its own approval (`Hands`),
an uncommitted insert is of an event nobody else inserts or has posted (`Inserts`), and, while
postings have not overlapped, the one under way carries the newest stamp and is signed over the
newest row (`Lone`). From it `EventsPostedOnce`, `ApprovalsArePosted`, `ClearingsArePaid` and
`LoneChainIsIntact`. `Refinement` maps the committed rows to `TrustJournal` and adds `Rooted`:
a signature in hand is over a row that stands. It does, because the newest row is read from what
is committed, and committed rows stay.

*Recovery jobs.* The invariant adds that whatever is in hand has a row (`InHand`) and that a
success about to be told, or an approval about to be written, has its draft already
(`SuccessInHand`); rows keep their operation.
`SuccessIsReal` and `ApprovedIsDrafted` follow for every number of jobs, slots and restarts.
`NobodyStranded` needs `Running`: an entry's tries are bounded by the faults so far, one more
while it is taken (`TriesAreFaults`: only a restart makes ARQ hand an entry out again), and each
taken entry is in one slot at most (`OneSlotPerEntry`). An entry that is given up has used all its
tries, hence as many faults. `DraftsStandUndisturbed` proves `DraftsStand` for behaviours without
the three causes (`Undisturbed`). It needs `Calm`: a cart has one job in flight at most, an
entry that waits, or is about to be queued, is for a cart in QUEUED (`AheadWaits`), what
a sweep has yet to queue still waits (`TodoWaits`), row and operation are where the slot is
(`InStep`), a success the watchdog is about to write is of a job that has ended (`DogLooks`), and
what staff have read as ready still is or is approved (`ReadStands`). Each of the causes can
break `Calm`.

Only model-checked: the liveness properties (`RequestsEnd`, `PaidHoldSettles`,
`DeferredWritesDrain`, `SyncRowsEnd`, `DraftsArrive`), as fairness and ENABLED are out of the
prover's reach. Every safety and action property of the passing runs is also a theorem.

Six results are proved and are not runs: `ImplementsBook`, because `StatementBook` draws figures
from all of `Int`, which TLC cannot enumerate, and `NothingPromisedTwice`, `CircuitChanges`,
`ImplementsOutbox` and `PaidAgain`, whose states the runs visit already for the properties they
follow from; the sixth is `DraftsStand`, below. Before the proofs TLC found no violation of the five in the full state spaces of
`booking_locks`, the larger instance of `bridge` and `statements_safety` (`ImplementsBook` with its figures
cut to -5..5), and a counterexample to `PaidAgain` without its exception for dropped keys. For two carts,
jobs and slots and no faults TLC found `Calm` invariant and `DraftsStand` true where watchdog
and late looks are excluded (0.4 M states), and a counterexample to `DraftsStand` where
late looks are let in.

## 11. What disagrees with the documents

Four are runs that end in a counterexample and entries under `findings`.

1. `breaker_reopens`: HALF_OPEN is computed and never stored, so a breaker that opened once
   never closes; after a recovery one failure opens it again. What is left is
   `CircuitsOpenOnRuns`.
2. `statement_paid_twice`: a paid statement that is marked emailed is payable again. The
   idempotency key is what is left, as long as Stripe keeps it: `PaidAgainOnlyForgotten`.
3. `payout_pending`: the payout just made is deducted again from the next period's income. The
   error goes the other way too: a third payout may pay again what the one before the last
   paid ([section 6](#6-owner-payouts)).
4. `payout_returned`: `payout.failed` is documented to fail the rows of its deposit, settled ones
   included, but looks for rows without the payout id that settling gives them. A returned deposit
   leaves its rows settled, and fails completed rows that it did not carry.

Others were met while modelling. The models contain the behaviour, and no property claims
the opposite:

- "Dates are locked for TTL" (`api/direct_booking.py:660`) does not hold against the storefront
  settlement, which reads availability without the advisory lock; and a storefront payment for
  nights already taken is acknowledged and becomes neither a reservation nor a refund
  (`api/stripe_webhooks.py:585`).
- Hermes marks a booking synced although Streamline refused it (`workers/hermes_sync.py:6`).
- Regenerating a month leaves the opening balance of the next one behind
  (`models/owner_balance_period.py:4-5`).
- The chain forks when two postings overlap
  (`docs/architecture/cross-division/email-to-financial.md:48-50`), and `_process_invoice_paid`
  clears approvals that are not approved (docstring at `api/stripe_webhooks.py:261`).
- "Every inbound event is logged to stripe_connect_events" (`api/stripe_connect_webhooks.py:13`):
  the insert is likely to fail for each ([section 6](#6-owner-payouts)).
- The watchdog repairs stale rows (`core/config.py:629`) except those of the sweep, and sends
  an operation that was approved meanwhile back to wait. A sweep that looks late for jobs in
  flight has a cart drafted again whose draft is ready ([section 8](#8-recovery-jobs)).

## 12. Not modelled

Of the modelled components: after a client confirmation converted the hold first, the webhook
returns early and Streamline is never told (nothing promises otherwise); the hold blocks
pushed to Streamline at checkout; the endpoints of staff that write and never commit; capital
calls and paid quotes in the Stripe webhook; onboarding of payout accounts; every kind of
background job beside the sweep, the drafts and the loops of the other modules; amounts
below the level of whole numbers.

Components left out, with reasons, are in `PROJECT.json`. In short: the reservation desk is
planned; the reservation mirror is a one-way import; Channex state is the third party's;
quotes, pricing and tax are stateless arithmetic; messaging, SEO and the legal platform are
language-model and document I/O with row statuses; the market signals are numeric batch
code; front ends, gateways, daemons and deployment keep no state of this system.

The repository has some 265,000 lines in 956 files of implementation, most of them in those
components. The models stand for the few files in which concurrent writers, money and
external systems meet, and for about one line in sixty of the whole.

## 13. Plan

Done: `Stays`, `StayInventory`, `DirectBooking`, `DeferredOutbox`, `LegacyBridge`,
`StatementBook`, `OwnerStatements`, `PayoutLifecycle`, `OwnerPayouts`, `TrustJournal`,
`TrustLedger` and `RecoveryJobs`, each with its proofs. In this order, next:

1. `ReservationDesk`: check-in, check-out, staff edits and the lifecycle loop over
   `DirectBooking`'s reservations. Property: a cancelled stay stays cancelled.
2. Capital calls and paid quotes as further posters of `TrustLedger`.
3. `StatementAllocation`: the split of a stay across months as a pure operator, checked
   against "the parts add up to the whole".
4. Compositions: `DirectBooking` with `LegacyBridge` through the committed reservation (an
   outbox as the abstract specification: every settled reservation is eventually applied or
   given up), and `OwnerStatements` with `OwnerPayouts` through Stripe's transfers (a stay's
   share is paid at most once by the two together, which nothing in the code ensures).
5. Theorems wanted: that money for one owner leaves twice only with two sweeps at a time or a
   fault, bounded per row (`OwnerPayouts`; the sums of amounts are beyond the provers, the
   counting of rows is not).
