---------------------------- MODULE OwnerPayouts ----------------------------
(***************************************************************************)
(* The automated owner payouts of one property: the daily sweep and the    *)
(* manual send (services/payout_scheduler.py, api/admin_payouts.py), the   *)
(* Stripe transfers they make (services/payout_service.py) and the Stripe  *)
(* Connect webhooks that follow each transfer to the owner's bank          *)
(* (api/stripe_connect_webhooks.py).                                       *)
(*                                                                         *)
(* A payout is computed from the reservations and the ledger, staged as a  *)
(* row nobody else sees, transferred, and only then committed: everything  *)
(* between the transfer and the commit can be lost.  Webhooks come late,   *)
(* early, twice and in any order.                                          *)
(*                                                                         *)
(* Time: PostgreSQL's NOW() is the start of the transaction, so a          *)
(* transaction carries a stamp, taken when it starts, and its day.         *)
(***************************************************************************)
EXTENDS Integers, FiniteSets, FiniteSetsExt

CONSTANTS
    Stay,       \* the property's reservations, confirmed or checked out
    CheckOut,   \* the day each of them ends
    Share,      \* the owner's share of each of them
    Worker,     \* sweeps and requests under way
    Row,        \* ids of payout_ledger; a transfer is named by the row it was made for
    Deposit,    \* Stripe's deposits to the owner's bank account
    None,
    Amount,     \* the amounts a NUMERIC(12, 2) column can hold, in cents
    Threshold,  \* minimum_payout_threshold; the code reads 0 as its default
    Period,     \* days between two scheduled payouts
    LastDay,    \* bound: days
    MaxTx,      \* bound: transactions that compute a payout
    MaxFaults   \* bound: crashes and lost answers

Standing == {"processing", "completed", "settled"}

Stamp == [at : Nat, day : Nat]
RowType == [status : Standing \cup {"failed"}, amount : Amount \ {0}, at : Nat,
            xfer : BOOLEAN, payout : Deposit \cup {None}]
TransferType == [amount : Amount \ {0}, outcome : {"pending", "paid", "failed"}]
DepositType == [rows : SUBSET Row, state : {"sent", "landed", "refused", "returned"}]

ASSUME PayoutsAssumption ==
    /\ IsFiniteSet(Stay) /\ IsFiniteSet(Row)
    /\ CheckOut \in [Stay -> Nat] /\ Share \in [Stay -> Nat]
    /\ Amount \subseteq Nat
    /\ None \notin Row /\ None \notin Deposit /\ None \notin Stamp
    /\ None \notin RowType /\ None \notin TransferType /\ None \notin DepositType
    /\ Threshold \in Nat \ {0} /\ Period \in Nat \ {0} /\ LastDay \in Nat
    /\ MaxTx \in Nat /\ MaxFaults \in Nat

VARIABLES
    today,     \* CURRENT_DATE
    clock,     \* the stamp of the next transaction
    account,   \* the row of owner_payout_accounts; next is None when paid by hand only
    ledger,    \* the committed rows of payout_ledger, by id
    journal,   \* clearing entries ('owner_payout_settled') written for each row
    job,       \* what each worker is doing
    transfer,  \* Stripe: the transfer made for each row id
    deposit,   \* Stripe: the deposits and the transfers they carry
    faults

vars == <<today, clock, account, ledger, journal, job, transfer, deposit,
          faults>>
stripe == <<transfer, deposit>>

Idle == [pc |-> "idle", kind |-> "none", since |-> None, stamp |-> None,
         row |-> None, amount |-> 0]

Total(f, S) == MapThenSumSet(LAMBDA x : f[x], S)

Init ==
    /\ today = 0 /\ clock = 1
    /\ account = [status |-> "active", next |-> 0, since |-> [at |-> 0, day |-> 0]]
    /\ ledger = [r \in Row |-> None]
    /\ journal = [r \in Row |-> 0]
    /\ job = [w \in Worker |-> Idle]
    /\ transfer = [r \in Row |-> None]
    /\ deposit = [d \in Deposit |-> None]
    /\ faults = 0

(***************************************************************************)
(* What the owner is owed.                                                 *)
(***************************************************************************)

StandingRows == {r \in Row : ledger[r] # None /\ ledger[r].status \in Standing}

\* The rows paid at or after the last payout, that payout's own row included.
AlreadyPaid(since) ==
    Total([r \in Row |-> ledger[r].amount],
          {r \in StandingRows : ledger[r].at >= since.at})

Earned(from, to) ==
    Total(Share, {s \in Stay : from <= CheckOut[s] /\ CheckOut[s] <= to})

\* calculate_pending_owner_amount: dates bound the income, stamps the payouts;
\* day is the transaction's CURRENT_DATE.
Pending(since, day) ==
    LET gap == Earned(since.day, day) - AlreadyPaid(since)
    IN  IF gap > 0 THEN gap ELSE 0

(***************************************************************************)
(* The sweep and the manual send.                                          *)
(***************************************************************************)

Begin(w, kind) ==
    /\ job[w].pc = "idle" /\ account.status = "active" /\ clock < MaxTx
    /\ job' = [job EXCEPT ![w] =
                 [Idle EXCEPT !.pc = "compute", !.kind = kind, !.since = account.since,
                              !.stamp = [at |-> clock, day |-> today]]]
    /\ clock' = clock + 1
    /\ UNCHANGED <<today, account, ledger, journal, stripe, faults>>

\* The worker's daily sweep, or one more asked for by POST /sweep or made by a
\* restarted worker: it lists the accounts that are due.
SweepSelect(w) ==
    /\ account.next # None /\ account.next <= today
    /\ Begin(w, "sweep")

ManualSend(w) == Begin(w, "manual")

\* Mutant: the manual send stops only below zero.
FloorOffByOne(kind) == IF kind = "sweep" THEN Threshold ELSE 0

\* What a payout must reach: the sweep's minimum, or anything above zero by hand.
Floor(kind) == IF kind = "sweep" THEN Threshold ELSE 1

\* A sweep that paid another owner before this one has committed, and computes
\* in a new transaction.
Skip(w) ==
    /\ job[w].pc = "compute"
    /\ \E day \in {job[w].stamp.day} \cup IF job[w].kind = "sweep" THEN {today} ELSE {} :
          Pending(job[w].since, day) < Floor(job[w].kind)
    /\ job' = [job EXCEPT ![w] = Idle]
    /\ UNCHANGED <<today, clock, account, ledger, journal, stripe, faults>>

Free(r) == ledger[r] = None /\ transfer[r] = None /\ \A w \in Worker : job[w].row # r

\* The staged row is not committed: only this worker sees it.
Stage(w, r) ==
    /\ job[w].pc = "compute" /\ Free(r)
    /\ \E fresh \in IF job[w].kind = "sweep" THEN BOOLEAN ELSE {FALSE} :
          LET stamp  == IF fresh THEN [at |-> clock, day |-> today] ELSE job[w].stamp
              amount == Pending(job[w].since, stamp.day)
          IN  /\ fresh => clock < MaxTx
              /\ amount \in Amount /\ amount >= Floor(job[w].kind)
              /\ clock' = IF fresh THEN clock + 1 ELSE clock
              /\ job' = [job EXCEPT ![w].pc = "transfer", ![w].row = r,
                                    ![w].amount = amount, ![w].stamp = stamp]
    /\ UNCHANGED <<today, account, ledger, journal, stripe, faults>>

\* stripe.Transfer.create without an idempotency key.
Created(w) == transfer' = [transfer EXCEPT ![job[w].row] =
                             [amount |-> job[w].amount, outcome |-> "pending"]]

TransferMade(w) ==
    /\ job[w].pc = "transfer" /\ Created(w)
    /\ job' = [job EXCEPT ![w].pc = "commit"]
    /\ UNCHANGED <<today, clock, account, ledger, journal, deposit, faults>>

TransferRefused(w) ==
    /\ job[w].pc = "transfer"
    /\ job' = [job EXCEPT ![w].pc = "refused"]
    /\ UNCHANGED <<today, clock, account, ledger, journal, stripe, faults>>

\* The answer is lost: the exception is taken for a refusal.
AnswerLost(w) ==
    /\ job[w].pc = "transfer" /\ Created(w) /\ faults < MaxFaults
    /\ job' = [job EXCEPT ![w].pc = "refused"]
    /\ faults' = faults + 1
    /\ UNCHANGED <<today, clock, account, ledger, journal, deposit>>

Entry(w, status, xfer) ==
    [status |-> status, amount |-> job[w].amount, at |-> job[w].stamp.at,
     xfer |-> xfer, payout |-> None]

\* Mutant: a payout whose transfer Stripe refused is recorded like any other.
RecordRefusedAsPaid(w) ==
    /\ job[w].pc = "refused"
    /\ ledger' = [ledger EXCEPT ![job[w].row] = Entry(w, "processing", TRUE)]
    /\ job' = [job EXCEPT ![w] = Idle]
    /\ UNCHANGED <<today, clock, account, journal, stripe, faults>>

RecordRefused(w) ==
    /\ job[w].pc = "refused"
    /\ ledger' = [ledger EXCEPT ![job[w].row] = Entry(w, "failed", FALSE)]
    /\ job' = [job EXCEPT ![w] = Idle]
    /\ UNCHANGED <<today, clock, account, journal, stripe, faults>>

\* Mutant: the row is not updated when the account is.
CommitLosesRow(w) ==
    /\ job[w].pc = "commit"
    /\ account' = [account EXCEPT !.since = job[w].stamp]
    /\ job' = [job EXCEPT ![w] = IF job[w].kind = "sweep"
                                 THEN [Idle EXCEPT !.pc = "advance"] ELSE Idle]
    /\ UNCHANGED <<today, clock, ledger, journal, stripe, faults>>

\* One commit: the row becomes visible with its transfer id, and the account's
\* last_payout_at is NOW(), the very stamp of the row's created_at.
Commit(w) ==
    /\ job[w].pc = "commit"
    /\ ledger' = [ledger EXCEPT ![job[w].row] = Entry(w, "processing", TRUE)]
    /\ account' = [account EXCEPT !.since = job[w].stamp]
    /\ job' = [job EXCEPT ![w] = IF job[w].kind = "sweep"
                                 THEN [Idle EXCEPT !.pc = "advance"] ELSE Idle]
    /\ UNCHANGED <<today, clock, journal, stripe, faults>>

\* The sweep moves next_scheduled_payout in a commit of its own.
Advance(w) ==
    /\ job[w].pc = "advance"
    /\ account' = [account EXCEPT !.next = today + Period]
    /\ job' = [job EXCEPT ![w] = Idle]
    /\ UNCHANGED <<today, clock, ledger, journal, stripe, faults>>

\* The open transaction is rolled back; a transfer already made stands.
Crash(w) ==
    /\ job[w].pc # "idle" /\ faults < MaxFaults
    /\ job' = [job EXCEPT ![w] = Idle]
    /\ faults' = faults + 1
    /\ UNCHANGED <<today, clock, account, ledger, journal, stripe>>

\* PATCH /schedule recomputes the next date; 'manual' clears it and stops the sweep.
PatchSchedule(next) ==
    /\ account' = [account EXCEPT !.next = next]
    /\ UNCHANGED <<today, clock, ledger, journal, job, stripe, faults>>

(***************************************************************************)
(* Stripe Connect and its webhooks.                                        *)
(***************************************************************************)

\* Stripe settles a transfer one way or the other and announces it.
Resolve(r, outcome) ==
    /\ transfer[r] # None /\ transfer[r].outcome = "pending"
    /\ transfer' = [transfer EXCEPT ![r].outcome = outcome]
    /\ UNCHANGED <<today, clock, account, ledger, journal, job, deposit, faults>>

Carried(r) == \E d \in Deposit : deposit[d] # None /\ deposit[d].state \in {"sent", "landed"}
                                 /\ r \in deposit[d].rows

OpenDeposit(d) ==
    LET S == {r \in Row : transfer[r] # None /\ transfer[r].outcome = "paid" /\ ~Carried(r)}
    IN  /\ deposit[d] = None /\ S # {}
        /\ deposit' = [deposit EXCEPT ![d] = [rows |-> S, state |-> "sent"]]
        /\ UNCHANGED <<today, clock, account, ledger, journal, job, transfer, faults>>

\* The deposit lands, or bounces at once, or is returned by the bank after it landed.
CloseDeposit(d, state) ==
    /\ deposit[d] # None
    /\ deposit[d].state = IF state = "returned" THEN "landed" ELSE "sent"
    /\ deposit' = [deposit EXCEPT ![d].state = state]
    /\ UNCHANGED <<today, clock, account, ledger, journal, job, transfer, faults>>

\* An event may be delivered as soon as what it tells has happened, late, never,
\* and any number of times.

TransferEvent(r, outcome) == transfer[r] # None /\ transfer[r].outcome = outcome
PayoutEvent(d, states) == deposit[d] # None /\ deposit[d].state \in states

Set(rows, status) == [r \in Row |-> IF r \in rows THEN [ledger[r] EXCEPT !.status = status]
                                                  ELSE ledger[r]]
Matching(r) == {q \in {r} : ledger[q] # None /\ ledger[q].xfer
                            /\ ledger[q].status = "processing"}

\* Mutant: the handler also runs for transfer.created.
HandleTransferCreated(r) ==
    /\ transfer[r] # None
    /\ LET hit == Matching(r)
       IN  /\ ledger' = Set(hit, "completed")
           /\ journal' = [q \in Row |-> IF q \in hit THEN journal[q] + 1 ELSE journal[q]]
    /\ UNCHANGED <<today, clock, account, job, transfer, deposit, faults>>

\* Mutant: a repeated transfer.paid is matched by its id alone.
HandleTransferAgain(r) ==
    /\ TransferEvent(r, "paid")
    /\ LET hit == {q \in {r} : ledger[q] # None /\ ledger[q].xfer}
       IN  /\ ledger' = Set(hit, "completed")
           /\ journal' = [q \in Row |-> IF q \in hit THEN journal[q] + 1 ELSE journal[q]]
    /\ UNCHANGED <<today, clock, account, job, transfer, deposit, faults>>

\* transfer.paid: the row that waits for it is completed and cleared in the
\* journal, in one transaction; an event that matches no row is acknowledged.
HandleTransferPaid(r) ==
    /\ TransferEvent(r, "paid")
    /\ LET hit == Matching(r)
       IN  /\ ledger' = Set(hit, "completed")
           /\ journal' = [q \in Row |-> IF q \in hit THEN journal[q] + 1 ELSE journal[q]]
    /\ UNCHANGED <<today, clock, account, job, transfer, deposit, faults>>

\* transfer.failed: last_payout_at stays where the payout put it.
HandleTransferFailed(r) ==
    /\ TransferEvent(r, "failed")
    /\ ledger' = Set(Matching(r), "failed")
    /\ UNCHANGED <<today, clock, account, journal, job, transfer, deposit, faults>>

Unsettled == {r \in Row : ledger[r] # None /\ ledger[r].payout = None}

\* Mutant: the status of the rows is not looked at.
HandlePayoutPaidAny(d) ==
    /\ PayoutEvent(d, {"landed", "returned"})
    /\ ledger' = [r \in Row |-> IF r \in Unsettled
                               THEN [ledger[r] EXCEPT !.status = "settled", !.payout = d]
                               ELSE ledger[r]]
    /\ UNCHANGED <<today, clock, account, journal, job, transfer, deposit, faults>>

\* payout.paid: every completed row of the account is settled, whichever
\* transfers the deposit carried.
HandlePayoutPaid(d) ==
    /\ PayoutEvent(d, {"landed", "returned"})
    /\ ledger' = [r \in Row |->
                    IF r \in Unsettled /\ ledger[r].status = "completed"
                    THEN [ledger[r] EXCEPT !.status = "settled", !.payout = d]
                    ELSE ledger[r]]
    /\ UNCHANGED <<today, clock, account, journal, job, transfer, deposit, faults>>

\* payout.failed: the rows still waiting for a deposit fail, whichever
\* transfers the deposit carried; a settled row keeps its payout id and is not found.
HandlePayoutFailed(d) ==
    /\ PayoutEvent(d, {"refused", "returned"})
    /\ ledger' = Set({r \in Unsettled : ledger[r].status \in {"completed", "settled"}},
                     "failed")
    /\ UNCHANGED <<today, clock, account, journal, job, transfer, deposit, faults>>

\* account.updated: the owner finishes onboarding, or Stripe restricts the account.
AccountUpdated(status) ==
    /\ account' = [account EXCEPT !.status = status]
    /\ UNCHANGED <<today, clock, ledger, journal, job, stripe, faults>>

NextDay ==
    /\ today < LastDay /\ today' = today + 1
    /\ UNCHANGED <<clock, account, ledger, journal, job, stripe, faults>>

Next ==
    \/ \E w \in Worker :
          \/ SweepSelect(w) \/ ManualSend(w) \/ Skip(w) \/ \E r \in Row : Stage(w, r)
          \/ TransferMade(w) \/ TransferRefused(w) \/ AnswerLost(w)
          \/ RecordRefused(w) \/ Commit(w) \/ Advance(w) \/ Crash(w)
    \/ \E r \in Row : \/ \E o \in {"paid", "failed"} : Resolve(r, o)
                      \/ HandleTransferPaid(r) \/ HandleTransferFailed(r)
    \/ \E d \in Deposit : \/ OpenDeposit(d)
                          \/ \E s \in {"landed", "refused", "returned"} : CloseDeposit(d, s)
                          \/ HandlePayoutPaid(d) \/ HandlePayoutFailed(d)
    \/ \E next \in {None, today + Period} : PatchSchedule(next)
    \/ \E s \in {"active", "restricted"} : AccountUpdated(s)
    \/ NextDay

Spec == Init /\ [][Next]_vars

(***************************************************************************)
(* Properties.                                                             *)
(***************************************************************************)

\* Every variable keeps its shape; a payout is never of nothing.
TypeOK ==
    /\ today \in Nat /\ clock \in Nat /\ faults \in Nat
    /\ account \in [status : {"active", "restricted"}, next : Nat \cup {None},
                    since : Stamp]
    /\ ledger \in [Row -> {None} \cup RowType]
    /\ journal \in [Row -> Nat]
    /\ job \in [Worker ->
                  [pc : {"idle", "compute", "transfer", "refused", "commit", "advance"},
                   kind : {"none", "sweep", "manual"},
                   since : Stamp \cup {None}, stamp : Stamp \cup {None},
                   row : Row \cup {None}, amount : Amount \cup {0}]]
    /\ transfer \in [Row -> {None} \cup TransferType]
    /\ deposit \in [Deposit -> {None} \cup DepositType]

\* A row that stands for money on its way or arrived names a transfer Stripe
\* really made, of the row's amount (payout_scheduler.py:184-209): a refusal, a
\* lost answer or a crash never leaves a row that claims a payment.
RowsHaveTransfers ==
    \A r \in StandingRows : /\ ledger[r].xfer
                            /\ transfer[r] # None /\ transfer[r].amount = ledger[r].amount

\* The liability is cleared in the journal exactly once for each payout that
\* was completed, however often and in whatever order Stripe repeats its events
\* (stripe_connect_webhooks.py:77-120: the UPDATE's status guard).
ClearedOnce ==
    \A r \in Row :
       /\ journal[r] <= 1
       /\ (ledger[r] = None \/ ledger[r].status = "processing") => journal[r] = 0
       /\ ledger[r] # None /\ ledger[r].status \in {"completed", "settled"} => journal[r] = 1

\* The journal clears, and the ledger calls completed or settled, only payouts
\* whose transfer Stripe paid; settled rows name a deposit of
\* the account that landed, not always the one that carried their money, and
\* the bank may have returned it since
\* (stripe_connect_webhooks.py:160-177).
SettledMeansPaid ==
    \A r \in Row :
       /\ journal[r] > 0 => transfer[r] # None /\ transfer[r].outcome = "paid"
       /\ ledger[r] # None =>
            /\ ledger[r].status \in {"completed", "settled"} => journal[r] > 0
            /\ ledger[r].status = "settled" =>
                 /\ ledger[r].payout # None /\ deposit[ledger[r].payout] # None
                 /\ deposit[ledger[r].payout].state \in {"landed", "returned"}

Recorded(r) == ledger[r] # None /\ ledger[r].xfer
BeingRecorded(r) == \E w \in Worker : job[w].pc = "commit" /\ job[w].row = r
Orphans == {r \in Row : transfer[r] # None /\ ~Recorded(r) /\ ~BeingRecorded(r)}

\* Money leaves without a ledger row only where a crash or a lost answer took
\* the record: each fault hides at most one transfer (payout_scheduler.py:184-236).
OrphansAreFaults == Cardinality(Orphans) <= faults

stageOf == [r \in Row |-> IF ledger[r] = None THEN "none" ELSE ledger[r].status]

Lifecycle == INSTANCE PayoutLifecycle WITH stage <- stageOf, cleared <- journal

\* Refinement: seen from the ledger and the journal, each payout lives the
\* abstract life of PayoutLifecycle, whatever Stripe, the workers and the
\* webhooks do: it settles only once completed, and a failed payout is never
\* revived by a late or repeated event.
ImplementsLifecycle == Lifecycle!Spec

\* What calculate_pending_owner_amount says it returns
\* (payout_scheduler.py:69-73), on the day it looks: the owner's share of the
\* stays not yet in a payout.
PendingIsUnpaid ==
    \A w \in Worker : job[w].pc = "transfer" =>
       job[w].amount = Earned(0, job[w].stamp.day)
                         - Total([r \in Row |-> ledger[r].amount], StandingRows)

\* "payout.failed -> payout_ledger status = 'failed'"
\* (stripe_connect_webhooks.py:10), settled rows included (line 198): where the
\* handler acts on a deposit, the rows that deposit settled are failed.
ReturnedDepositFails ==
    [][\A d \in Deposit : HandlePayoutFailed(d) =>
          \A r \in Row : ledger[r] # None /\ ledger[r].payout = d =>
                            ledger'[r].status = "failed"]_vars
=============================================================================
