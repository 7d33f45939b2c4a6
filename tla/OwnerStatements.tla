-------------------------- MODULE OwnerStatements --------------------------
(***************************************************************************)
(* The monthly statements of one owner account (rows of                    *)
(* owner_balance_periods), the charges that go into them, and the Stripe   *)
(* transfer that pays them.                                                *)
(*                                                                         *)
(* Every lifecycle call reads the row with db.get, checks its status and   *)
(* then updates the row by its id: two steps, with no lock in between.     *)
(* Only generation locks the row it rewrites (SELECT ... FOR UPDATE).      *)
(* Worker slots stand for the requests and jobs under way; each may die at *)
(* any step.  Amounts are whole numbers; a charge is one unit.             *)
(***************************************************************************)
EXTENDS Integers, Sequences, FiniteSets

CONSTANTS
    LastPeriod,     \* the months are 1..LastPeriod
    Charge,         \* charges that may exist at the same time
    Income,         \* revenue less commission of each month
    Worker,         \* requests and jobs that can run at the same time
    None,
    MaxForgets      \* bound on Stripe dropping an idempotency key

ASSUME StatementAssumption ==
    /\ LastPeriod \in Nat \ {0}
    /\ IsFiniteSet(Charge)
    /\ Income \in [1..LastPeriod -> Int]
    /\ None \notin Charge \cup Worker
    /\ MaxForgets \in Nat

Period == 1..LastPeriod

VARIABLES
    row,        \* owner_balance_periods
    locked,     \* the worker holding each row's lock
    posted,     \* the month each live charge is posted in; 0: no such charge
    op,         \* what each worker is doing
    transfers,  \* Stripe: the amounts transferred for each statement
    remembered, \* Stripe: statements whose idempotency key is remembered
    forgets,    \* Stripe: how often each key was dropped
    mailed      \* the closing balances mailed to the owner

vars == <<row, locked, posted, op, transfers, remembered, forgets, mailed>>

-----------------------------------------------------------------------------
Status    == {"none", "draft", "pending_approval", "approved", "paid",
              "emailed", "voided"}
Finalized == {"approved", "paid", "emailed", "voided"}
Payable   == {"approved", "emailed"}

\* The statuses from which each lifecycle call is accepted.
Accepted == [approve      |-> {"pending_approval"},
             void         |-> {"draft", "pending_approval", "approved"},
             mark_paid    |-> {"approved", "emailed"},
             mark_emailed |-> {"approved", "paid"}]

Call == {"idle", "insert", "generate", "approve", "void", "mark_paid",
         "mark_emailed", "transfer", "record", "render", "sent", "post",
         "move", "unpost"}

NoRow == [status |-> "none", opening |-> 0, closing |-> 0, paid |-> "no",
          emailed |-> FALSE]
Idle  == [call |-> "idle", period |-> 1, figure |-> 0, charge |-> None]

TypeOK ==
    /\ row \in [Period -> [status: Status, opening: Int, closing: Int,
                           paid: {"no", "stripe", "hand"}, emailed: BOOLEAN]]
    /\ locked \in [Period -> Worker \cup {None}]
    /\ posted \in [Charge -> 0..LastPeriod]
    /\ op \in [Worker -> [call: Call, period: Period, figure: Int,
                          charge: Charge \cup {None}]]
    /\ transfers \in [Period -> Seq(Int)]
    /\ remembered \in SUBSET Period
    /\ forgets \in [Period -> Nat]
    /\ mailed \in [Period -> SUBSET Int]

Init ==
    /\ row = [p \in Period |-> NoRow]
    /\ locked = [p \in Period |-> None]
    /\ posted = [c \in Charge |-> 0]
    /\ op = [w \in Worker |-> Idle]
    /\ transfers = [p \in Period |-> <<>>]
    /\ remembered = {}
    /\ forgets = [p \in Period |-> 0]
    /\ mailed = [p \in Period |-> {}]

stripeVars == <<transfers, remembered, forgets>>

IsIdle(w) == op[w].call = "idle"

\* Worker w starts call on month p, remembering figure from what it read.
Begin(w, call, p, figure) ==
    op' = [op EXCEPT ![w] = [call |-> call, period |-> p, figure |-> figure,
                             charge |-> None]]

End(w) == op' = [op EXCEPT ![w] = Idle]

\* What compute_owner_statement nets for month p from the charges posted now.
Net(p) == Income[p] - Cardinality({c \in Charge : posted[c] = p})

\* A row with its totals recomputed over the given opening balance.
Computed(r, p, opening) ==
    [r EXCEPT !.status = "pending_approval", !.opening = opening,
              !.closing = opening + Net(p)]

-----------------------------------------------------------------------------
(* Generation *)

\* Month q has the latest statement before month p.
LatestBefore(q, p) ==
    /\ q < p
    /\ row[q].status # "none"
    /\ \A r \in (q + 1)..(p - 1) : row[r].status = "none"

\* The closing balance of the latest earlier statement, whatever its status.
OpeningFor(p) ==
    IF \E q \in Period : LatestBefore(q, p)
    THEN row[CHOOSE q \in Period : LatestBefore(q, p)].closing
    ELSE 0

\* get_or_create_balance_period finds no row and reads the opening balance.
GenerateNew(w, p) ==
    /\ IsIdle(w)
    /\ row[p].status = "none"
    /\ Begin(w, "insert", p, OpeningFor(p))
    /\ UNCHANGED <<row, locked, posted, stripeVars, mailed>>

\* It inserts the row.  A row inserted in between violates uq_obp_owner_period
\* and aborts the transaction; a computation error leaves an empty draft.
GenerateInsert(w) ==
    LET p == op[w].period
        opening == op[w].figure
        fresh == [NoRow EXCEPT !.status = "draft", !.opening = opening,
                               !.closing = opening]
    IN  /\ op[w].call = "insert"
        /\ \/ /\ row[p].status = "none"
              /\ \E r \in {fresh, Computed(fresh, p, opening)} :
                    row' = [row EXCEPT ![p] = r]
           \/ /\ row[p].status # "none"
              /\ UNCHANGED row
        /\ End(w)
        /\ UNCHANGED <<locked, posted, stripeVars, mailed>>

\* Mutant: the row is read without FOR UPDATE.
GenerateLockFree(w, p) ==
    /\ IsIdle(w)
    /\ row[p].status \notin Finalized \cup {"none"}
    /\ Begin(w, "generate", p, row[p].opening)
    /\ UNCHANGED <<row, locked, posted, stripeVars, mailed>>

\* It finds the row, locks it, and skips a finalized one.
GenerateLock(w, p) ==
    /\ IsIdle(w)
    /\ row[p].status \notin Finalized \cup {"none"}
    /\ locked[p] = None
    /\ locked' = [locked EXCEPT ![p] = w]
    /\ Begin(w, "generate", p, row[p].opening)
    /\ UNCHANGED <<row, posted, stripeVars, mailed>>

\* The totals are recomputed over the balance read and the lock released.
GenerateWrite(w) ==
    LET p == op[w].period
    IN  /\ op[w].call = "generate"
        /\ row' = [row EXCEPT ![p] = Computed(@, p, op[w].figure)]
        /\ locked' = [locked EXCEPT ![p] = None]
        /\ End(w)
        /\ UNCHANGED <<posted, stripeVars, mailed>>

-----------------------------------------------------------------------------
(* The lifecycle calls: a read, then an update of the row by its id. *)

ReadFor(w, call, p) ==
    /\ IsIdle(w)
    /\ row[p].status \in Accepted[call]
    /\ Begin(w, call, p, 0)
    /\ UNCHANGED <<row, locked, posted, stripeVars, mailed>>

ApproveStatement(w, p)     == ReadFor(w, "approve", p)
VoidStatement(w, p)        == ReadFor(w, "void", p)
MarkStatementPaid(w, p)    == ReadFor(w, "mark_paid", p)
MarkStatementEmailed(w, p) == ReadFor(w, "mark_emailed", p)

\* Mutant: mark_statement_emailed writes a status the enum does not have.
WrittenSent(r, call) ==
    IF call = "mark_emailed"
    THEN [r EXCEPT !.status = "sent", !.emailed = TRUE]
    ELSE [r EXCEPT !.status = IF call = "approve" THEN "approved"
                              ELSE IF call = "void" THEN "voided" ELSE "paid"]

\* The columns each call writes, over whatever the row holds by then.
Written(r, call) ==
    CASE call = "approve"      -> [r EXCEPT !.status = "approved"]
      [] call = "void"         -> [r EXCEPT !.status = "voided"]
      [] call = "mark_paid"    -> [r EXCEPT !.status = "paid", !.paid = "hand"]
      [] call = "mark_emailed" -> [r EXCEPT !.status = "emailed", !.emailed = TRUE]
      [] call = "record"       -> [r EXCEPT !.status = "paid", !.paid = "stripe"]

\* The update waits for the row's lock and commits.
WriteRow(w) ==
    LET p == op[w].period
    IN  /\ op[w].call \in DOMAIN Accepted \cup {"record"}
        /\ locked[p] = None
        /\ row' = [row EXCEPT ![p] = Written(@, op[w].call)]
        /\ End(w)
        /\ UNCHANGED <<locked, posted, stripeVars, mailed>>

-----------------------------------------------------------------------------
(* Paying a statement: the transfer is made before the row is updated. *)

\* Mutant: the whole balance is paid, the carried-forward part included.
PayoutWhole(r) == r.closing

\* The net change of the month: what the owner is paid.
PayoutAmount(r) == r.closing - r.opening

PayOwner(w, p) ==
    /\ IsIdle(w)
    /\ row[p].status \in Payable
    /\ PayoutAmount(row[p]) > 0
    /\ Begin(w, "transfer", p, PayoutAmount(row[p]))
    /\ UNCHANGED <<row, locked, posted, stripeVars, mailed>>

\* Mutant: the transfer is made without an idempotency key.
TransferredUnkeyed(p, amount) ==
    /\ transfers' = [transfers EXCEPT ![p] = Append(@, amount)]
    /\ remembered' = remembered \cup {p}

\* Stripe answers the key of an earlier transfer with that transfer.
Transferred(p, amount) ==
    IF p \in remembered
    THEN UNCHANGED <<transfers, remembered>>
    ELSE /\ transfers' = [transfers EXCEPT ![p] = Append(@, amount)]
         /\ remembered' = remembered \cup {p}

\* The transfer is made, and its answer arrives.
TransferAnswered(w) ==
    /\ op[w].call = "transfer"
    /\ Transferred(op[w].period, op[w].figure)
    /\ op' = [op EXCEPT ![w].call = "record"]
    /\ UNCHANGED <<row, locked, posted, forgets, mailed>>

\* Mutant: the status of the transfer's result is not looked at.
TransferFailsUnseen(w) ==
    /\ op[w].call = "transfer"
    /\ UNCHANGED <<transfers, remembered>>
    /\ op' = [op EXCEPT ![w].call = "record"]
    /\ UNCHANGED <<row, locked, posted, forgets, mailed>>

\* The transfer fails, or is made and its answer is lost: a failure either way.
TransferFails(w) ==
    /\ op[w].call = "transfer"
    /\ \/ Transferred(op[w].period, op[w].figure)
       \/ UNCHANGED <<transfers, remembered>>
    /\ End(w)
    /\ UNCHANGED <<row, locked, posted, forgets, mailed>>

\* Stripe drops an idempotency key, a day or more after its first use.
StripeForgets(p) ==
    /\ p \in remembered
    /\ forgets[p] < MaxForgets
    /\ remembered' = remembered \ {p}
    /\ forgets' = [forgets EXCEPT ![p] = @ + 1]
    /\ UNCHANGED <<row, locked, posted, op, transfers, mailed>>

-----------------------------------------------------------------------------
(* The mail job: lists the statements to send, then renders, sends and marks. *)

\* Mutant: statements that wait for approval are listed too.
ListedBeforeApproval(r) ==
    r.status \in {"pending_approval", "approved"} /\ ~r.emailed

ListedForSending(r) == r.status = "approved" /\ ~r.emailed

SendList(w, p) ==
    /\ IsIdle(w)
    /\ ListedForSending(row[p])
    /\ Begin(w, "render", p, 0)
    /\ UNCHANGED <<row, locked, posted, stripeVars, mailed>>

\* The PDF shows the row as it is when rendered; the mail may not go out.
SendMail(w) ==
    LET p == op[w].period
    IN  /\ op[w].call = "render"
        /\ \/ /\ mailed' = [mailed EXCEPT ![p] = @ \cup {row[p].closing}]
              /\ op' = [op EXCEPT ![w].call = "sent"]
           \/ /\ UNCHANGED mailed
              /\ End(w)
        /\ UNCHANGED <<row, locked, posted, stripeVars>>

\* After the mail the job calls mark_statement_emailed, which may refuse.
SentRead(w) ==
    /\ op[w].call = "sent"
    /\ IF row[op[w].period].status \in Accepted["mark_emailed"]
       THEN op' = [op EXCEPT ![w].call = "mark_emailed"]
       ELSE End(w)
    /\ UNCHANGED <<row, locked, posted, stripeVars, mailed>>

-----------------------------------------------------------------------------
(* Charges: the month's status is read, then the charge is written. *)

PeriodLocked(p) == row[p].status \in Finalized

ChargeRead(w, call, c, p) ==
    /\ IsIdle(w)
    /\ ~PeriodLocked(p)
    /\ op' = [op EXCEPT ![w] = [call |-> call, period |-> p, figure |-> 0,
                                charge |-> c]]
    /\ UNCHANGED <<row, locked, posted, stripeVars, mailed>>

\* A new charge takes an identity no live charge or request is using.
CreateCharge(w, c, p) ==
    /\ posted[c] = 0
    /\ \A v \in Worker : op[v].charge # c
    /\ ChargeRead(w, "post", c, p)

UpdateCharge(w, c, p) ==
    /\ posted[c] \notin {0, p}
    /\ ~PeriodLocked(posted[c])
    /\ ChargeRead(w, "move", c, p)

VoidCharge(w, c) ==
    /\ posted[c] # 0
    /\ ChargeRead(w, "unpost", c, posted[c])

\* A charge voided in the meantime stays out of every month.
WriteCharge(w) ==
    LET c == op[w].charge
        p == op[w].period
    IN  /\ \/ /\ op[w].call = "post" \/ (op[w].call = "move" /\ posted[c] # 0)
              /\ posted' = [posted EXCEPT ![c] = p]
           \/ /\ op[w].call = "unpost" \/ (op[w].call = "move" /\ posted[c] = 0)
              /\ posted' = [posted EXCEPT ![c] = 0]
        /\ End(w)
        /\ UNCHANGED <<row, locked, stripeVars, mailed>>

-----------------------------------------------------------------------------
\* A request dies, is rolled back or was a dry run: its lock is released.
Abandon(w) ==
    /\ ~IsIdle(w)
    /\ locked' = [p \in Period |-> IF locked[p] = w THEN None ELSE locked[p]]
    /\ End(w)
    /\ UNCHANGED <<row, posted, stripeVars, mailed>>

Generate(w) ==
    \/ \E p \in Period : GenerateNew(w, p) \/ GenerateLock(w, p)
    \/ GenerateInsert(w)
    \/ GenerateWrite(w)

Lifecycle(w) ==
    \/ \E p \in Period : \/ ApproveStatement(w, p)
                         \/ VoidStatement(w, p)
                         \/ MarkStatementPaid(w, p)
                         \/ MarkStatementEmailed(w, p)
    \/ WriteRow(w)

Pay(w) ==
    \/ \E p \in Period : PayOwner(w, p)
    \/ TransferAnswered(w)
    \/ TransferFails(w)

Send(w) ==
    \/ \E p \in Period : SendList(w, p)
    \/ SendMail(w)
    \/ SentRead(w)

Charging(w) ==
    \/ \E c \in Charge : \/ \E p \in Period : CreateCharge(w, c, p) \/ UpdateCharge(w, c, p)
                         \/ VoidCharge(w, c)
    \/ WriteCharge(w)

Next ==
    \/ \E w \in Worker : \/ Generate(w)
                         \/ Lifecycle(w)
                         \/ Pay(w)
                         \/ Send(w)
                         \/ Charging(w)
                         \/ Abandon(w)
    \/ \E p \in Period : StripeForgets(p)

Spec == Init /\ [][Next]_vars

-----------------------------------------------------------------------------
(* Properties *)

\* A finalized statement is never regenerated, whatever runs beside its
\* approval: its balances stay and it never becomes open again
\* (statement_workflow.py:29-32).
FinalizedStays(p) ==
    row[p].status \in Finalized =>
        /\ row'[p].status \in Finalized
        /\ row'[p].opening = row[p].opening
        /\ row'[p].closing = row[p].closing

FinalizedIsFrozen == [][\A p \in Period : FinalizedStays(p)]_vars

\* Every transfer moved exactly the net of the statement as it stands now,
\* however long before the row was read (owner_payout_service.py:112-115).
TransfersMatchStatement ==
    \A p \in Period : \A i \in DOMAIN transfers[p] :
        transfers[p][i] = row[p].closing - row[p].opening

\* Retries, double clicks and lost answers make one transfer for as long as
\* Stripe remembers the statement's key (owner_payout_service.py:12-13).
OneTransferPerKey ==
    \A p \in Period : Len(transfers[p]) <= 1 + forgets[p]

\* Every balance mailed to the owner is the one the statement still shows
\* (the send job mails approved statements, tasks/statement_jobs.py:316-326).
MailedFiguresStand ==
    \A p \in Period : \A figure \in mailed[p] : figure = row[p].closing

\* A row that records a Stripe payment has a transfer behind it
\* (owner_payout_service.py:168-190).
PaidMeansTransferred ==
    \A p \in Period : row[p].paid = "stripe" => transfers[p] # <<>>

\* The claim of owner_payout_service.py:12-15: a statement that was recorded
\* paid is not transferred again.
NotPaidTwice ==
    [][\A p \in Period :
          Len(transfers'[p]) > Len(transfers[p]) => row[p].paid = "no"]_vars

-----------------------------------------------------------------------------
(* The inductive invariant behind the safety properties. *)

\* A generation under way holds the lock of a row that is still open.
GenerationHoldsRow ==
    \A w \in Worker : op[w].call = "generate" =>
        /\ locked[op[w].period] = w
        /\ row[op[w].period].status \notin Finalized \cup {"none"}

\* What a payment in hand will transfer is the net of a finalized statement.
PayoutsInHand ==
    \A w \in Worker : op[w].call \in {"transfer", "record"} =>
        /\ row[op[w].period].status \in Finalized
        /\ op[w].figure = row[op[w].period].closing - row[op[w].period].opening

\* A payment about to be recorded has been transferred.
RecordsFollowTransfers ==
    \A w \in Worker : op[w].call = "record" => transfers[op[w].period] # <<>>

\* The mail job only has finalized statements in hand.
MailsInHand ==
    \A w \in Worker : op[w].call = "render" => row[op[w].period].status \in Finalized

\* Money and mail only ever left for finalized statements.
OnlyFinalizedLeft ==
    \A p \in Period :
        transfers[p] # <<>> \/ mailed[p] # {} => row[p].status \in Finalized

\* Beyond the key Stripe remembers, each transfer used up a dropped one; a
\* remembered key has its transfer.
KeysCounted ==
    \A p \in Period :
        /\ Len(transfers[p]) <= forgets[p] + (IF p \in remembered THEN 1 ELSE 0)
        /\ p \in remembered => transfers[p] # <<>>

StatementInvariant ==
    /\ TypeOK
    /\ GenerationHoldsRow
    /\ PayoutsInHand
    /\ RecordsFollowTransfers
    /\ MailsInHand
    /\ OnlyFinalizedLeft
    /\ KeysCounted
    /\ TransfersMatchStatement
    /\ MailedFiguresStand
    /\ PaidMeansTransferred

=============================================================================
