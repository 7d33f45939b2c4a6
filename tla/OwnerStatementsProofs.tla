------------------------ MODULE OwnerStatementsProofs ------------------------
(***************************************************************************)
(* Theorems about OwnerStatements for any number of months, charges and    *)
(* concurrent requests.  The invariant is regrouped into what holds of     *)
(* each worker (GoodOp) and of each month (GoodMonth), so that a step has  *)
(* to be looked at only where it changes something.  Two results complete  *)
(* them: a statement recorded as paid by Stripe is paid again only after   *)
(* Stripe forgot its key, and the statements implement StatementBook.      *)
(***************************************************************************)
EXTENDS OwnerStatements, FiniteSetTheorems, TLAPS

RowType == [status: Status, opening: Int, closing: Int,
            paid: {"no", "stripe", "hand"}, emailed: BOOLEAN]
OpType  == [call: Call, period: Period, figure: Int, charge: Charge \cup {None}]

\* Everything typed but the two tables of records.
OtherTypes ==
    /\ locked \in [Period -> Worker \cup {None}]
    /\ posted \in [Charge -> 0..LastPeriod]
    /\ transfers \in [Period -> Seq(Int)]
    /\ remembered \in SUBSET Period
    /\ forgets \in [Period -> Nat]
    /\ mailed \in [Period -> SUBSET Int]

\* Operation o is one that worker w may have in hand.
GoodOp(w, o) ==
    /\ o.call = "generate" =>
          /\ locked[o.period] = w
          /\ row[o.period].status \notin Finalized \cup {"none"}
    /\ o.call \in {"transfer", "record"} =>
          /\ row[o.period].status \in Finalized
          /\ o.figure = row[o.period].closing - row[o.period].opening
    /\ o.call = "record" => transfers[o.period] # <<>>
    /\ o.call = "render" => row[o.period].status \in Finalized

GoodMonth(p) ==
    /\ transfers[p] # <<>> \/ mailed[p] # {} => row[p].status \in Finalized
    /\ Len(transfers[p]) <= forgets[p] + (IF p \in remembered THEN 1 ELSE 0)
    /\ p \in remembered => transfers[p] # <<>>
    /\ \A i \in DOMAIN transfers[p] : transfers[p][i] = row[p].closing - row[p].opening
    /\ \A figure \in mailed[p] : figure = row[p].closing
    /\ row[p].paid = "stripe" => transfers[p] # <<>>

\* StatementInvariant, regrouped.
Regrouped ==
    /\ row \in [Period -> RowType]
    /\ op \in [Worker -> OpType]
    /\ OtherTypes
    /\ \A w \in Worker : GoodOp(w, op[w])
    /\ \A p \in Period : GoodMonth(p)

LEMMA Regrouping == StatementInvariant <=> Regrouped
BY DEF StatementInvariant, Regrouped, TypeOK, RowType, OpType, OtherTypes, GoodOp,
       GoodMonth, GenerationHoldsRow, PayoutsInHand, RecordsFollowTransfers,
       MailsInHand, OnlyFinalizedLeft, KeysCounted, TransfersMatchStatement,
       MailedFiguresStand, PaidMeansTransferred

-----------------------------------------------------------------------------
(* Values.                                                                 *)

\* Idle is an operation, and one any worker may have.
LEMMA IdleIsGood ==
    /\ Idle \in OpType
    /\ \A w \in Worker : GoodOp(w, Idle)
<1>1. 1 \in Period
  BY StatementAssumption DEF Period
<1>2. Idle \in OpType
  BY <1>1 DEF Idle, OpType, Call
<1>3. \A w \in Worker : GoodOp(w, Idle)
  BY DEF GoodOp, Idle
<1> QED
  BY <1>2, <1>3

\* What a month nets is a number: only finitely many charges are posted.
LEMMA NetIsInt ==
    ASSUME NEW p \in Period
    PROVE  Net(p) \in Int
<1>1. IsFiniteSet({c \in Charge : posted[c] = p})
  <2>1. {c \in Charge : posted[c] = p} \subseteq Charge
    OBVIOUS
  <2> QED
    BY <2>1, FS_Subset, StatementAssumption
<1>2. Cardinality({c \in Charge : posted[c] = p}) \in Nat
  BY <1>1, FS_CardinalityType
<1>3. Income[p] \in Int
  BY StatementAssumption DEF Period
<1> QED
  BY <1>2, <1>3 DEF Net

LEMMA OpeningIsInt ==
    ASSUME row \in [Period -> RowType], NEW p \in Period
    PROVE  OpeningFor(p) \in Int
<1>1. CASE \E q \in Period : LatestBefore(q, p)
  <2>1. PICK q \in Period : q = CHOOSE x \in Period : LatestBefore(x, p)
    BY <1>1
  <2>2. OpeningFor(p) = row[q].closing
    BY <1>1, <2>1 DEF OpeningFor
  <2>3. row[q] \in RowType
    OBVIOUS
  <2> QED
    BY <2>2, <2>3 DEF RowType
<1>2. CASE ~ \E q \in Period : LatestBefore(q, p)
  BY <1>2 DEF OpeningFor
<1> QED
  BY <1>1, <1>2

\* Recomputing a row opens it for approval over the given balance.
LEMMA ComputedRow ==
    ASSUME NEW r \in RowType, NEW p \in Period, NEW opening \in Int
    PROVE  /\ Computed(r, p, opening) \in RowType
           /\ Computed(r, p, opening).paid = r.paid
           /\ Computed(r, p, opening).status = "pending_approval"
<1>1. opening + Net(p) \in Int
  BY NetIsInt
<1> QED
  BY <1>1 DEF Computed, RowType, Status

\* A lifecycle write finalizes a row and leaves its balances alone.
LEMMA WrittenRow ==
    ASSUME NEW r \in RowType, NEW call \in DOMAIN Accepted \cup {"record"}
    PROVE  /\ Written(r, call) \in RowType
           /\ Written(r, call).status \in Finalized
           /\ Written(r, call).opening = r.opening
           /\ Written(r, call).closing = r.closing
           /\ Written(r, call).paid = "stripe" => r.paid = "stripe" \/ call = "record"
<1>1. call \in {"approve", "void", "mark_paid", "mark_emailed", "record"}
  BY DEF Accepted
<1>2. CASE call = "approve"
  BY <1>2 DEF Written, RowType, Status, Finalized
<1>3. CASE call = "void"
  BY <1>3 DEF Written, RowType, Status, Finalized
<1>4. CASE call = "mark_paid"
  BY <1>4 DEF Written, RowType, Status, Finalized
<1>5. CASE call = "mark_emailed"
  BY <1>5 DEF Written, RowType, Status, Finalized
<1>6. CASE call = "record"
  BY <1>6 DEF Written, RowType, Status, Finalized
<1> QED
  BY <1>1, <1>2, <1>3, <1>4, <1>5, <1>6

-----------------------------------------------------------------------------
(* Steps that change nothing but what one worker has in hand.              *)

\* Handing worker w a good operation keeps everything.
LEMMA HandOver ==
    ASSUME Regrouped, NEW w \in Worker, NEW o \in OpType, GoodOp(w, o),
           op' = [op EXCEPT ![w] = o],
           UNCHANGED <<row, locked, posted, stripeVars, mailed>>
    PROVE  Regrouped'
<1>1. op' \in [Worker -> OpType]
  BY DEF Regrouped
<1>2. ASSUME NEW v \in Worker PROVE GoodOp(v, op[v])'
  <2>1. op'[v] = IF v = w THEN o ELSE op[v]
    BY DEF Regrouped
  <2>2. GoodOp(v, op[v]) /\ GoodOp(w, o)
    BY DEF Regrouped
  <2> QED
    BY <2>1, <2>2 DEF GoodOp, stripeVars
<1>3. ASSUME NEW p \in Period PROVE GoodMonth(p)'
  BY <1>3 DEF Regrouped, GoodMonth, stripeVars
<1> QED
  BY <1>1, <1>2, <1>3 DEF Regrouped, OtherTypes, stripeVars

\* Beginning a call.
LEMMA BeginStep ==
    ASSUME Regrouped, NEW w \in Worker, NEW p \in Period, NEW figure \in Int,
           NEW call \in Call, Begin(w, call, p, figure),
           GoodOp(w, [call |-> call, period |-> p, figure |-> figure, charge |-> None]),
           UNCHANGED <<row, locked, posted, stripeVars, mailed>>
    PROVE  Regrouped'
<1>1. [call |-> call, period |-> p, figure |-> figure, charge |-> None] \in OpType
  BY DEF OpType
<1> QED
  BY <1>1, HandOver DEF Begin

LEMMA ReadSteps ==
    ASSUME Regrouped, NEW w \in Worker, NEW p \in Period,
           \/ GenerateNew(w, p)
           \/ ApproveStatement(w, p) \/ VoidStatement(w, p)
           \/ MarkStatementPaid(w, p) \/ MarkStatementEmailed(w, p)
           \/ PayOwner(w, p)
           \/ SendList(w, p)
    PROVE  Regrouped'
<1>1. row[p] \in RowType
  BY DEF Regrouped
<1>2. CASE GenerateNew(w, p)
  <2>1. OpeningFor(p) \in Int
    BY OpeningIsInt DEF Regrouped
  <2>2. GoodOp(w, [call |-> "insert", period |-> p, figure |-> OpeningFor(p),
                   charge |-> None])
    BY DEF GoodOp
  <2>3. "insert" \in Call
    BY DEF Call
  <2> QED
    BY <1>2, <2>1, <2>2, <2>3, BeginStep DEF GenerateNew
<1>3. ASSUME NEW call \in {"approve", "void", "mark_paid", "mark_emailed"},
             ReadFor(w, call, p)
      PROVE  Regrouped'
  <2>1. GoodOp(w, [call |-> call, period |-> p, figure |-> 0, charge |-> None])
    BY DEF GoodOp
  <2>2. call \in Call
    BY DEF Call
  <2> QED
    BY <1>3, <2>1, <2>2, BeginStep DEF ReadFor
<1>4. CASE PayOwner(w, p)
  <2>1. PayoutAmount(row[p]) \in Int
    BY <1>1 DEF PayoutAmount, RowType
  <2>2. GoodOp(w, [call |-> "transfer", period |-> p,
                   figure |-> PayoutAmount(row[p]), charge |-> None])
    BY <1>4 DEF GoodOp, PayOwner, PayoutAmount, Payable, Finalized
  <2>3. "transfer" \in Call
    BY DEF Call
  <2> QED
    BY <1>4, <2>1, <2>2, <2>3, BeginStep DEF PayOwner
<1>5. CASE SendList(w, p)
  <2>1. GoodOp(w, [call |-> "render", period |-> p, figure |-> 0, charge |-> None])
    BY <1>5 DEF GoodOp, SendList, ListedForSending, Finalized
  <2>2. "render" \in Call
    BY DEF Call
  <2> QED
    BY <1>5, <2>1, <2>2, BeginStep DEF SendList
<1> QED
  BY <1>2, <1>3, <1>4, <1>5
     DEF ApproveStatement, VoidStatement, MarkStatementPaid, MarkStatementEmailed

\* The steps of the charges' handlers and the job's status check.
LEMMA OtherReadSteps ==
    ASSUME Regrouped, NEW w \in Worker,
           \/ SentRead(w)
           \/ \E c \in Charge : \/ VoidCharge(w, c)
                               \/ \E p \in Period : CreateCharge(w, c, p)
                                                  \/ UpdateCharge(w, c, p)
    PROVE  Regrouped'
<1>1. op[w] \in OpType
  BY DEF Regrouped
<1>2. CASE SentRead(w)
  <2>1. CASE row[op[w].period].status \in Accepted["mark_emailed"]
    <3>1. PICK o : o = [op[w] EXCEPT !.call = "mark_emailed"]
      OBVIOUS
    <3>2. o \in OpType /\ o.call = "mark_emailed"
      BY <1>1, <3>1 DEF OpType, Call
    <3>3. GoodOp(w, o)
      BY <3>2 DEF GoodOp
    <3>4. op' = [op EXCEPT ![w] = o]
      BY <1>2, <2>1, <3>1 DEF SentRead
    <3> QED
      BY <1>2, <3>2, <3>3, <3>4, HandOver DEF SentRead
  <2>2. CASE row[op[w].period].status \notin Accepted["mark_emailed"]
    BY <1>2, <2>2, IdleIsGood, HandOver DEF SentRead, End
  <2> QED
    BY <2>1, <2>2
<1>3. ASSUME NEW c \in Charge, NEW p \in Period,
             NEW call \in {"post", "move", "unpost"}, ChargeRead(w, call, c, p)
      PROVE  Regrouped'
  <2>1. PICK o : o = [call |-> call, period |-> p, figure |-> 0, charge |-> c]
    OBVIOUS
  <2>2. o \in OpType /\ o.call \in {"post", "move", "unpost"}
    BY <2>1 DEF OpType, Call
  <2>3. GoodOp(w, o)
    BY <2>2 DEF GoodOp
  <2> QED
    BY <1>3, <2>1, <2>2, <2>3, HandOver DEF ChargeRead
<1>4. ASSUME NEW c \in Charge, VoidCharge(w, c)
      PROVE  Regrouped'
  <2>1. posted[c] \in Period
    BY <1>4, StatementAssumption DEF VoidCharge, Regrouped, OtherTypes, Period
  <2> QED
    BY <1>3, <1>4, <2>1 DEF VoidCharge
<1> QED
  BY <1>2, <1>3, <1>4 DEF CreateCharge, UpdateCharge

\* Writing a charge changes nothing the invariant speaks of.
LEMMA WriteChargeStep ==
    ASSUME Regrouped, NEW w \in Worker, WriteCharge(w)
    PROVE  Regrouped'
<1>1. op[w] \in OpType /\ LastPeriod \in Nat
  BY StatementAssumption DEF Regrouped
<1>2. posted' \in [Charge -> 0..LastPeriod]
  <2>1. op[w].period \in 0..LastPeriod
    BY <1>1 DEF OpType, Period
  <2>2. PICK x \in 0..LastPeriod : posted' = [posted EXCEPT ![op[w].charge] = x]
    BY <1>1, <2>1 DEF WriteCharge
  <2> QED
    BY <2>2 DEF Regrouped, OtherTypes
<1>3. op' \in [Worker -> OpType]
  BY IdleIsGood DEF WriteCharge, End, Regrouped
<1>4. ASSUME NEW v \in Worker PROVE GoodOp(v, op[v])'
  <2>1. op'[v] = IF v = w THEN Idle ELSE op[v]
    BY DEF WriteCharge, End, Regrouped
  <2>2. GoodOp(v, op[v]) /\ GoodOp(v, Idle)
    BY IdleIsGood DEF Regrouped
  <2> QED
    BY <2>1, <2>2 DEF GoodOp, WriteCharge, stripeVars
<1>5. ASSUME NEW p \in Period PROVE GoodMonth(p)'
  BY <1>5 DEF Regrouped, GoodMonth, stripeVars, WriteCharge
<1> QED
  BY <1>2, <1>3, <1>4, <1>5 DEF Regrouped, OtherTypes, stripeVars, WriteCharge

-----------------------------------------------------------------------------
(* Steps that change locks or rows.                                        *)

\* Releasing the worker's own locks as it ends disturbs nobody else.
LEMMA AbandonStep ==
    ASSUME Regrouped, NEW w \in Worker, Abandon(w)
    PROVE  Regrouped'
<1>1. locked' \in [Period -> Worker \cup {None}]
  BY DEF Abandon, Regrouped, OtherTypes
<1>2. op' \in [Worker -> OpType]
  BY IdleIsGood DEF Abandon, End, Regrouped
<1>3. ASSUME NEW v \in Worker PROVE GoodOp(v, op[v])'
  <2>1. op'[v] = IF v = w THEN Idle ELSE op[v]
    BY DEF Abandon, End, Regrouped
  <2>2. GoodOp(v, op[v]) /\ op[v] \in OpType
    BY DEF Regrouped
  <2>3. CASE v = w
    BY <2>1, <2>3 DEF GoodOp, Idle
  <2>4. CASE v # w
    <3>1. op[v].call = "generate" => locked'[op[v].period] = locked[op[v].period]
      BY <2>2, <2>4 DEF GoodOp, OpType, Abandon
    <3> QED
      BY <2>1, <2>2, <2>4, <3>1 DEF GoodOp, Abandon, stripeVars
  <2> QED
    BY <2>3, <2>4
<1>4. ASSUME NEW p \in Period PROVE GoodMonth(p)'
  BY <1>4 DEF Regrouped, GoodMonth, stripeVars, Abandon
<1> QED
  BY <1>1, <1>2, <1>3, <1>4 DEF Regrouped, OtherTypes, stripeVars, Abandon

\* Taking a free lock on an open row.
LEMMA GenerateLockStep ==
    ASSUME Regrouped, NEW w \in Worker, NEW p \in Period, GenerateLock(w, p)
    PROVE  Regrouped'
<1>1. row[p] \in RowType
  BY DEF Regrouped
<1>2. PICK o : o = [call |-> "generate", period |-> p, figure |-> row[p].opening,
                    charge |-> None]
  OBVIOUS
<1>3. o \in OpType /\ o.call = "generate" /\ o.period = p
  BY <1>1, <1>2 DEF OpType, Call, RowType
<1>4. locked' \in [Period -> Worker \cup {None}]
  BY DEF GenerateLock, Regrouped, OtherTypes
<1>5. op' = [op EXCEPT ![w] = o]
  BY <1>2 DEF GenerateLock, Begin
<1>6. ASSUME NEW v \in Worker PROVE GoodOp(v, op[v])'
  <2>1. op'[v] = IF v = w THEN o ELSE op[v]
    BY <1>5 DEF Regrouped
  <2>2. GoodOp(v, op[v]) /\ op[v] \in OpType
    BY DEF Regrouped
  <2>3. CASE v = w
    BY <1>3, <2>1, <2>3 DEF GoodOp, GenerateLock, Regrouped, OtherTypes
  <2>4. CASE v # w
    <3>1. op[v].call = "generate" => op[v].period # p
      BY <2>2, StatementAssumption DEF GoodOp, GenerateLock
    <3>2. op[v].call = "generate" => locked'[op[v].period] = locked[op[v].period]
      BY <2>2, <3>1 DEF OpType, GenerateLock, Regrouped, OtherTypes
    <3> QED
      BY <2>1, <2>2, <2>4, <3>2 DEF GoodOp, GenerateLock, stripeVars
  <2> QED
    BY <2>3, <2>4
<1>7. op' \in [Worker -> OpType]
  BY <1>3, <1>5 DEF Regrouped
<1>8. ASSUME NEW q \in Period PROVE GoodMonth(q)'
  BY <1>8 DEF Regrouped, GoodMonth, stripeVars, GenerateLock
<1> QED
  BY <1>4, <1>6, <1>7, <1>8 DEF Regrouped, OtherTypes, stripeVars, GenerateLock

\* What a write of month p's row must respect.
LEMMA RowStep ==
    ASSUME Regrouped, NEW w \in Worker, NEW p \in Period, NEW r \in RowType,
           row' = [row EXCEPT ![p] = r], End(w),
           locked' \in [Period -> Worker \cup {None}],
           \A v \in Worker \ {w} : op[v].call = "generate" =>
               op[v].period # p /\ locked'[op[v].period] = locked[op[v].period],
           row[p].status \in Finalized =>
               r.status \in Finalized /\ r.opening = row[p].opening
                                     /\ r.closing = row[p].closing,
           r.paid = "stripe" => transfers[p] # <<>>,
           UNCHANGED <<posted, stripeVars, mailed>>
    PROVE  Regrouped'
<1>1. row' \in [Period -> RowType]
  BY DEF Regrouped
<1>2. op' \in [Worker -> OpType]
  BY IdleIsGood DEF End, Regrouped
<1>3. ASSUME NEW v \in Worker PROVE GoodOp(v, op[v])'
  <2>1. op'[v] = IF v = w THEN Idle ELSE op[v]
    BY DEF End, Regrouped
  <2>2. GoodOp(v, op[v]) /\ op[v] \in OpType
    BY DEF Regrouped
  <2>3. CASE v = w
    BY <2>1, <2>3 DEF GoodOp, Idle
  <2>4. CASE v # w
    <3>1. op'[v] = op[v] /\ op[v].period \in Period
      BY <2>1, <2>2, <2>4 DEF OpType
    <3>2. row'[op[v].period] = IF op[v].period = p THEN r ELSE row[op[v].period]
      BY <3>1 DEF Regrouped
    <3> QED
      BY <2>2, <2>4, <3>1, <3>2 DEF GoodOp, stripeVars
  <2> QED
    BY <2>3, <2>4
<1>4. ASSUME NEW q \in Period PROVE GoodMonth(q)'
  <2>1. GoodMonth(q)
    BY DEF Regrouped
  <2>2. row'[q] = IF q = p THEN r ELSE row[q]
    BY DEF Regrouped
  <2>3. CASE q # p
    BY <2>1, <2>2, <2>3 DEF GoodMonth, stripeVars
  <2>4. CASE q = p
    <3>1. transfers[p] = <<>> => DOMAIN transfers[p] = {}
      OBVIOUS
    <3>2. CASE transfers[p] # <<>> \/ mailed[p] # {}
      BY <2>1, <2>2, <2>4, <3>2 DEF GoodMonth, stripeVars
    <3>3. CASE transfers[p] = <<>> /\ mailed[p] = {}
      BY <2>1, <2>2, <2>4, <3>1, <3>3 DEF GoodMonth, stripeVars
    <3> QED
      BY <3>2, <3>3
  <2> QED
    BY <2>3, <2>4
<1> QED
  BY <1>1, <1>2, <1>3, <1>4 DEF Regrouped, OtherTypes, stripeVars

\* The three writers of a row.
LEMMA RowSteps ==
    ASSUME Regrouped, NEW w \in Worker,
           GenerateInsert(w) \/ GenerateWrite(w) \/ WriteRow(w)
    PROVE  Regrouped'
<1>1. PICK p \in Period : p = op[w].period
  BY DEF Regrouped, OpType
<1>2. /\ row[p] \in RowType
      /\ op[w].figure \in Int
      /\ locked \in [Period -> Worker \cup {None}]
  BY DEF Regrouped, OpType, OtherTypes
<1>3. \A v \in Worker : op[v].call = "generate" =>
        /\ locked[op[v].period] = v
        /\ row[op[v].period].status \notin Finalized \cup {"none"}
  BY DEF Regrouped, GoodOp
<1>4. row[p].paid = "stripe" => transfers[p] # <<>>
  BY DEF Regrouped, GoodMonth
<1>5. CASE GenerateInsert(w)
  <2>1. CASE row[p].status = "none"
    <3>1. PICK fresh : fresh = [NoRow EXCEPT !.status = "draft",
                                  !.opening = op[w].figure, !.closing = op[w].figure]
      OBVIOUS
    <3>2. fresh \in RowType /\ fresh.paid = "no"
      BY <1>2, <3>1 DEF NoRow, RowType, Status
    <3>3. PICK r : /\ row' = [row EXCEPT ![p] = r]
                   /\ r \in {fresh, Computed(fresh, p, op[w].figure)}
      BY <1>1, <1>5, <2>1, <3>1 DEF GenerateInsert
    <3>4. r \in RowType /\ r.paid = "no"
      BY <1>2, <3>2, <3>3, ComputedRow
    <3>5. row[p].status \notin Finalized
      BY <2>1 DEF Finalized
    <3>6. End(w) /\ UNCHANGED <<locked, posted, stripeVars, mailed>>
      BY <1>5 DEF GenerateInsert
    <3>7. \A v \in Worker \ {w} : op[v].call = "generate" =>
             op[v].period # p /\ locked'[op[v].period] = locked[op[v].period]
      BY <1>3, <2>1, <3>6
    <3>8. locked' \in [Period -> Worker \cup {None}]
      BY <1>2, <3>6
    <3> QED
      BY <3>3, <3>4, <3>5, <3>6, <3>7, <3>8, RowStep
  <2>2. CASE row[p].status # "none"
    BY <1>1, <1>5, <2>2, IdleIsGood, HandOver DEF GenerateInsert, End
  <2> QED
    BY <2>1, <2>2
<1>6. CASE GenerateWrite(w)
  <2>1. PICK r : r = Computed(row[p], p, op[w].figure)
    OBVIOUS
  <2>2. r \in RowType /\ r.paid = row[p].paid
    BY <1>2, <2>1, ComputedRow
  <2>3. row' = [row EXCEPT ![p] = r]
    BY <1>1, <1>6, <2>1 DEF GenerateWrite
  <2>4. locked[p] = w /\ row[p].status \notin Finalized
    BY <1>1, <1>3, <1>6 DEF GenerateWrite
  <2>5. locked' \in [Period -> Worker \cup {None}]
    BY <1>1, <1>2, <1>6 DEF GenerateWrite
  <2>6. \A v \in Worker \ {w} : op[v].call = "generate" =>
           op[v].period # p /\ locked'[op[v].period] = locked[op[v].period]
    <3> SUFFICES ASSUME NEW v \in Worker \ {w}, op[v].call = "generate"
                 PROVE  op[v].period # p /\ locked'[op[v].period] = locked[op[v].period]
      OBVIOUS
    <3>1. op[v].period # p
      BY <1>3, <2>4
    <3>2. op[v].period \in Period
      BY DEF Regrouped, OpType
    <3> QED
      BY <1>1, <1>2, <1>6, <3>1, <3>2 DEF GenerateWrite
  <2>7. End(w) /\ UNCHANGED <<posted, stripeVars, mailed>>
    BY <1>6 DEF GenerateWrite
  <2> QED
    BY <1>4, <2>2, <2>3, <2>4, <2>5, <2>6, <2>7, RowStep
<1>7. CASE WriteRow(w)
  <2>1. op[w].call \in DOMAIN Accepted \cup {"record"}
    BY <1>7 DEF WriteRow
  <2>2. PICK r : r = Written(row[p], op[w].call)
    OBVIOUS
  <2>3. /\ r \in RowType
        /\ r.status \in Finalized /\ r.opening = row[p].opening
                                  /\ r.closing = row[p].closing
        /\ r.paid = "stripe" => row[p].paid = "stripe" \/ op[w].call = "record"
    BY <1>2, <2>1, <2>2, WrittenRow
  <2>4. op[w].call = "record" => transfers[p] # <<>>
    BY <1>1 DEF Regrouped, GoodOp
  <2>5. row' = [row EXCEPT ![p] = r]
    BY <1>1, <1>7, <2>2 DEF WriteRow
  <2>6. \A v \in Worker \ {w} : op[v].call = "generate" =>
           op[v].period # p /\ locked'[op[v].period] = locked[op[v].period]
    BY <1>1, <1>3, <1>7, StatementAssumption DEF WriteRow
  <2>7. locked' \in [Period -> Worker \cup {None}]
    BY <1>2, <1>7 DEF WriteRow
  <2>8. End(w) /\ UNCHANGED <<posted, stripeVars, mailed>>
    BY <1>7 DEF WriteRow
  <2> QED
    BY <1>4, <2>3, <2>4, <2>5, <2>6, <2>7, <2>8, RowStep
<1> QED
  BY <1>5, <1>6, <1>7

-----------------------------------------------------------------------------
(* Steps of Stripe and of the mail job.                                    *)

\* A transfer of the right amount for a finalized statement.
LEMMA TransferKeepsMonths ==
    ASSUME Regrouped, NEW p \in Period, NEW amount \in Int,
           row[p].status \in Finalized, amount = row[p].closing - row[p].opening,
           Transferred(p, amount),
           UNCHANGED <<row, forgets, mailed>>
    PROVE  /\ transfers' \in [Period -> Seq(Int)]
           /\ remembered' \in SUBSET Period
           /\ \A q \in Period : GoodMonth(q)'
           /\ transfers'[p] # <<>>
           /\ \A q \in Period : transfers[q] # <<>> => transfers'[q] # <<>>
<1>1. /\ transfers \in [Period -> Seq(Int)] /\ remembered \in SUBSET Period
      /\ forgets \in [Period -> Nat]
  BY DEF Regrouped, OtherTypes
<1>2. CASE p \in remembered
  <2>1. UNCHANGED <<transfers, remembered>>
    BY <1>2 DEF Transferred
  <2>2. ASSUME NEW q \in Period PROVE GoodMonth(q)'
    BY <2>1 DEF Regrouped, GoodMonth
  <2>3. transfers[p] # <<>>
    BY <1>2 DEF Regrouped, GoodMonth
  <2> QED
    BY <1>1, <2>1, <2>2, <2>3
<1>3. CASE p \notin remembered
  <2>1. /\ transfers' = [transfers EXCEPT ![p] = Append(@, amount)]
        /\ remembered' = remembered \cup {p}
    BY <1>3 DEF Transferred
  <2>2. Append(transfers[p], amount) \in Seq(Int)
    BY <1>1
  <2>3. transfers' \in [Period -> Seq(Int)] /\ remembered' \in SUBSET Period
    BY <1>1, <2>1, <2>2
  <2>4. /\ transfers'[p] = Append(transfers[p], amount)
        /\ \A q \in Period \ {p} : transfers'[q] = transfers[q]
    BY <1>1, <2>1
  <2>5. /\ transfers'[p] # <<>>
        /\ Len(transfers'[p]) = Len(transfers[p]) + 1
        /\ \A i \in DOMAIN transfers'[p] :
              \/ transfers'[p][i] = amount
              \/ i \in DOMAIN transfers[p] /\ transfers'[p][i] = transfers[p][i]
    <3>1. PICK t \in Seq(Int) : t = transfers[p]
      BY <1>1
    <3>2. /\ Append(t, amount) # <<>>
          /\ Len(Append(t, amount)) = Len(t) + 1
      BY <3>1
    <3>3. ASSUME NEW i \in DOMAIN Append(t, amount)
          PROVE  \/ Append(t, amount)[i] = amount
                 \/ i \in DOMAIN t /\ Append(t, amount)[i] = t[i]
      <4>1. i \in 1..(Len(t) + 1)
        BY <3>1, <3>2, <3>3
      <4> QED
        BY <3>1, <4>1
    <3> QED
      BY <2>4, <3>1, <3>2, <3>3
  <2>6. GoodMonth(p)'
    <3>1. GoodMonth(p)
      BY DEF Regrouped
    <3>2. \A i \in DOMAIN transfers'[p] : transfers'[p][i] = row[p].closing - row[p].opening
      BY <2>5, <3>1 DEF GoodMonth
    <3>3. Len(transfers[p]) <= forgets[p] /\ Len(transfers[p]) \in Nat
      BY <1>1, <1>3, <3>1 DEF GoodMonth
    <3>4. Len(transfers'[p]) <= forgets[p] + 1
      BY <1>1, <2>5, <3>3
    <3>5. p \in remembered'
      BY <2>1
    <3> QED
      BY <2>5, <3>1, <3>2, <3>4, <3>5 DEF GoodMonth
  <2>7. ASSUME NEW q \in Period \ {p} PROVE GoodMonth(q)'
    BY <2>1, <2>4 DEF Regrouped, GoodMonth
  <2> QED
    BY <2>3, <2>4, <2>5, <2>6, <2>7
<1> QED
  BY <1>2, <1>3

LEMMA TransferSteps ==
    ASSUME Regrouped, NEW w \in Worker, TransferAnswered(w) \/ TransferFails(w)
    PROVE  Regrouped'
<1>1. PICK p \in Period : p = op[w].period
  BY DEF Regrouped, OpType
<1>2. PICK amount \in Int : amount = op[w].figure
  BY DEF Regrouped, OpType
<1>3. op[w] \in OpType /\ GoodOp(w, op[w])
  BY DEF Regrouped
<1>4. row[p].status \in Finalized /\ amount = row[p].closing - row[p].opening
  BY <1>1, <1>2, <1>3 DEF GoodOp, TransferAnswered, TransferFails
<1>5. PICK o : /\ op' = [op EXCEPT ![w] = o]
               /\ \/ o = Idle
                  \/ o = [op[w] EXCEPT !.call = "record"] /\ TransferAnswered(w)
  BY DEF TransferAnswered, TransferFails, End
<1>6. o \in OpType
  BY <1>3, <1>5, IdleIsGood DEF OpType, Call
<1>7. UNCHANGED <<row, locked, posted, forgets, mailed>>
  BY DEF TransferAnswered, TransferFails
<1>8. Transferred(p, amount) \/ UNCHANGED <<transfers, remembered>>
  BY <1>1, <1>2 DEF TransferAnswered, TransferFails
<1>9. /\ transfers' \in [Period -> Seq(Int)]
      /\ remembered' \in SUBSET Period
      /\ \A q \in Period : GoodMonth(q)'
      /\ \A q \in Period : transfers[q] # <<>> => transfers'[q] # <<>>
  <2>1. CASE Transferred(p, amount)
    BY <1>4, <1>7, <2>1, TransferKeepsMonths
  <2>2. CASE UNCHANGED <<transfers, remembered>>
    BY <1>7, <2>2 DEF Regrouped, OtherTypes, GoodMonth
  <2> QED
    BY <1>8, <2>1, <2>2
<1>10. TransferAnswered(w) => transfers'[p] # <<>>
  <2>1. TransferAnswered(w) => Transferred(p, amount)
    BY <1>1, <1>2 DEF TransferAnswered
  <2> QED
    BY <1>4, <1>7, <2>1, TransferKeepsMonths
<1>11. ASSUME NEW v \in Worker PROVE GoodOp(v, op[v])'
  <2>1. op'[v] = IF v = w THEN o ELSE op[v]
    BY <1>5 DEF Regrouped
  <2>2. CASE v = w /\ o = Idle
    BY <2>1, <2>2 DEF GoodOp, Idle
  <2>3. CASE v = w /\ o # Idle
    <3>1. /\ o.call = "record" /\ o.period = p /\ o.figure = amount
      BY <1>1, <1>2, <1>3, <1>5, <2>3 DEF OpType
    <3> QED
      BY <1>4, <1>5, <1>7, <1>10, <2>1, <2>3, <3>1 DEF GoodOp
  <2>4. CASE v # w
    <3>1. GoodOp(v, op[v]) /\ op[v].period \in Period
      BY DEF Regrouped, OpType
    <3> QED
      BY <1>7, <1>9, <2>1, <2>4, <3>1 DEF GoodOp
  <2> QED
    BY <2>2, <2>3, <2>4
<1>12. op' \in [Worker -> OpType]
  BY <1>5, <1>6 DEF Regrouped
<1> QED
  BY <1>7, <1>9, <1>11, <1>12 DEF Regrouped, OtherTypes

\* A dropped key leaves room for one more transfer.
LEMMA StripeForgetsStep ==
    ASSUME Regrouped, NEW p \in Period, StripeForgets(p)
    PROVE  Regrouped'
<1>1. /\ remembered' \in SUBSET Period
      /\ forgets' \in [Period -> Nat]
      /\ UNCHANGED <<row, locked, posted, op, transfers, mailed>>
  BY DEF StripeForgets, Regrouped, OtherTypes
<1>2. ASSUME NEW v \in Worker PROVE GoodOp(v, op[v])'
  BY <1>1 DEF Regrouped, GoodOp
<1>3. ASSUME NEW q \in Period PROVE GoodMonth(q)'
  <2>1. GoodMonth(q) /\ forgets[q] \in Nat /\ Len(transfers[q]) \in Nat
    BY DEF Regrouped, OtherTypes
  <2>2. /\ forgets'[q] = IF q = p THEN forgets[q] + 1 ELSE forgets[q]
        /\ q \in remembered' <=> q \in remembered /\ q # p
    BY DEF StripeForgets, Regrouped, OtherTypes
  <2>3. q = p => q \in remembered
    BY DEF StripeForgets
  <2> QED
    BY <1>1, <2>1, <2>2, <2>3 DEF GoodMonth
<1> QED
  BY <1>1, <1>2, <1>3 DEF Regrouped, OtherTypes

\* A mail shows the balance of a row that is finalized already.
LEMMA SendMailStep ==
    ASSUME Regrouped, NEW w \in Worker, SendMail(w)
    PROVE  Regrouped'
<1>1. PICK p \in Period : p = op[w].period
  BY DEF Regrouped, OpType
<1>2. op[w] \in OpType /\ row[p] \in RowType /\ row[p].status \in Finalized
  BY <1>1 DEF Regrouped, GoodOp, SendMail
<1>3. CASE UNCHANGED mailed /\ End(w)
  BY <1>3, IdleIsGood, HandOver DEF SendMail, End
<1>4. CASE /\ mailed' = [mailed EXCEPT ![p] = @ \cup {row[p].closing}]
           /\ op' = [op EXCEPT ![w].call = "sent"]
  <2>1. mailed' \in [Period -> SUBSET Int]
    BY <1>2, <1>4 DEF Regrouped, OtherTypes, RowType
  <2>2. PICK o : o = [op[w] EXCEPT !.call = "sent"]
    OBVIOUS
  <2>3. o \in OpType /\ o.call = "sent"
    BY <1>2, <2>2 DEF OpType, Call
  <2>4. op' = [op EXCEPT ![w] = o]
    BY <1>4, <2>2
  <2>5. op' \in [Worker -> OpType]
    BY <2>3, <2>4 DEF Regrouped
  <2>6. ASSUME NEW v \in Worker PROVE GoodOp(v, op[v])'
    <3>1. op'[v] = IF v = w THEN o ELSE op[v]
      BY <2>4 DEF Regrouped
    <3>2. GoodOp(v, op[v])
      BY DEF Regrouped
    <3> QED
      BY <2>3, <3>1, <3>2 DEF GoodOp, SendMail, stripeVars
  <2>7. ASSUME NEW q \in Period PROVE GoodMonth(q)'
    <3>1. mailed'[q] = IF q = p THEN mailed[q] \cup {row[p].closing} ELSE mailed[q]
      BY <1>4 DEF Regrouped, OtherTypes
    <3>2. GoodMonth(q)
      BY DEF Regrouped
    <3> QED
      BY <1>2, <3>1, <3>2 DEF GoodMonth, SendMail, stripeVars
  <2> QED
    BY <2>1, <2>5, <2>6, <2>7 DEF Regrouped, OtherTypes, SendMail, stripeVars
<1> QED
  BY <1>1, <1>3, <1>4 DEF SendMail

-----------------------------------------------------------------------------
(* The theorems.                                                           *)

LEMMA InitRegrouped == Init => Regrouped
<1> SUFFICES ASSUME Init PROVE Regrouped
  OBVIOUS
<1>1. NoRow \in RowType
  BY DEF NoRow, RowType, Status
<1>2. row \in [Period -> RowType] /\ op \in [Worker -> OpType]
  BY <1>1, IdleIsGood DEF Init
<1>3. OtherTypes
  <2>1. 0 \in 0..LastPeriod /\ <<>> \in Seq(Int)
    BY StatementAssumption
  <2> QED
    BY <2>1 DEF Init, OtherTypes
<1>4. ASSUME NEW w \in Worker PROVE GoodOp(w, op[w])
  BY IdleIsGood DEF Init
<1>5. ASSUME NEW p \in Period PROVE GoodMonth(p)
  BY DEF Init, GoodMonth, NoRow
<1> QED
  BY <1>2, <1>3, <1>4, <1>5 DEF Regrouped

LEMMA NextRegrouped == Regrouped /\ [Next]_vars => Regrouped'
<1> SUFFICES ASSUME Regrouped, [Next]_vars PROVE Regrouped'
  OBVIOUS
<1>1. CASE UNCHANGED vars
  BY <1>1 DEF vars, Regrouped, OtherTypes, GoodOp, GoodMonth
<1>2. ASSUME NEW p \in Period, StripeForgets(p) PROVE Regrouped'
  BY <1>2, StripeForgetsStep
<1>3. ASSUME NEW w \in Worker, Generate(w) PROVE Regrouped'
  BY <1>3, ReadSteps, GenerateLockStep, RowSteps DEF Generate
<1>4. ASSUME NEW w \in Worker, Lifecycle(w) PROVE Regrouped'
  BY <1>4, ReadSteps, RowSteps DEF Lifecycle
<1>5. ASSUME NEW w \in Worker, Pay(w) PROVE Regrouped'
  BY <1>5, ReadSteps, TransferSteps DEF Pay
<1>6. ASSUME NEW w \in Worker, Send(w) PROVE Regrouped'
  BY <1>6, ReadSteps, OtherReadSteps, SendMailStep DEF Send
<1>7. ASSUME NEW w \in Worker, Charging(w) PROVE Regrouped'
  BY <1>7, OtherReadSteps, WriteChargeStep DEF Charging
<1>8. ASSUME NEW w \in Worker, Abandon(w) PROVE Regrouped'
  BY <1>8, AbandonStep
<1> QED
  BY <1>1, <1>2, <1>3, <1>4, <1>5, <1>6, <1>7, <1>8 DEF Next

\* Whatever requests and jobs interleave on the statements, and wherever they
\* die, the inductive invariant holds.
THEOREM StatementsAreConsistent == Spec => []StatementInvariant
<1>1. Spec => []Regrouped
  BY InitRegrouped, NextRegrouped, PTL DEF Spec
<1> QED
  BY <1>1, Regrouping, PTL

\* Every reachable state of the statements is well typed.
THEOREM StatementTypeCorrect == Spec => []TypeOK
<1>1. StatementInvariant => TypeOK
  BY DEF StatementInvariant
<1> QED
  BY <1>1, StatementsAreConsistent, PTL

\* The owner is paid the net of the statement as it stands, whenever it was read.
THEOREM TransfersAreRight == Spec => []TransfersMatchStatement
<1>1. StatementInvariant => TransfersMatchStatement
  BY DEF StatementInvariant
<1> QED
  BY <1>1, StatementsAreConsistent, PTL

\* One transfer per idempotency key, through retries and concurrent requests.
THEOREM PaidOncePerKey == Spec => []OneTransferPerKey
<1>1. StatementInvariant => OneTransferPerKey
  <2> SUFFICES ASSUME StatementInvariant, NEW p \in Period
               PROVE  Len(transfers[p]) <= 1 + forgets[p]
    BY DEF OneTransferPerKey
  <2>1. Len(transfers[p]) \in Nat /\ forgets[p] \in Nat
    BY DEF StatementInvariant, TypeOK
  <2>2. Len(transfers[p]) <= forgets[p] + (IF p \in remembered THEN 1 ELSE 0)
    BY DEF StatementInvariant, KeysCounted
  <2> QED
    BY <2>1, <2>2
<1> QED
  BY <1>1, StatementsAreConsistent, PTL

\* A statement recorded as paid through Stripe has a transfer behind it.
THEOREM PaidHasTransfer == Spec => []PaidMeansTransferred
<1>1. StatementInvariant => PaidMeansTransferred
  BY DEF StatementInvariant
<1> QED
  BY <1>1, StatementsAreConsistent, PTL

\* What was mailed to the owner is what the statement still shows.
THEOREM MailedFiguresAreRight == Spec => []MailedFiguresStand
<1>1. StatementInvariant => MailedFiguresStand
  BY DEF StatementInvariant
<1> QED
  BY <1>1, StatementsAreConsistent, PTL

\* A step that meets a finalized row leaves it finalized, with its balances.
LEMMA FrozenStep ==
    ASSUME StatementInvariant, [Next]_vars, NEW p \in Period,
           row[p].status \in Finalized
    PROVE  /\ row'[p].status \in Finalized
           /\ row'[p].opening = row[p].opening
           /\ row'[p].closing = row[p].closing
<1>1. Regrouped
  BY Regrouping
<1>2. CASE UNCHANGED row
  BY <1>2
<1>3. ASSUME NEW w \in Worker, GenerateInsert(w)
      PROVE  row'[p] = row[p]
  <2>1. row[op[w].period].status = "none" => op[w].period # p
    BY DEF Finalized
  <2> QED
    BY <1>1, <1>3, <2>1 DEF GenerateInsert, Regrouped
<1>4. ASSUME NEW w \in Worker, GenerateWrite(w)
      PROVE  row'[p] = row[p]
  <2>1. row[op[w].period].status \notin Finalized
    BY <1>1, <1>4 DEF Regrouped, GoodOp, GenerateWrite
  <2> QED
    BY <1>1, <1>4, <2>1 DEF GenerateWrite, Regrouped
<1>5. ASSUME NEW w \in Worker, WriteRow(w)
      PROVE  /\ row'[p].status \in Finalized
             /\ row'[p].opening = row[p].opening
             /\ row'[p].closing = row[p].closing
  <2>1. /\ op[w].call \in DOMAIN Accepted \cup {"record"}
        /\ row[p] \in RowType
    BY <1>1, <1>5 DEF WriteRow, Regrouped
  <2>2. row'[p] = row[p] \/ row'[p] = Written(row[p], op[w].call)
    <3>1. row \in [Period -> RowType]
      BY <1>1 DEF Regrouped
    <3>2. row' = [row EXCEPT ![op[w].period] = Written(@, op[w].call)]
      BY <1>5 DEF WriteRow
    <3> QED
      BY <3>1, <3>2
  <2>3. CASE row'[p] = row[p]
    BY <2>3
  <2>4. CASE row'[p] = Written(row[p], op[w].call)
    BY <2>1, <2>4, WrittenRow
  <2> QED
    BY <2>2, <2>3, <2>4
<1>6. \/ UNCHANGED row
      \/ \E w \in Worker : GenerateInsert(w) \/ GenerateWrite(w) \/ WriteRow(w)
  BY DEF Next, vars, Generate, Lifecycle, Pay, Send, Charging, Abandon, StripeForgets,
         GenerateNew, GenerateLock, ApproveStatement, VoidStatement,
         MarkStatementPaid, MarkStatementEmailed, ReadFor, PayOwner,
         TransferAnswered, TransferFails, SendList, SendMail, SentRead,
         CreateCharge, UpdateCharge, VoidCharge, ChargeRead, WriteCharge
<1> QED
  BY <1>2, <1>3, <1>4, <1>5, <1>6

\* Generation never touches a finalized statement, and nothing reopens one.
THEOREM FinalizedStatementsAreFrozen == Spec => FinalizedIsFrozen
<1>1. StatementInvariant /\ [Next]_vars => [\A p \in Period : FinalizedStays(p)]_vars
  BY FrozenStep DEF FinalizedStays
<1> QED
  BY <1>1, StatementsAreConsistent, PTL DEF Spec, FinalizedIsFrozen

-----------------------------------------------------------------------------
(* When a statement is paid twice.                                         *)

\* What is left of "a paid statement is not paid again": one recorded as paid by Stripe
\* is transferred again only after Stripe dropped its key; only the mark made by hand
\* is no obstacle at all (owner_payout_service.py:12-15, statement_workflow.py:365-445).
PaidAgain ==
    [][\A p \in Period : Len(transfers'[p]) > Len(transfers[p])
                            => row[p].paid # "stripe" \/ forgets[p] > 0]_vars

\* A month gains a transfer only when its key is not remembered.
LEMMA TransferNeedsKey ==
    ASSUME StatementInvariant, [Next]_vars, NEW p \in Period, transfers'[p] # transfers[p]
    PROVE  p \notin remembered
<1>1. ASSUME NEW w \in Worker, TransferAnswered(w) \/ TransferFails(w),
             p \in remembered
      PROVE  transfers'[p] = transfers[p]
  <2>1. transfers \in [Period -> Seq(Int)]
    BY DEF StatementInvariant, TypeOK
  <2>2. CASE Transferred(op[w].period, op[w].figure)
    BY <1>1, <2>1, <2>2 DEF Transferred
  <2>3. CASE UNCHANGED <<transfers, remembered>>
    BY <2>3
  <2> QED
    BY <1>1, <2>2, <2>3 DEF TransferAnswered, TransferFails
<1>2. ASSUME NEW w \in Worker, Generate(w) \/ Lifecycle(w) PROVE UNCHANGED transfers
  BY <1>2 DEF Generate, Lifecycle, GenerateNew, GenerateLock, GenerateInsert, GenerateWrite,
              ApproveStatement, VoidStatement, MarkStatementPaid, MarkStatementEmailed,
              ReadFor, WriteRow, stripeVars
<1>3. ASSUME NEW w \in Worker, Charging(w) \/ Send(w) PROVE UNCHANGED transfers
  BY <1>3 DEF Charging, Send, SendList, SendMail, SentRead, CreateCharge, UpdateCharge,
              VoidCharge, ChargeRead, WriteCharge, ReadFor, WriteRow, stripeVars
<1>4. ASSUME NEW w \in Worker, Pay(w)
      PROVE  UNCHANGED transfers \/ TransferAnswered(w) \/ TransferFails(w)
  BY <1>4 DEF Pay, PayOwner, WriteRow, stripeVars
<1>5. CASE UNCHANGED vars \/ \E w \in Worker : Abandon(w)
  BY <1>5 DEF vars, Abandon, stripeVars
<1>6. CASE \E q \in Period : StripeForgets(q)
  BY <1>6 DEF StripeForgets
<1> QED
  BY <1>1, <1>2, <1>3, <1>4, <1>5, <1>6 DEF Next

\* With no key remembered, every transfer of the month was made under a forgotten one.
LEMMA ForgottenKeys ==
    ASSUME StatementInvariant, NEW p \in Period, p \notin remembered
    PROVE  Len(transfers[p]) <= forgets[p] /\ forgets[p] \in Nat
<1>1. forgets[p] \in Nat /\ Len(transfers[p]) \in Nat
  BY DEF StatementInvariant, TypeOK
<1>2. Len(transfers[p]) <= forgets[p] + (IF p \in remembered THEN 1 ELSE 0)
  BY DEF StatementInvariant, KeysCounted
<1>3. (IF p \in remembered THEN 1 ELSE 0) = 0
  OBVIOUS
<1> QED
  BY <1>1, <1>2, <1>3

\* Stripe's memory is the only guard of a statement it was used for, and it is one.
THEOREM PaidAgainOnlyForgotten == Spec => PaidAgain
<1>1. ASSUME StatementInvariant, [Next]_vars, NEW p \in Period,
             Len(transfers'[p]) > Len(transfers[p]), row[p].paid = "stripe"
      PROVE  forgets[p] > 0
  <2>1. Len(transfers[p]) \in Nat
    BY DEF StatementInvariant, TypeOK
  <2>2. transfers'[p] # transfers[p]
    <3>1. ASSUME transfers'[p] = transfers[p] PROVE Len(transfers'[p]) = Len(transfers[p])
      BY <3>1
    <3>2. PICK n \in Nat : n = Len(transfers[p])
      BY <2>1
    <3> QED
      BY <1>1, <3>1, <3>2
  <2>3. p \notin remembered
    BY <1>1, <2>2, TransferNeedsKey
  <2>4. Len(transfers[p]) <= forgets[p] /\ forgets[p] \in Nat
    BY <1>1, <2>3, ForgottenKeys
  <2>5. transfers[p] # <<>> /\ transfers[p] \in Seq(Int)
    BY <1>1 DEF StatementInvariant, PaidMeansTransferred, TypeOK
  <2>6. Len(transfers[p]) > 0
    BY <2>5
  <2> QED
    BY <2>1, <2>4, <2>6
<1>2. StatementInvariant /\ [Next]_vars
         => [\A p \in Period : Len(transfers'[p]) > Len(transfers[p])
                                 => row[p].paid # "stripe" \/ forgets[p] > 0]_vars
  BY <1>1
<1> QED
  BY <1>2, StatementsAreConsistent, PTL DEF Spec, PaidAgain

-----------------------------------------------------------------------------
(* The statements implement StatementBook.                                 *)

StageOf(r) == IF r.status = "none" THEN "none"
              ELSE IF r.status \in Finalized THEN "closed" ELSE "open"

EntryOf(r) == [stage |-> StageOf(r), opening |-> r.opening, closing |-> r.closing]

\* The book entries are the rows without what only the office looks at.
book == [p \in Period |-> EntryOf(row[p])]

Book == INSTANCE StatementBook WITH paidOut <- transfers, sent <- mailed

\* Generation, approval, payment and mailing, each a read and a later write, come down
\* to closing a statement once and paying and mailing the figures it was closed with
\* (statement_workflow.py:29-32, owner_payout_service.py:70-190).
ImplementsBook == Book!Spec

bookVars == <<book, transfers, mailed>>

\* A lifecycle call in hand has read a row, and rows are never deleted.
RowsRead == \A w \in Worker : op[w].call \in DOMAIN Accepted =>
                                  row[op[w].period].status # "none"

\* A row's entry, by its status.
LEMMA EntryCases ==
    ASSUME NEW r
    PROVE  /\ EntryOf(r).opening = r.opening /\ EntryOf(r).closing = r.closing
           /\ r.status = "none" => EntryOf(r).stage = "none"
           /\ r.status \in Finalized => EntryOf(r).stage = "closed"
           /\ r.status \notin Finalized \cup {"none"} => EntryOf(r).stage = "open"
BY DEF EntryOf, StageOf, Finalized

\* One row is rewritten: its entry is drawn anew, closed, or stays.
LEMMA RowRewritten ==
    ASSUME row \in [Period -> RowType], NEW p \in Period, NEW r \in RowType,
           row' = [row EXCEPT ![p] = r], UNCHANGED <<transfers, mailed>>,
           \/ row[p].status \notin Finalized /\ r.status \notin Finalized \cup {"none"}
           \/ /\ row[p].status # "none" /\ r.status \in Finalized
              /\ r.opening = row[p].opening /\ r.closing = row[p].closing
    PROVE  [Book!Next]_bookVars
<1>1. book[p] = EntryOf(row[p]) /\ \A q \in Period : book[q] = EntryOf(row[q])
  BY DEF book
<1>2. row'[p] = r /\ \A q \in Period \ {p} : row'[q] = row[q]
  OBVIOUS
<1>3. book' = [book EXCEPT ![p] = EntryOf(r)]
  BY <1>2 DEF book
<1>4. CASE row[p].status \notin Finalized /\ r.status \notin Finalized \cup {"none"}
  <2>1. EntryOf(r) = [stage |-> "open", opening |-> r.opening, closing |-> r.closing]
    BY <1>4 DEF EntryOf, StageOf
  <2>2. book[p].stage \in {"none", "open"}
    BY <1>1, <1>4, EntryCases
  <2>3. Book!Draw(p, r.opening, r.closing)
    BY <1>3, <2>1, <2>2 DEF Book!Draw
  <2>4. r.opening \in Int /\ r.closing \in Int
    BY DEF RowType
  <2> QED
    BY <2>3, <2>4 DEF Book!Next
<1>5. CASE /\ row[p].status # "none" /\ r.status \in Finalized
           /\ r.opening = row[p].opening /\ r.closing = row[p].closing
  <2>1. EntryOf(r) = [stage |-> "closed", opening |-> row[p].opening,
                      closing |-> row[p].closing]
    BY <1>5 DEF EntryOf, StageOf, Finalized
  <2>2. EntryOf(row[p]) = [stage |-> StageOf(row[p]), opening |-> row[p].opening,
                           closing |-> row[p].closing]
    BY DEF EntryOf
  <2>3. EntryOf(r) = [book[p] EXCEPT !.stage = "closed"]
    BY <1>1, <2>1, <2>2
  <2>4. CASE row[p].status \in Finalized
    <3>1. EntryOf(r) = book[p]
      BY <1>1, <2>1, <2>4 DEF EntryOf, StageOf, Finalized
    <3>2. book' = book
      BY <1>3, <3>1 DEF book
    <3> QED
      BY <3>2 DEF bookVars
  <2>5. CASE row[p].status \notin Finalized
    <3>1. book[p].stage = "open"
      BY <1>1, <1>5, <2>5, EntryCases
    <3>2. Book!Close(p)
      BY <1>3, <2>3, <3>1 DEF Book!Close
    <3> QED
      BY <3>2 DEF Book!Next
  <2> QED
    BY <2>4, <2>5
<1> QED
  BY <1>4, <1>5

\* Steps that leave the rows, Stripe and the mail alone.
LEMMA BookStutters ==
    ASSUME UNCHANGED <<row, transfers, mailed>>
    PROVE  [Book!Next]_bookVars
BY DEF book, bookVars

LEMMA GenerationBook ==
    ASSUME Regrouped, NEW w \in Worker, GenerateInsert(w) \/ GenerateWrite(w)
    PROVE  [Book!Next]_bookVars
<1>1. PICK p \in Period : p = op[w].period
  BY DEF Regrouped, OpType
<1>2. /\ row \in [Period -> RowType] /\ row[p] \in RowType /\ op[w].figure \in Int
      /\ UNCHANGED <<transfers, mailed>>
  BY DEF Regrouped, OpType, GenerateInsert, GenerateWrite, stripeVars
<1>3. CASE GenerateInsert(w)
  <2> DEFINE opening == op[w].figure
             fresh == [NoRow EXCEPT !.status = "draft", !.opening = opening,
                                    !.closing = opening]
  <2>1. fresh \in RowType /\ fresh.status = "draft"
    BY <1>2 DEF NoRow, RowType, Status
  <2>2. Computed(fresh, p, opening) \in RowType
        /\ Computed(fresh, p, opening).status = "pending_approval"
    BY <1>2, <2>1, ComputedRow
  <2>3. \/ UNCHANGED row
        \/ /\ row[p].status = "none"
           /\ \E r \in {fresh, Computed(fresh, p, opening)} : row' = [row EXCEPT ![p] = r]
    BY <1>1, <1>3 DEF GenerateInsert
  <2> HIDE DEF fresh, opening
  <2>4. CASE UNCHANGED row
    BY <1>2, <2>4, BookStutters
  <2>5. ASSUME NEW r \in {fresh, Computed(fresh, p, opening)},
               row[p].status = "none", row' = [row EXCEPT ![p] = r]
        PROVE  [Book!Next]_bookVars
    <3>1. r \in RowType /\ r.status \notin Finalized \cup {"none"}
      BY <2>1, <2>2 DEF Finalized
    <3>2. row[p].status \notin Finalized
      BY <2>5 DEF Finalized
    <3> QED
      BY <1>2, <2>5, <3>1, <3>2, RowRewritten
  <2> QED
    BY <2>3, <2>4, <2>5
<1>4. CASE GenerateWrite(w)
  <2>1. row' = [row EXCEPT ![p] = Computed(row[p], p, op[w].figure)]
    BY <1>1, <1>4 DEF GenerateWrite
  <2>2. row[p].status \notin Finalized
    BY <1>1, <1>4 DEF Regrouped, GoodOp, GenerateWrite
  <2>3. /\ Computed(row[p], p, op[w].figure) \in RowType
        /\ Computed(row[p], p, op[w].figure).status = "pending_approval"
    BY <1>2, ComputedRow
  <2>4. "pending_approval" \notin Finalized \cup {"none"}
    BY DEF Finalized
  <2> QED
    BY <1>2, <2>1, <2>2, <2>3, <2>4, RowRewritten
<1> QED
  BY <1>3, <1>4

LEMMA WriteRowBook ==
    ASSUME Regrouped, RowsRead, NEW w \in Worker, WriteRow(w)
    PROVE  [Book!Next]_bookVars
<1>1. PICK p \in Period : p = op[w].period
  BY DEF Regrouped, OpType
<1>2. /\ row \in [Period -> RowType] /\ row[p] \in RowType
      /\ UNCHANGED <<transfers, mailed>>
      /\ op[w].call \in DOMAIN Accepted \cup {"record"}
      /\ row' = [row EXCEPT ![p] = Written(row[p], op[w].call)]
  BY <1>1 DEF Regrouped, WriteRow, stripeVars
<1>3. row[p].status # "none"
  <2>1. CASE op[w].call = "record"
    BY <1>1, <2>1 DEF Regrouped, GoodOp, Finalized
  <2>2. CASE op[w].call \in DOMAIN Accepted
    BY <1>1, <2>2 DEF RowsRead
  <2> QED
    BY <1>2, <2>1, <2>2
<1> DEFINE r == Written(row[p], op[w].call)
<1>4. /\ r \in RowType /\ r.status \in Finalized
      /\ r.opening = row[p].opening /\ r.closing = row[p].closing
  BY <1>2, WrittenRow
<1> HIDE DEF r
<1>5. row' = [row EXCEPT ![p] = r]
  BY <1>2 DEF r
<1> QED
  BY <1>2, <1>3, <1>4, <1>5, RowRewritten

LEMMA TransferBook ==
    ASSUME Regrouped, NEW w \in Worker, TransferAnswered(w) \/ TransferFails(w)
    PROVE  [Book!Next]_bookVars
<1>1. PICK p \in Period : p = op[w].period
  BY DEF Regrouped, OpType
<1>2. UNCHANGED <<row, mailed>>
  BY DEF TransferAnswered, TransferFails
<1>3. row[p].status \in Finalized /\ op[w].figure = row[p].closing - row[p].opening
  BY <1>1 DEF Regrouped, GoodOp, TransferAnswered, TransferFails
<1>4. \/ UNCHANGED transfers
      \/ transfers' = [transfers EXCEPT ![p] = Append(@, op[w].figure)]
  BY <1>1 DEF TransferAnswered, TransferFails, Transferred
<1>5. CASE UNCHANGED transfers
  BY <1>2, <1>5, BookStutters
<1>6. CASE transfers' = [transfers EXCEPT ![p] = Append(@, op[w].figure)]
  <2>1. book[p].stage = "closed" /\ book[p].closing - book[p].opening = op[w].figure
    BY <1>3, EntryCases DEF book
  <2>2. UNCHANGED <<book, mailed>>
    BY <1>2 DEF book
  <2>3. Book!Pay(p)
    BY <1>6, <2>1, <2>2 DEF Book!Pay
  <2> QED
    BY <2>3 DEF Book!Next
<1> QED
  BY <1>4, <1>5, <1>6

LEMMA SendMailBook ==
    ASSUME Regrouped, NEW w \in Worker, SendMail(w)
    PROVE  [Book!Next]_bookVars
<1>1. PICK p \in Period : p = op[w].period
  BY DEF Regrouped, OpType
<1>2. UNCHANGED <<row, transfers>> /\ row[p].status \in Finalized
  BY <1>1 DEF SendMail, stripeVars, Regrouped, GoodOp
<1>3. UNCHANGED mailed \/ mailed' = [mailed EXCEPT ![p] = @ \cup {row[p].closing}]
  BY <1>1 DEF SendMail
<1>4. CASE UNCHANGED mailed
  BY <1>2, <1>4, BookStutters
<1>5. CASE mailed' = [mailed EXCEPT ![p] = @ \cup {row[p].closing}]
  <2>1. book[p].stage = "closed" /\ book[p].closing = row[p].closing
    BY <1>2, EntryCases DEF book
  <2>2. UNCHANGED <<book, transfers>>
    BY <1>2 DEF book
  <2>3. Book!Mail(p)
    BY <1>5, <2>1, <2>2 DEF Book!Mail
  <2> QED
    BY <2>3 DEF Book!Next
<1> QED
  BY <1>3, <1>4, <1>5

\* The steps that write a row, pay or mail; all others only read.
LEMMA Writers ==
    ASSUME [Next]_vars
    PROVE  \/ UNCHANGED <<row, transfers, mailed>>
           \/ \E w \in Worker : \/ GenerateInsert(w) \/ GenerateWrite(w) \/ WriteRow(w)
                                \/ TransferAnswered(w) \/ TransferFails(w) \/ SendMail(w)
BY DEF Next, vars, Generate, Lifecycle, Pay, Send, Charging, Abandon, StripeForgets,
       GenerateNew, GenerateLock, ApproveStatement, VoidStatement,
       MarkStatementPaid, MarkStatementEmailed, ReadFor, PayOwner, SendList, SentRead,
       CreateCharge, UpdateCharge, VoidCharge, ChargeRead, WriteCharge, stripeVars

\* A step gives a worker a lifecycle call only on a row that is there.
LEMMA CallsRead ==
    ASSUME Regrouped, [Next]_vars, NEW w \in Worker, op'[w].call \in DOMAIN Accepted
    PROVE  op'[w] = op[w] \/ row[op'[w].period].status # "none"
<1>1. ASSUME NEW v \in Worker, NEW o, op' = [op EXCEPT ![v] = o],
             o.call \in DOMAIN Accepted => row[o.period].status # "none"
      PROVE  op'[w] = op[w] \/ row[op'[w].period].status # "none"
  BY <1>1 DEF Regrouped
<1>2. Idle.call \notin DOMAIN Accepted
  BY DEF Idle, Accepted
<1>3. ASSUME NEW v \in Worker,
             End(v) \/ \E c \in {"insert", "generate", "transfer", "render"},
                          p \in Period : \E f : Begin(v, c, p, f)
      PROVE  op'[w] = op[w] \/ row[op'[w].period].status # "none"
  <2>1. CASE End(v)
    BY <1>1, <1>2, <2>1 DEF End
  <2>2. ASSUME NEW c \in {"insert", "generate", "transfer", "render"}, NEW p \in Period,
               NEW f, Begin(v, c, p, f)
        PROVE  op'[w] = op[w] \/ row[op'[w].period].status # "none"
    <3> DEFINE o == [call |-> c, period |-> p, figure |-> f, charge |-> None]
    <3>1. op' = [op EXCEPT ![v] = o] /\ o.call \notin DOMAIN Accepted
      BY <2>2 DEF Begin, Accepted
    <3> QED
      BY <1>1, <3>1
  <2> QED
    BY <1>3, <2>1, <2>2
<1>4. ASSUME NEW v \in Worker, NEW c \in DOMAIN Accepted, NEW p \in Period, ReadFor(v, c, p)
      PROVE  op'[w] = op[w] \/ row[op'[w].period].status # "none"
  <2> DEFINE o == [call |-> c, period |-> p, figure |-> 0, charge |-> None]
  <2>1. op' = [op EXCEPT ![v] = o] /\ o.period = p /\ row[p].status # "none"
    BY <1>4 DEF ReadFor, Begin, Accepted
  <2> QED
    BY <1>1, <2>1
<1>5. ASSUME NEW v \in Worker, NEW c \in {"record", "sent"}, op[v] \in OpType,
             op' = [op EXCEPT ![v].call = c]
      PROVE  op'[w] = op[w] \/ row[op'[w].period].status # "none"
  <2>1. op'[v].call = c /\ c \notin DOMAIN Accepted
    BY <1>5 DEF Regrouped, OpType, Accepted
  <2>2. w # v => op'[w] = op[w]
    BY <1>5 DEF Regrouped
  <2> QED
    BY <2>1, <2>2
<1>6. ASSUME NEW v \in Worker, SentRead(v)
      PROVE  op'[w] = op[w] \/ row[op'[w].period].status # "none"
  <2>1. CASE End(v)
    BY <1>3, <2>1
  <2>2. CASE /\ row[op[v].period].status \in Accepted["mark_emailed"]
             /\ op' = [op EXCEPT ![v].call = "mark_emailed"]
    <3>1. op'[v].period = op[v].period /\ row[op[v].period].status # "none"
      BY <2>2 DEF Regrouped, OpType, Accepted
    <3>2. w # v => op'[w] = op[w]
      BY <2>2 DEF Regrouped
    <3> QED
      BY <3>1, <3>2
  <2> QED
    BY <1>6, <2>1, <2>2 DEF SentRead
<1>7. ASSUME NEW v \in Worker, NEW c \in {"post", "move", "unpost"}, NEW k,
             \E p \in 0..LastPeriod : ChargeRead(v, c, k, p)
      PROVE  op'[w] = op[w] \/ row[op'[w].period].status # "none"
  <2>1. PICK p \in 0..LastPeriod : op' = [op EXCEPT ![v] = [call |-> c, period |-> p,
                                                             figure |-> 0, charge |-> k]]
    BY <1>7 DEF ChargeRead
  <2>2. [call |-> c, period |-> p, figure |-> 0, charge |-> k].call \notin DOMAIN Accepted
    BY DEF Accepted
  <2> QED
    BY <1>1, <2>1, <2>2
<1>8. ASSUME NEW v \in Worker, Generate(v) \/ Abandon(v)
      PROVE  op'[w] = op[w] \/ row[op'[w].period].status # "none"
  BY <1>3, <1>8 DEF Generate, GenerateNew, GenerateLock, GenerateInsert, GenerateWrite, Abandon
<1>9. ASSUME NEW v \in Worker, Lifecycle(v)
      PROVE  op'[w] = op[w] \/ row[op'[w].period].status # "none"
  <2>1. {"approve", "void", "mark_paid", "mark_emailed"} \subseteq DOMAIN Accepted
    BY DEF Accepted
  <2> QED
    BY <1>3, <1>4, <1>9, <2>1 DEF Lifecycle, ApproveStatement, VoidStatement,
                                   MarkStatementPaid, MarkStatementEmailed, WriteRow
<1>10. \A v \in Worker : op[v] \in OpType
  BY DEF Regrouped
<1>11. ASSUME NEW v \in Worker, Pay(v) \/ Send(v)
      PROVE  op'[w] = op[w] \/ row[op'[w].period].status # "none"
  BY <1>3, <1>5, <1>6, <1>10, <1>11 DEF Pay, PayOwner, TransferAnswered, TransferFails,
                                         Send, SendList, SendMail
<1>12. ASSUME NEW v \in Worker, Charging(v)
      PROVE  op'[w] = op[w] \/ row[op'[w].period].status # "none"
  <2>1. Period \subseteq 0..LastPeriod /\ \A c \in Charge : posted[c] \in 0..LastPeriod
    BY StatementAssumption DEF Period, Regrouped, OtherTypes
  <2> QED
    BY <1>3, <1>7, <1>12, <2>1 DEF Charging, CreateCharge, UpdateCharge, VoidCharge, WriteCharge
<1>13. CASE UNCHANGED vars \/ \E p \in Period : StripeForgets(p)
  BY <1>13 DEF vars, StripeForgets
<1> QED
  BY <1>8, <1>9, <1>11, <1>12, <1>13 DEF Next

\* Rows are never deleted.
LEMMA RowsStay ==
    ASSUME Regrouped, [Next]_vars, NEW p \in Period, row[p].status # "none"
    PROVE  row'[p].status # "none"
<1>1. CASE UNCHANGED row
  BY <1>1
<1>2. ASSUME NEW w \in Worker, GenerateInsert(w) PROVE row'[p] = row[p]
  BY <1>2 DEF GenerateInsert, Regrouped
<1>3. ASSUME NEW w \in Worker, GenerateWrite(w) PROVE row'[p].status # "none"
  <2>1. row \in [Period -> RowType] /\ row[p] \in RowType
    BY DEF Regrouped
  <2>2. row' = [row EXCEPT ![op[w].period] = Computed(@, op[w].period, op[w].figure)]
    BY <1>3 DEF GenerateWrite
  <2>3. row'[p] = row[p] \/ row'[p] = Computed(row[p], p, op[w].figure)
    BY <2>1, <2>2
  <2>4. op[w].figure \in Int
    BY DEF Regrouped, OpType
  <2>5. Computed(row[p], p, op[w].figure).status = "pending_approval"
    BY <2>1, <2>4, ComputedRow
  <2> QED
    BY <2>3, <2>5
<1>4. ASSUME NEW w \in Worker, WriteRow(w) PROVE row'[p].status # "none"
  <2>1. /\ op[w].call \in DOMAIN Accepted \cup {"record"}
        /\ row \in [Period -> RowType] /\ row[p] \in RowType
    BY <1>4 DEF WriteRow, Regrouped
  <2>2. row' = [row EXCEPT ![op[w].period] = Written(@, op[w].call)]
    BY <1>4 DEF WriteRow
  <2>3. row'[p] = row[p] \/ row'[p] = Written(row[p], op[w].call)
    BY <2>1, <2>2
  <2>4. Written(row[p], op[w].call).status \in Finalized
    BY <2>1, WrittenRow
  <2> QED
    BY <2>3, <2>4 DEF Finalized
<1>5. ASSUME NEW w \in Worker, TransferAnswered(w) \/ TransferFails(w) \/ SendMail(w)
      PROVE  UNCHANGED row
  BY <1>5 DEF TransferAnswered, TransferFails, SendMail
<1> QED
  BY <1>1, <1>2, <1>3, <1>4, <1>5, Writers

LEMMA RowsReadStep ==
    ASSUME Regrouped, RowsRead, [Next]_vars
    PROVE  RowsRead'
<1>1. DOMAIN Accepted' = DOMAIN Accepted
  BY DEF Accepted
<1>2. ASSUME NEW w \in Worker, op'[w].call \in DOMAIN Accepted
      PROVE  row'[op'[w].period].status # "none"
  <2>1. op'[w].period \in Period
    BY NextRegrouped DEF Regrouped, OpType
  <2>2. row[op'[w].period].status # "none"
    BY <1>2, CallsRead DEF RowsRead
  <2> QED
    BY <2>1, <2>2, RowsStay
<1> QED
  BY <1>2 DEF RowsRead

\* Statements are closed once; only closed figures are paid and mailed, and exactly
\* those, whatever else is under way.
THEOREM Refinement == Spec => ImplementsBook
<1>1. Init => Book!Init /\ RowsRead
  <2> SUFFICES ASSUME Init PROVE Book!Init /\ RowsRead
    OBVIOUS
  <2>1. EntryOf(NoRow) = [stage |-> "none", opening |-> 0, closing |-> 0]
    BY DEF EntryOf, StageOf, NoRow
  <2>2. book = [p \in Period |-> [stage |-> "none", opening |-> 0, closing |-> 0]]
    BY <2>1 DEF Init, book
  <2>3. RowsRead
    BY DEF Init, RowsRead, Idle, Accepted
  <2> QED
    BY <2>2, <2>3 DEF Init, Book!Init
<1>2. Regrouped /\ RowsRead /\ [Next]_vars => RowsRead' /\ [Book!Next]_bookVars
  BY RowsReadStep, Writers, BookStutters, GenerationBook, WriteRowBook, TransferBook,
     SendMailBook
<1>3. Spec => []Regrouped
  BY InitRegrouped, NextRegrouped, PTL DEF Spec
<1> QED
  BY <1>1, <1>2, <1>3, PTL DEF Spec, ImplementsBook, Book!Spec, bookVars

=============================================================================
