------------------------ MODULE OwnerPayoutsProofs ------------------------
(***************************************************************************)
(* Theorems about OwnerPayouts for any number of stays, workers, ledger    *)
(* rows, deposits and faults.  The invariant says what holds of each       *)
(* worker's job (GoodJob), that two workers never hold one row (Apart) and *)
(* what holds of each ledger row (GoodRow).                                *)
(***************************************************************************)
EXTENDS OwnerPayouts, FiniteSetTheorems, TLAPS

JobType == [pc : {"idle", "compute", "transfer", "refused", "commit", "advance"},
            kind : {"none", "sweep", "manual"},
            since : Stamp \cup {None}, stamp : Stamp \cup {None},
            row : Row \cup {None}, amount : Amount \cup {0}]

Scalars ==
    /\ today \in Nat /\ clock \in Nat /\ faults \in Nat
    /\ account \in [status : {"active", "restricted"}, next : Nat \cup {None},
                    since : Stamp]

Tables ==
    /\ ledger \in [Row -> {None} \cup RowType]
    /\ journal \in [Row -> Nat]
    /\ transfer \in [Row -> {None} \cup TransferType]
    /\ deposit \in [Deposit -> {None} \cup DepositType]

Holding == {"transfer", "refused", "commit"}

\* j is a job a worker may have in hand.
GoodJob(j) ==
    /\ j.pc \notin Holding => j.row = None
    /\ j.pc = "compute" => j.stamp \in Stamp
    /\ j.pc \in Holding =>
          /\ j.row \in Row /\ ledger[j.row] = None
          /\ j.amount \in Amount \ {0} /\ j.stamp \in Stamp
    /\ j.pc = "transfer" => transfer[j.row] = None
    /\ j.pc = "commit" => transfer[j.row] # None /\ transfer[j.row].amount = j.amount

Apart ==
    \A v, w \in Worker : v # w /\ job[v].row # None => job[v].row # job[w].row

Arrived(d) == deposit[d] # None /\ deposit[d].state \in {"landed", "returned"}

GoodRow(r) ==
    /\ journal[r] <= 1
    /\ journal[r] > 0 => transfer[r] # None /\ transfer[r].outcome = "paid"
    /\ ledger[r] = None => journal[r] = 0
    /\ ledger[r] # None =>
          /\ ledger[r].status \in Standing => ledger[r].xfer
          /\ ledger[r].xfer => transfer[r] # None /\ transfer[r].amount = ledger[r].amount
          /\ ledger[r].status = "processing" => journal[r] = 0
          /\ ledger[r].status \in {"completed", "settled"} => journal[r] = 1
          /\ ledger[r].payout # None <=> ledger[r].status = "settled"
          /\ ledger[r].payout # None => Arrived(ledger[r].payout)

PayoutInvariant ==
    /\ Scalars
    /\ job \in [Worker -> JobType]
    /\ Tables
    /\ \A w \in Worker : GoodJob(job[w])
    /\ Apart
    /\ \A r \in Row : GoodRow(r)

-----------------------------------------------------------------------------
(* What the invariant gives.                                               *)

LEMMA InvariantGivesTypes == PayoutInvariant => TypeOK
BY DEF PayoutInvariant, Scalars, Tables, TypeOK, JobType

LEMMA InvariantGivesTransfers == PayoutInvariant => RowsHaveTransfers
BY DEF PayoutInvariant, GoodRow, RowsHaveTransfers, StandingRows

LEMMA InvariantGivesClearing == PayoutInvariant => ClearedOnce
BY DEF PayoutInvariant, GoodRow, ClearedOnce

LEMMA InvariantGivesSettling == PayoutInvariant => SettledMeansPaid
<1> SUFFICES ASSUME PayoutInvariant, NEW r \in Row
             PROVE  /\ journal[r] > 0 => transfer[r] # None /\ transfer[r].outcome = "paid"
                    /\ ledger[r] # None =>
                         /\ ledger[r].status \in {"completed", "settled"} => journal[r] > 0
                         /\ ledger[r].status = "settled" =>
                              /\ ledger[r].payout # None /\ deposit[ledger[r].payout] # None
                              /\ deposit[ledger[r].payout].state \in {"landed", "returned"}
  BY DEF SettledMeansPaid
<1>1. GoodRow(r)
  BY DEF PayoutInvariant
<1> QED
  BY <1>1 DEF GoodRow, Arrived

-----------------------------------------------------------------------------
(* The initial state, and steps that touch only jobs and scalars.          *)

LEMMA IdleIsGood == Idle \in JobType /\ GoodJob(Idle)
BY DEF Idle, JobType, GoodJob, Holding

LEMMA InitHolds == Init => PayoutInvariant
<1> SUFFICES ASSUME Init PROVE PayoutInvariant
  OBVIOUS
<1>1. Scalars
  BY DEF Init, Scalars, Stamp
<1>2. job \in [Worker -> JobType]
  BY IdleIsGood DEF Init
<1>3. Tables
  BY DEF Init, Tables
<1>4. \A w \in Worker : GoodJob(job[w])
  BY IdleIsGood DEF Init
<1>5. Apart
  BY DEF Init, Apart, Idle
<1>6. \A r \in Row : GoodRow(r)
  BY DEF Init, GoodRow
<1> QED
  BY <1>1, <1>2, <1>3, <1>4, <1>5, <1>6 DEF PayoutInvariant

\* A worker turns to job j, which is a good one, and nothing else moves.
LEMMA JobStep ==
    ASSUME PayoutInvariant, Scalars', NEW w \in Worker, NEW j \in JobType, GoodJob(j),
           j.row # None => \A v \in Worker \ {w} : job[v].row # j.row,
           job' = [job EXCEPT ![w] = j],
           UNCHANGED <<ledger, journal, transfer, deposit>>
    PROVE  PayoutInvariant'
<1>1. job' \in [Worker -> JobType]
  BY DEF PayoutInvariant
<1>2. Tables'
  BY DEF PayoutInvariant, Tables
<1>3. \A v \in Worker : job'[v] = IF v = w THEN j ELSE job[v]
  BY DEF PayoutInvariant
<1>5. ASSUME NEW v \in Worker PROVE GoodJob(job[v])'
  <2>1. GoodJob(job'[v])
    BY <1>3 DEF PayoutInvariant
  <2> QED
    BY <2>1 DEF GoodJob
<1>6. Apart'
  BY <1>3 DEF PayoutInvariant, Apart
<1>7. \A r \in Row : GoodRow(r)'
  BY DEF PayoutInvariant, GoodRow, Arrived
<1> QED
  BY <1>1, <1>2, <1>5, <1>6, <1>7 DEF PayoutInvariant

LEMMA BeginStep ==
    ASSUME PayoutInvariant, NEW w \in Worker, NEW kind \in {"sweep", "manual"},
           Begin(w, kind)
    PROVE  PayoutInvariant'
<1> DEFINE j == [Idle EXCEPT !.pc = "compute", !.kind = kind, !.since = account.since,
                             !.stamp = [at |-> clock, day |-> today]]
<1>1. Scalars'
  BY DEF PayoutInvariant, Scalars, Begin
<1>2. account.since \in Stamp /\ [at |-> clock, day |-> today] \in Stamp
  BY DEF PayoutInvariant, Scalars, Stamp
<1>3. j \in JobType
  BY <1>2 DEF Idle, JobType
<1>4. j.pc = "compute" /\ j.stamp \in Stamp /\ j.row = None
  BY <1>2 DEF Idle
<1>5. GoodJob(j)
  BY <1>4 DEF GoodJob, Holding
<1>6. job' = [job EXCEPT ![w] = j] /\ UNCHANGED <<ledger, journal, transfer, deposit>>
  BY DEF Begin, stripe
<1> QED
  BY <1>1, <1>3, <1>4, <1>5, <1>6, JobStep

\* A worker gives up or is done, with its account's dates possibly moved.
LEMMA EndStep ==
    ASSUME PayoutInvariant, Scalars', NEW w \in Worker,
           job' = [job EXCEPT ![w] = Idle],
           UNCHANGED <<ledger, journal, transfer, deposit>>
    PROVE  PayoutInvariant'
<1>1. Idle.row = None
  BY DEF Idle
<1> QED
  BY <1>1, IdleIsGood, JobStep

\* The floor is above zero, so what is staged is too.
LEMMA StageStep ==
    ASSUME PayoutInvariant, NEW w \in Worker, NEW r \in Row, Stage(w, r)
    PROVE  PayoutInvariant'
<1>1. PICK fresh \in BOOLEAN :
         LET stamp  == IF fresh THEN [at |-> clock, day |-> today] ELSE job[w].stamp
             amount == Pending(job[w].since, stamp.day)
         IN  /\ amount \in Amount /\ amount >= Floor(job[w].kind)
             /\ clock' = IF fresh THEN clock + 1 ELSE clock
             /\ job' = [job EXCEPT ![w].pc = "transfer", ![w].row = r,
                                   ![w].amount = amount, ![w].stamp = stamp]
  BY DEF Stage
<1> DEFINE stamp  == IF fresh THEN [at |-> clock, day |-> today] ELSE job[w].stamp
           amount == Pending(job[w].since, stamp.day)
           j == [job[w] EXCEPT !.pc = "transfer", !.row = r, !.amount = amount,
                               !.stamp = stamp]
<1>2. job[w] \in JobType /\ job[w].pc = "compute" /\ GoodJob(job[w])
  BY DEF PayoutInvariant, Stage
<1>3. amount \in Amount \ {0}
  <2>1. amount \in Amount /\ amount >= Floor(job[w].kind)
    BY <1>1
  <2>2. Floor(job[w].kind) \in Nat \ {0}
    BY PayoutsAssumption DEF Floor
  <2>3. amount \in Nat
    BY <2>1, PayoutsAssumption
  <2>4. amount # 0
    <3> HIDE DEF amount
    <3> QED
      BY <2>1, <2>2, <2>3
  <2> QED
    BY <2>1, <2>4
<1>4. stamp \in Stamp
  <2>1. [at |-> clock, day |-> today] \in Stamp
    BY DEF PayoutInvariant, Scalars, Stamp
  <2> QED
    BY <1>2, <2>1 DEF GoodJob
<1>5. job' = [job EXCEPT ![w] = j]
  <2>1. job' = [job EXCEPT ![w].pc = "transfer", ![w].row = r,
                           ![w].amount = amount, ![w].stamp = stamp]
    BY <1>1
  <2> HIDE DEF amount, stamp
  <2> QED
    BY <2>1 DEF PayoutInvariant
<1>6. j \in JobType
  <2> HIDE DEF amount, stamp
  <2> QED
    BY <1>2, <1>3, <1>4 DEF JobType
<1>7. j.pc = "transfer" /\ j.row = r /\ j.amount = amount /\ j.stamp = stamp
  <2> HIDE DEF amount, stamp
  <2> QED
    BY <1>2 DEF JobType
<1>8. ledger[r] = None /\ transfer[r] = None /\ \A v \in Worker : job[v].row # r
  BY DEF Stage, Free
<1>9. GoodJob(j)
  <2> HIDE DEF amount, stamp, j
  <2> QED
    BY <1>3, <1>4, <1>7, <1>8 DEF GoodJob, Holding
<1>10. Scalars'
  <2>1. clock' \in Nat
    BY <1>1 DEF PayoutInvariant, Scalars
  <2> QED
    BY <2>1 DEF PayoutInvariant, Scalars, Stage
<1>11. UNCHANGED <<ledger, journal, transfer, deposit>>
  BY DEF Stage, stripe
<1> QED
  <2> HIDE DEF j
  <2> QED
    BY <1>5, <1>6, <1>7, <1>8, <1>9, <1>10, <1>11, JobStep

LEMMA RefusedStep ==
    ASSUME PayoutInvariant, NEW w \in Worker, TransferRefused(w)
    PROVE  PayoutInvariant'
<1> DEFINE j == [job[w] EXCEPT !.pc = "refused"]
<1>1. job[w] \in JobType /\ job[w].pc = "transfer" /\ GoodJob(job[w])
  BY DEF PayoutInvariant, TransferRefused
<1>2. j \in JobType /\ j.pc = "refused" /\ j.row = job[w].row
      /\ j.amount = job[w].amount /\ j.stamp = job[w].stamp
  BY <1>1 DEF JobType
<1>3. GoodJob(j)
  BY <1>1, <1>2 DEF GoodJob, Holding
<1>4. job' = [job EXCEPT ![w] = j]
  BY DEF TransferRefused
<1>5. j.row # None => \A v \in Worker \ {w} : job[v].row # j.row
  BY <1>2 DEF PayoutInvariant, Apart
<1>6. Scalars' /\ UNCHANGED <<ledger, journal, transfer, deposit>>
  BY DEF TransferRefused, PayoutInvariant, Scalars, stripe
<1> QED
  BY <1>2, <1>3, <1>4, <1>5, <1>6, JobStep

-----------------------------------------------------------------------------
(* Stripe makes the transfer.                                              *)

\* A transfer is made for the row worker w holds, and w goes on at pc.
LEMMA CreateStep ==
    ASSUME PayoutInvariant, Scalars', NEW w \in Worker, NEW pc \in {"commit", "refused"},
           job[w].pc = "transfer", Created(w),
           job' = [job EXCEPT ![w].pc = pc],
           UNCHANGED <<ledger, journal, deposit>>
    PROVE  PayoutInvariant'
<1> DEFINE h == job[w].row
           x == [amount |-> job[w].amount, outcome |-> "pending"]
<1>1. job[w] \in JobType /\ GoodJob(job[w])
  BY DEF PayoutInvariant
<1>2. h \in Row /\ ledger[h] = None /\ transfer[h] = None
      /\ job[w].amount \in Amount \ {0} /\ job[w].stamp \in Stamp
  BY <1>1 DEF GoodJob, Holding
<1>3. x \in TransferType /\ x.amount = job[w].amount /\ x.outcome = "pending"
  BY <1>2 DEF TransferType
<1>4. x # None
  BY <1>3, PayoutsAssumption
<1>5. transfer' \in [Row -> {None} \cup TransferType]
  BY <1>2, <1>3 DEF Created, PayoutInvariant, Tables
<1>6. \A r \in Row : transfer'[r] = IF r = h THEN x ELSE transfer[r]
  BY <1>2 DEF Created, PayoutInvariant, Tables
<1> HIDE DEF x
<1> DEFINE j == [job[w] EXCEPT !.pc = pc]
<1>7. j \in JobType /\ j.pc = pc /\ j.row = h /\ j.amount = job[w].amount
      /\ j.stamp = job[w].stamp
  BY <1>1 DEF JobType
<1>8. job' \in [Worker -> JobType]
      /\ \A v \in Worker : job'[v] = IF v = w THEN j ELSE job[v]
  BY <1>7 DEF PayoutInvariant
<1> HIDE DEF j
<1>9. Tables'
  BY <1>5 DEF PayoutInvariant, Tables
<1>10. ASSUME NEW v \in Worker PROVE GoodJob(job[v])'
  <2>1. CASE v = w
    <3>1. transfer'[h] # None /\ transfer'[h].amount = j.amount
      BY <1>2, <1>3, <1>4, <1>6, <1>7
    <3> QED
      BY <2>1, <1>2, <1>7, <1>8, <3>1 DEF GoodJob, Holding
  <2>2. CASE v # w
    <3>1. job'[v] = job[v] /\ GoodJob(job[v])
      BY <2>2, <1>8 DEF PayoutInvariant
    <3>2. job[v].row # h
      BY <2>2, <1>2, PayoutsAssumption DEF PayoutInvariant, Apart
    <3>3. job[v].row \in Row => transfer'[job[v].row] = transfer[job[v].row]
      BY <3>2, <1>6
    <3> QED
      BY <3>1, <3>3 DEF GoodJob, Holding
  <2> QED
    BY <2>1, <2>2
<1>11. Apart'
  BY <1>7, <1>8 DEF PayoutInvariant, Apart
<1>12. ASSUME NEW r \in Row PROVE GoodRow(r)'
  <2>1. GoodRow(r)
    BY DEF PayoutInvariant
  <2>2. CASE r = h
    BY <2>1, <2>2, <1>2 DEF GoodRow
  <2>3. CASE r # h
    <3>1. transfer'[r] = transfer[r]
      BY <2>3, <1>6
    <3> QED
      BY <2>1, <3>1 DEF GoodRow, Arrived
  <2> QED
    BY <2>2, <2>3
<1> QED
  BY <1>8, <1>9, <1>10, <1>11, <1>12 DEF PayoutInvariant

LEMMA TransferStep ==
    ASSUME PayoutInvariant, NEW w \in Worker, TransferMade(w) \/ AnswerLost(w)
    PROVE  PayoutInvariant'
<1>1. Scalars'
  BY DEF PayoutInvariant, Scalars, TransferMade, AnswerLost
<1>2. CASE TransferMade(w)
  BY <1>1, <1>2, CreateStep DEF TransferMade
<1>3. CASE AnswerLost(w)
  BY <1>1, <1>3, CreateStep DEF AnswerLost
<1> QED
  BY <1>2, <1>3

-----------------------------------------------------------------------------
(* The row is committed.                                                   *)

\* Worker w commits entry e for the row it holds and lets the row go.
LEMMA EntryStep ==
    ASSUME PayoutInvariant, Scalars', NEW w \in Worker, NEW e \in RowType, NEW j \in JobType,
           job[w].pc \in Holding, e.payout = None,
           \/ e.status = "failed" /\ ~e.xfer
           \/ /\ e.status = "processing" /\ e.xfer
              /\ transfer[job[w].row] # None /\ transfer[job[w].row].amount = e.amount,
           j.pc \in {"idle", "advance"}, j.row = None,
           ledger' = [ledger EXCEPT ![job[w].row] = e],
           job' = [job EXCEPT ![w] = j],
           UNCHANGED <<journal, transfer, deposit>>
    PROVE  PayoutInvariant'
<1> DEFINE h == job[w].row
<1>1. GoodJob(job[w])
  BY DEF PayoutInvariant
<1>2. h \in Row /\ ledger[h] = None
  BY <1>1 DEF GoodJob
<1>3. e # None
  BY PayoutsAssumption
<1>4. /\ ledger' \in [Row -> {None} \cup RowType]
      /\ \A r \in Row : ledger'[r] = IF r = h THEN e ELSE ledger[r]
  BY <1>2 DEF PayoutInvariant, Tables
<1>5. Tables'
  BY <1>4 DEF PayoutInvariant, Tables
<1>6. /\ job' \in [Worker -> JobType]
      /\ \A v \in Worker : job'[v] = IF v = w THEN j ELSE job[v]
  BY DEF PayoutInvariant
<1>7. ASSUME NEW v \in Worker PROVE GoodJob(job[v])'
  <2>1. CASE v = w
    BY <2>1, <1>6 DEF GoodJob, Holding
  <2>2. CASE v # w
    <3>1. job'[v] = job[v] /\ GoodJob(job[v])
      BY <2>2, <1>6 DEF PayoutInvariant
    <3>2. job[v].row # h
      BY <2>2, <1>2, PayoutsAssumption DEF PayoutInvariant, Apart
    <3>3. job[v].row \in Row => ledger'[job[v].row] = ledger[job[v].row]
      BY <3>2, <1>4
    <3> QED
      BY <3>1, <3>3 DEF GoodJob, Holding
  <2> QED
    BY <2>1, <2>2
<1>8. Apart'
  BY <1>6 DEF PayoutInvariant, Apart
<1>9. ASSUME NEW r \in Row PROVE GoodRow(r)'
  <2>1. GoodRow(r)
    BY DEF PayoutInvariant
  <2>2. CASE r = h
    <3>1. ledger'[r] = e /\ journal'[r] = 0
      BY <2>1, <2>2, <1>2, <1>4 DEF GoodRow
    <3>2. e.status \notin {"completed", "settled"} /\ (e.xfer => e.status = "processing")
      OBVIOUS
    <3>3. e.status \in Standing => e.xfer
      BY DEF Standing
    <3> QED
      BY <2>2, <3>1, <3>2, <3>3, <1>3 DEF GoodRow
  <2>3. CASE r # h
    <3>1. ledger'[r] = ledger[r]
      BY <2>3, <1>4
    <3> QED
      BY <2>1, <3>1 DEF GoodRow, Arrived
  <2> QED
    BY <2>2, <2>3
<1> QED
  BY <1>5, <1>6, <1>7, <1>8, <1>9 DEF PayoutInvariant

\* The entry worker w commits has the shape of a row.
LEMMA EntryType ==
    ASSUME PayoutInvariant, NEW w \in Worker, job[w].pc \in Holding,
           NEW status \in Standing \cup {"failed"}, NEW xfer \in BOOLEAN
    PROVE  /\ Entry(w, status, xfer) \in RowType
           /\ Entry(w, status, xfer).status = status
           /\ Entry(w, status, xfer).xfer = xfer
           /\ Entry(w, status, xfer).payout = None
           /\ Entry(w, status, xfer).amount = job[w].amount
<1>1. job[w].amount \in Amount \ {0} /\ job[w].stamp \in Stamp
  BY DEF PayoutInvariant, GoodJob
<1>2. job[w].stamp.at \in Nat
  BY <1>1 DEF Stamp
<1> QED
  BY <1>1, <1>2 DEF Entry, RowType

LEMMA RecordRefusedStep ==
    ASSUME PayoutInvariant, NEW w \in Worker, RecordRefused(w)
    PROVE  PayoutInvariant'
<1> DEFINE e == Entry(w, "failed", FALSE)
<1>1. job[w].pc \in Holding
  BY DEF RecordRefused, Holding
<1>2. e \in RowType /\ e.status = "failed" /\ ~e.xfer /\ e.payout = None
  BY <1>1, EntryType
<1>3. Scalars'
  BY DEF PayoutInvariant, Scalars, RecordRefused
<1>4. /\ ledger' = [ledger EXCEPT ![job[w].row] = e] /\ job' = [job EXCEPT ![w] = Idle]
      /\ UNCHANGED <<journal, transfer, deposit>>
  BY DEF RecordRefused, stripe
<1>5. Idle.pc = "idle" /\ Idle.row = None
  BY DEF Idle
<1> HIDE DEF e
<1> QED
  BY <1>1, <1>2, <1>3, <1>4, <1>5, IdleIsGood, EntryStep

LEMMA CommitStep ==
    ASSUME PayoutInvariant, NEW w \in Worker, Commit(w)
    PROVE  PayoutInvariant'
<1> DEFINE e == Entry(w, "processing", TRUE)
           j == IF job[w].kind = "sweep" THEN [Idle EXCEPT !.pc = "advance"] ELSE Idle
<1>1. job[w].pc = "commit" /\ job[w].pc \in Holding
  BY DEF Commit, Holding
<1>2. e \in RowType /\ e.status = "processing" /\ e.xfer /\ e.payout = None
      /\ e.amount = job[w].amount
  BY <1>1, EntryType DEF Standing
<1>3. transfer[job[w].row] # None /\ transfer[job[w].row].amount = e.amount
  BY <1>1, <1>2 DEF PayoutInvariant, GoodJob
<1>4. j \in JobType /\ j.pc \in {"idle", "advance"} /\ j.row = None
  BY IdleIsGood DEF Idle, JobType
<1>5. Scalars'
  <2>1. job[w].stamp \in Stamp
    BY <1>1 DEF PayoutInvariant, GoodJob
  <2> QED
    BY <2>1 DEF PayoutInvariant, Scalars, Commit
<1>6. /\ ledger' = [ledger EXCEPT ![job[w].row] = e] /\ job' = [job EXCEPT ![w] = j]
      /\ UNCHANGED <<journal, transfer, deposit>>
  BY DEF Commit, stripe
<1> HIDE DEF e, j
<1> QED
  BY <1>1, <1>2, <1>3, <1>4, <1>5, <1>6, EntryStep

-----------------------------------------------------------------------------
(* Stripe and its webhooks.                                                *)

\* A step that leaves the jobs and the transfers alone, brings no row into
\* being and keeps every row good.
LEMMA RowsStep ==
    ASSUME PayoutInvariant, Scalars', Tables',
           \A r \in Row : ledger[r] = None => ledger'[r] = None,
           \A r \in Row : GoodRow(r)',
           UNCHANGED <<job, transfer>>
    PROVE  PayoutInvariant'
<1>1. ASSUME NEW w \in Worker PROVE GoodJob(job[w])'
  <2>1. GoodJob(job[w])
    BY DEF PayoutInvariant
  <2> QED
    BY <2>1 DEF GoodJob
<1>2. Apart'
  BY DEF PayoutInvariant, Apart
<1> QED
  BY <1>1, <1>2 DEF PayoutInvariant

LEMMA ResolveStep ==
    ASSUME PayoutInvariant, NEW r \in Row, NEW outcome \in {"paid", "failed"},
           Resolve(r, outcome)
    PROVE  PayoutInvariant'
<1> DEFINE x == [transfer[r] EXCEPT !.outcome = outcome]
<1>1. transfer[r] \in TransferType /\ transfer[r] # None /\ transfer[r].outcome = "pending"
  BY DEF Resolve, PayoutInvariant, Tables
<1>2. x \in TransferType /\ x.amount = transfer[r].amount
  BY <1>1 DEF TransferType
<1>3. x # None
  BY <1>2, PayoutsAssumption
<1>4. /\ transfer' \in [Row -> {None} \cup TransferType]
      /\ \A q \in Row : transfer'[q] = IF q = r THEN x ELSE transfer[q]
  BY <1>2 DEF Resolve, PayoutInvariant, Tables
<1> HIDE DEF x
<1>5. Tables' /\ Scalars'
  BY <1>4 DEF Resolve, PayoutInvariant, Tables, Scalars
<1>6. \A q \in Row : /\ transfer'[q] = None <=> transfer[q] = None
                     /\ transfer[q] # None => transfer'[q].amount = transfer[q].amount
  BY <1>1, <1>2, <1>3, <1>4
<1>7. ASSUME NEW w \in Worker PROVE GoodJob(job[w])'
  <2>1. GoodJob(job[w])
    BY DEF PayoutInvariant
  <2>2. UNCHANGED <<job, ledger>>
    BY DEF Resolve
  <2> QED
    BY <2>1, <2>2, <1>6 DEF GoodJob, Holding
<1>8. Apart' /\ job' \in [Worker -> JobType]
  BY DEF Resolve, PayoutInvariant, Apart
<1>9. ASSUME NEW q \in Row PROVE GoodRow(q)'
  <2>1. GoodRow(q)
    BY DEF PayoutInvariant
  <2>2. journal[q] > 0 => q # r
    BY <2>1, <1>1 DEF GoodRow
  <2>3. journal[q] > 0 => transfer'[q] # None /\ transfer'[q].outcome = "paid"
    BY <2>1, <2>2, <1>4 DEF GoodRow
  <2>4. UNCHANGED <<ledger, journal, deposit>>
    BY DEF Resolve
  <2> QED
    BY <2>1, <2>3, <2>4, <1>6 DEF GoodRow, Arrived
<1> QED
  BY <1>5, <1>7, <1>8, <1>9 DEF PayoutInvariant

\* A deposit moves forward: what has arrived stays so.
LEMMA DepositStep ==
    ASSUME PayoutInvariant, NEW d \in Deposit, NEW x \in DepositType,
           deposit' = [deposit EXCEPT ![d] = x],
           Arrived(d) => x.state \in {"landed", "returned"},
           UNCHANGED <<today, clock, account, faults, ledger, journal, job, transfer>>
    PROVE  PayoutInvariant'
<1>1. x # None
  BY PayoutsAssumption
<1>2. /\ deposit' \in [Deposit -> {None} \cup DepositType]
      /\ \A c \in Deposit : deposit'[c] = IF c = d THEN x ELSE deposit[c]
  BY DEF PayoutInvariant, Tables
<1>3. Scalars' /\ Tables'
  BY <1>2 DEF PayoutInvariant, Scalars, Tables
<1>4. \A c \in Deposit : Arrived(c) => Arrived(c)'
  BY <1>1, <1>2 DEF Arrived
<1>5. ASSUME NEW r \in Row PROVE GoodRow(r)'
  <2>1. GoodRow(r)
    BY DEF PayoutInvariant
  <2>2. ledger[r] # None /\ ledger[r].payout # None => ledger[r].payout \in Deposit
    BY DEF PayoutInvariant, Tables, RowType
  <2>3. ledger[r] # None /\ ledger[r].payout # None => Arrived(ledger[r].payout)'
    BY <2>1, <2>2, <1>4 DEF GoodRow, Arrived
  <2> QED
    BY <2>1, <2>3 DEF GoodRow, Arrived
<1> QED
  BY <1>3, <1>5, RowsStep

LEMMA OpenStep ==
    ASSUME PayoutInvariant, NEW d \in Deposit, OpenDeposit(d)
    PROVE  PayoutInvariant'
<1> DEFINE S == {r \in Row : transfer[r] # None /\ transfer[r].outcome = "paid" /\ ~Carried(r)}
           x == [rows |-> S, state |-> "sent"]
<1>1. x \in DepositType
  BY DEF DepositType
<1>2. deposit' = [deposit EXCEPT ![d] = x] /\ deposit[d] = None
  BY DEF OpenDeposit
<1>3. ~Arrived(d)
  BY <1>2 DEF Arrived
<1> HIDE DEF x
<1> QED
  BY <1>1, <1>2, <1>3, DepositStep DEF OpenDeposit

LEMMA CloseStep ==
    ASSUME PayoutInvariant, NEW d \in Deposit, NEW state \in {"landed", "refused", "returned"},
           CloseDeposit(d, state)
    PROVE  PayoutInvariant'
<1> DEFINE x == [deposit[d] EXCEPT !.state = state]
<1>1. deposit[d] \in DepositType
  BY DEF CloseDeposit, PayoutInvariant, Tables
<1>2. x \in DepositType /\ x.state = state
  BY <1>1 DEF DepositType
<1>3. deposit' = [deposit EXCEPT ![d] = x]
  BY DEF CloseDeposit
<1>4. Arrived(d) => state \in {"landed", "returned"}
  BY DEF CloseDeposit, Arrived
<1> HIDE DEF x
<1> QED
  BY <1>2, <1>3, <1>4, DepositStep DEF CloseDeposit

\* Rows that are marked keep everything but their status.
LEMMA Marked ==
    ASSUME PayoutInvariant, NEW S \in SUBSET Row, \A r \in S : ledger[r] # None,
           NEW status \in Standing \cup {"failed"}
    PROVE  /\ Set(S, status) \in [Row -> {None} \cup RowType]
           /\ \A r \in Row \ S : Set(S, status)[r] = ledger[r]
           /\ \A r \in S : /\ Set(S, status)[r] \in RowType
                           /\ Set(S, status)[r] # None
                           /\ Set(S, status)[r].status = status
                           /\ Set(S, status)[r].xfer = ledger[r].xfer
                           /\ Set(S, status)[r].amount = ledger[r].amount
                           /\ Set(S, status)[r].payout = ledger[r].payout
<1>1. \A r \in Row : Set(S, status)[r] = IF r \in S THEN [ledger[r] EXCEPT !.status = status]
                                                    ELSE ledger[r]
  BY DEF Set
<1>2. ASSUME NEW r \in S
      PROVE  LET m == [ledger[r] EXCEPT !.status = status]
             IN  /\ m \in RowType /\ m.status = status /\ m.xfer = ledger[r].xfer
                 /\ m.amount = ledger[r].amount /\ m.payout = ledger[r].payout
  <2>1. ledger[r] \in RowType
    BY <1>2 DEF PayoutInvariant, Tables
  <2> QED
    BY <2>1 DEF RowType
<1>3. \A r \in S : Set(S, status)[r] # None
  BY <1>1, <1>2, PayoutsAssumption
<1>4. \A r \in Row : Set(S, status)[r] \in {None} \cup RowType
  BY <1>1, <1>2 DEF PayoutInvariant, Tables
<1>5. Set(S, status) \in [Row -> {None} \cup RowType]
  BY <1>4 DEF Set
<1> QED
  BY <1>1, <1>2, <1>3, <1>5

LEMMA PaidStep ==
    ASSUME PayoutInvariant, NEW r \in Row, HandleTransferPaid(r)
    PROVE  PayoutInvariant'
<1> DEFINE hit == Matching(r)
<1>1. hit \in SUBSET Row /\ (\A q \in hit : ledger[q] # None)
  BY DEF Matching
<1>2. \A q \in hit : ledger[q].xfer /\ ledger[q].status = "processing" /\ q = r
  BY DEF Matching
<1>3. ledger' = Set(hit, "completed")
  BY DEF HandleTransferPaid
<1>4. \A q \in Row : journal'[q] = IF q \in hit THEN journal[q] + 1 ELSE journal[q]
  BY DEF HandleTransferPaid
<1>5. journal' \in [Row -> Nat]
  BY DEF HandleTransferPaid, PayoutInvariant, Tables
<1>6. transfer[r] # None /\ transfer[r].outcome = "paid"
  BY DEF HandleTransferPaid, TransferEvent
<1>7. UNCHANGED <<today, clock, account, job, transfer, deposit, faults>>
  BY DEF HandleTransferPaid
<1> HIDE DEF hit
<1>8. /\ ledger' \in [Row -> {None} \cup RowType]
      /\ \A q \in Row \ hit : ledger'[q] = ledger[q]
      /\ \A q \in hit : /\ ledger'[q] # None /\ ledger'[q].status = "completed"
                        /\ ledger'[q].xfer = ledger[q].xfer
                        /\ ledger'[q].amount = ledger[q].amount
                        /\ ledger'[q].payout = ledger[q].payout
  BY <1>1, <1>3, Marked DEF Standing
<1>9. Scalars' /\ Tables'
  BY <1>5, <1>7, <1>8 DEF PayoutInvariant, Scalars, Tables
<1>10. \A q \in Row : ledger[q] = None => ledger'[q] = None
  BY <1>1, <1>8
<1>11. ASSUME NEW q \in Row PROVE GoodRow(q)'
  <2>1. GoodRow(q)
    BY DEF PayoutInvariant
  <2>2. CASE q \notin hit
    <3>1. ledger'[q] = ledger[q] /\ journal'[q] = journal[q]
      BY <2>2, <1>4, <1>8
    <3> QED
      BY <2>1, <3>1, <1>7 DEF GoodRow, Arrived
  <2>3. CASE q \in hit
    <3>1. journal[q] = 0 /\ journal'[q] = 1
      BY <2>1, <2>3, <1>1, <1>2, <1>4 DEF GoodRow
    <3>2. ledger[q].payout = None
      BY <2>1, <2>3, <1>1, <1>2 DEF GoodRow
    <3>3. transfer'[q] = transfer[q] /\ transfer[q].outcome = "paid"
      BY <2>3, <1>2, <1>6, <1>7
    <3>4. transfer[q] # None /\ transfer[q].amount = ledger[q].amount
      BY <2>1, <2>3, <1>1, <1>2 DEF GoodRow
    <3> QED
      BY <2>3, <3>1, <3>2, <3>3, <3>4, <1>2, <1>8 DEF GoodRow
  <2> QED
    BY <2>2, <2>3
<1> QED
  BY <1>7, <1>9, <1>10, <1>11, RowsStep

\* Rows fail that were processing, or were completed and not yet settled.
LEMMA FailStep ==
    ASSUME PayoutInvariant, NEW S \in SUBSET Row,
           \A r \in S : /\ ledger[r] # None /\ ledger[r].payout = None,
           ledger' = Set(S, "failed"),
           UNCHANGED <<today, clock, account, journal, job, transfer, deposit, faults>>
    PROVE  PayoutInvariant'
<1>1. /\ ledger' \in [Row -> {None} \cup RowType]
      /\ \A q \in Row \ S : ledger'[q] = ledger[q]
      /\ \A q \in S : /\ ledger'[q] # None /\ ledger'[q].status = "failed"
                      /\ ledger'[q].xfer = ledger[q].xfer
                      /\ ledger'[q].amount = ledger[q].amount
                      /\ ledger'[q].payout = ledger[q].payout
  BY Marked
<1>2. Scalars' /\ Tables'
  BY <1>1 DEF PayoutInvariant, Scalars, Tables
<1>3. \A q \in Row : ledger[q] = None => ledger'[q] = None
  BY <1>1
<1>4. ASSUME NEW q \in Row PROVE GoodRow(q)'
  <2>1. GoodRow(q)
    BY DEF PayoutInvariant
  <2>2. CASE q \notin S
    <3>1. ledger'[q] = ledger[q]
      BY <2>2, <1>1
    <3> QED
      BY <2>1, <3>1 DEF GoodRow, Arrived
  <2>3. CASE q \in S
    <3>1. ledger'[q].payout = None
      BY <2>3, <1>1
    <3>2. ledger'[q].status \notin Standing
      BY <2>3, <1>1 DEF Standing
    <3> QED
      BY <2>1, <2>3, <3>1, <3>2, <1>1 DEF GoodRow, Standing
  <2> QED
    BY <2>2, <2>3
<1> QED
  BY <1>2, <1>3, <1>4, RowsStep

\* The rows a webhook may fail.
LEMMA Failable ==
    ASSUME PayoutInvariant
    PROVE  /\ \A r \in Row : \A q \in Matching(r) :
                 q \in Row /\ ledger[q] # None /\ ledger[q].payout = None
           /\ \A q \in Unsettled : q \in Row /\ ledger[q] # None /\ ledger[q].payout = None
<1>1. \A q \in Row : GoodRow(q)
  BY DEF PayoutInvariant
<1> QED
  BY <1>1 DEF Matching, Unsettled, GoodRow

LEMMA TransferFailedStep ==
    ASSUME PayoutInvariant, NEW r \in Row, HandleTransferFailed(r)
    PROVE  PayoutInvariant'
<1>1. Matching(r) \in SUBSET Row
  BY Failable
<1>2. ledger' = Set(Matching(r), "failed")
  BY DEF HandleTransferFailed
<1>3. UNCHANGED <<today, clock, account, journal, job, transfer, deposit, faults>>
  BY DEF HandleTransferFailed
<1> QED
  BY <1>1, <1>2, <1>3, Failable, FailStep

LEMMA PayoutFailedStep ==
    ASSUME PayoutInvariant, NEW d \in Deposit, HandlePayoutFailed(d)
    PROVE  PayoutInvariant'
<1> DEFINE S == {r \in Unsettled : ledger[r].status \in {"completed", "settled"}}
<1>1. S \in SUBSET Row /\ \A r \in S : ledger[r] # None /\ ledger[r].payout = None
  BY Failable
<1>2. ledger' = Set(S, "failed")
  BY DEF HandlePayoutFailed
<1>3. UNCHANGED <<today, clock, account, journal, job, transfer, deposit, faults>>
  BY DEF HandlePayoutFailed
<1> HIDE DEF S
<1> QED
  BY <1>1, <1>2, <1>3, FailStep

LEMMA PayoutPaidStep ==
    ASSUME PayoutInvariant, NEW d \in Deposit, HandlePayoutPaid(d)
    PROVE  PayoutInvariant'
<1> DEFINE S == {r \in Unsettled : ledger[r].status = "completed"}
           m(r) == [ledger[r] EXCEPT !.status = "settled", !.payout = d]
<1>1. S \subseteq Row /\ \A r \in S : ledger[r] \in RowType
  BY DEF PayoutInvariant, Tables, Unsettled
<1>2. \A r \in S : ledger[r].status = "completed" /\ ledger[r] # None
  BY DEF Unsettled
<1>3. \A r \in S : /\ m(r) \in RowType /\ m(r).status = "settled" /\ m(r).payout = d
                   /\ m(r).xfer = ledger[r].xfer /\ m(r).amount = ledger[r].amount
  BY <1>1 DEF RowType, Standing
<1>4. \A r \in Row : ledger'[r] = IF r \in S THEN m(r) ELSE ledger[r]
  BY DEF HandlePayoutPaid
<1>5. Arrived(d)
  BY DEF HandlePayoutPaid, PayoutEvent, Arrived
<1>6. UNCHANGED <<today, clock, account, journal, job, transfer, deposit, faults>>
  BY DEF HandlePayoutPaid
<1>7. ledger' = [r \in Row |-> ledger'[r]]
  BY DEF HandlePayoutPaid
<1> HIDE DEF S, m
<1>8. \A r \in Row : ledger'[r] \in {None} \cup RowType
  BY <1>3, <1>4 DEF PayoutInvariant, Tables
<1>9. Scalars' /\ Tables'
  BY <1>6, <1>7, <1>8 DEF PayoutInvariant, Scalars, Tables
<1>10. \A r \in Row : ledger[r] = None => ledger'[r] = None
  BY <1>2, <1>4
<1>11. ASSUME NEW q \in Row PROVE GoodRow(q)'
  <2>1. GoodRow(q)
    BY DEF PayoutInvariant
  <2>2. CASE q \notin S
    <3>1. ledger'[q] = ledger[q]
      BY <2>2, <1>4
    <3> QED
      BY <2>1, <3>1, <1>6 DEF GoodRow, Arrived
  <2>3. CASE q \in S
    <3>1. /\ ledger'[q].status = "settled" /\ ledger'[q].payout = d /\ ledger'[q] # None
          /\ ledger'[q].xfer = ledger[q].xfer /\ ledger'[q].amount = ledger[q].amount
      BY <2>3, <1>3, <1>4, PayoutsAssumption
    <3>2. Arrived(d)' /\ d # None
      BY <1>5, <1>6, PayoutsAssumption DEF Arrived
    <3>3. ledger[q].status = "completed" /\ ledger[q] # None
      BY <2>3, <1>2
    <3>4. journal'[q] = 1 /\ ledger[q].xfer /\ transfer' = transfer /\ journal' = journal
      BY <2>1, <3>3, <1>6 DEF GoodRow, Standing
    <3> QED
      BY <2>1, <3>1, <3>2, <3>3, <3>4 DEF GoodRow
  <2> QED
    BY <2>2, <2>3
<1> QED
  BY <1>6, <1>9, <1>10, <1>11, RowsStep

-----------------------------------------------------------------------------
(* The theorems.                                                           *)

LEMMA AccountStep ==
    ASSUME PayoutInvariant,
           \/ \E next \in {None, today + Period} : PatchSchedule(next)
           \/ \E s \in {"active", "restricted"} : AccountUpdated(s)
           \/ NextDay
    PROVE  PayoutInvariant'
<1>1. Scalars'
  <2>1. today + Period \in Nat
    BY PayoutsAssumption DEF PayoutInvariant, Scalars
  <2> QED
    BY <2>1 DEF PayoutInvariant, Scalars, PatchSchedule, AccountUpdated, NextDay
<1>2. UNCHANGED <<ledger, journal, job, transfer, deposit>>
  BY DEF PatchSchedule, AccountUpdated, NextDay, stripe
<1>3. Tables'
  BY <1>2 DEF PayoutInvariant, Tables
<1>4. \A r \in Row : GoodRow(r)'
  BY <1>2 DEF PayoutInvariant, GoodRow, Arrived
<1> QED
  BY <1>1, <1>2, <1>3, <1>4, RowsStep

LEMMA WorkerStep ==
    ASSUME PayoutInvariant, NEW w \in Worker,
           \/ SweepSelect(w) \/ ManualSend(w) \/ Skip(w) \/ \E r \in Row : Stage(w, r)
           \/ TransferMade(w) \/ TransferRefused(w) \/ AnswerLost(w)
           \/ RecordRefused(w) \/ Commit(w) \/ Advance(w) \/ Crash(w)
    PROVE  PayoutInvariant'
<1>1. CASE SweepSelect(w) \/ ManualSend(w)
  BY <1>1, BeginStep DEF SweepSelect, ManualSend
<1>2. CASE Skip(w) \/ Advance(w) \/ Crash(w)
  <2>1. today + Period \in Nat
    BY PayoutsAssumption DEF PayoutInvariant, Scalars
  <2>2. Scalars'
    BY <1>2, <2>1 DEF PayoutInvariant, Scalars, Skip, Advance, Crash
  <2>3. job' = [job EXCEPT ![w] = Idle] /\ UNCHANGED <<ledger, journal, transfer, deposit>>
    BY <1>2 DEF Skip, Advance, Crash, stripe
  <2> QED
    BY <2>2, <2>3, EndStep
<1>3. CASE \E r \in Row : Stage(w, r)
  BY <1>3, StageStep
<1>4. CASE TransferMade(w) \/ AnswerLost(w)
  BY <1>4, TransferStep
<1>5. CASE TransferRefused(w)
  BY <1>5, RefusedStep
<1>6. CASE RecordRefused(w)
  BY <1>6, RecordRefusedStep
<1>7. CASE Commit(w)
  BY <1>7, CommitStep
<1> QED
  BY <1>1, <1>2, <1>3, <1>4, <1>5, <1>6, <1>7

LEMMA StripeStep ==
    ASSUME PayoutInvariant,
           \/ \E r \in Row : \/ \E o \in {"paid", "failed"} : Resolve(r, o)
                             \/ HandleTransferPaid(r) \/ HandleTransferFailed(r)
           \/ \E d \in Deposit :
                 \/ OpenDeposit(d)
                 \/ \E s \in {"landed", "refused", "returned"} : CloseDeposit(d, s)
                 \/ HandlePayoutPaid(d) \/ HandlePayoutFailed(d)
    PROVE  PayoutInvariant'
BY ResolveStep, PaidStep, TransferFailedStep, OpenStep, CloseStep, PayoutPaidStep,
   PayoutFailedStep

LEMMA StutterStep ==
    ASSUME PayoutInvariant, UNCHANGED vars
    PROVE  PayoutInvariant'
<1>1. Scalars' /\ Tables' /\ UNCHANGED <<job, transfer, ledger>>
  BY DEF PayoutInvariant, Scalars, Tables, vars
<1>2. \A r \in Row : GoodRow(r)'
  BY DEF PayoutInvariant, GoodRow, Arrived, vars
<1> QED
  BY <1>1, <1>2, RowsStep

LEMMA StepHolds == PayoutInvariant /\ [Next]_vars => PayoutInvariant'
BY WorkerStep, StripeStep, AccountStep, StutterStep DEF Next

\* The invariant the theorems below rest on.
THEOREM InvariantHolds == Spec => []PayoutInvariant
<1>1. Init => PayoutInvariant
  BY InitHolds
<1>2. PayoutInvariant /\ [Next]_vars => PayoutInvariant'
  BY StepHolds
<1> QED
  BY <1>1, <1>2, PTL DEF Spec

\* Every variable keeps its shape, and no payout is of nothing.
THEOREM TypeCorrect == Spec => []TypeOK
BY InvariantHolds, InvariantGivesTypes, PTL

\* A ledger row that stands for money names a transfer made for its amount.
THEOREM RowsAreTransfers == Spec => []RowsHaveTransfers
BY InvariantHolds, InvariantGivesTransfers, PTL

\* Repeated, late and reordered webhooks clear each payout's liability once.
THEOREM ClearingIsOnce == Spec => []ClearedOnce
BY InvariantHolds, InvariantGivesClearing, PTL

\* Only what Stripe paid is cleared, and only what landed is settled.
THEOREM SettlingIsPaid == Spec => []SettledMeansPaid
BY InvariantHolds, InvariantGivesSettling, PTL

-----------------------------------------------------------------------------
(* The refinement.                                                         *)

LEMMA LifecycleInit == Init => Lifecycle!Init
BY DEF Init, stageOf, Lifecycle!Init

\* A worker's entry brings one payout into the lifecycle.
LEMMA EntryIsRecord ==
    ASSUME PayoutInvariant, NEW w \in Worker, RecordRefused(w) \/ Commit(w)
    PROVE  \E r \in Row : Lifecycle!Record(r)
<1>1. job[w].row \in Row /\ ledger[job[w].row] = None /\ job[w].pc \in Holding
  BY DEF PayoutInvariant, GoodJob, RecordRefused, Commit, Holding
<1>2. PICK status \in {"processing", "failed"}, xfer \in BOOLEAN :
         ledger' = [ledger EXCEPT ![job[w].row] = Entry(w, status, xfer)]
  BY DEF RecordRefused, Commit
<1>3. Entry(w, status, xfer) # None /\ Entry(w, status, xfer).status = status
  BY <1>1, EntryType, PayoutsAssumption DEF Standing
<1>4. ledger \in [Row -> {None} \cup RowType]
  BY DEF PayoutInvariant, Tables
<1>5. PICK h \in Row : h = job[w].row
  BY <1>1
<1>6. \A r \in Row : ledger'[r] = IF r = h THEN Entry(w, status, xfer) ELSE ledger[r]
  BY <1>2, <1>4, <1>5
<1>7. stageOf' = [r \in Row |-> IF r \in {h} THEN status ELSE stageOf[r]]
  BY <1>3, <1>5, <1>6 DEF stageOf
<1>8. stageOf[h] = "none"
  BY <1>1, <1>5 DEF stageOf
<1>9. journal' = journal
  BY DEF RecordRefused, Commit
<1>10. Lifecycle!Record(h)
  BY <1>7, <1>8, <1>9 DEF stageOf, Lifecycle!Record, Lifecycle!Move
<1> QED
  BY <1>5, <1>10

LEMMA PaidIsComplete ==
    ASSUME PayoutInvariant, NEW r \in Row, HandleTransferPaid(r)
    PROVE  Lifecycle!Complete(r) \/ UNCHANGED <<stageOf, journal>>
<1>1. ledger' = Set(Matching(r), "completed")
  BY DEF HandleTransferPaid
<1>2. journal' = [q \in Row |-> IF q \in Matching(r) THEN journal[q] + 1 ELSE journal[q]]
  BY DEF HandleTransferPaid
<1>3. journal \in [Row -> Nat]
  BY DEF PayoutInvariant, Tables
<1>4. Matching(r) \in SUBSET Row /\ \A q \in Matching(r) : ledger[q] # None
  BY Failable
<1>5. \A q \in Matching(r) : ledger'[q] # None /\ ledger'[q].status = "completed"
  BY <1>1, <1>4, Marked DEF Standing
<1>6. \A q \in Row \ Matching(r) : ledger'[q] = ledger[q]
  BY <1>1, <1>4, Marked DEF Standing
<1>7. CASE r \in Matching(r)
  <2>1. Matching(r) = {r} /\ ledger[r] # None /\ ledger[r].status = "processing"
    BY <1>7 DEF Matching
  <2>2. stageOf' = [q \in Row |-> IF q \in {r} THEN "completed" ELSE stageOf[q]]
    BY <2>1, <1>5, <1>6 DEF stageOf
  <2>3. stageOf[r] = "processing"
    BY <2>1 DEF stageOf
  <2>4. journal' = [journal EXCEPT ![r] = @ + 1]
    BY <2>1, <1>2, <1>3
  <2> QED
    BY <2>2, <2>3, <2>4 DEF stageOf, Lifecycle!Complete, Lifecycle!Move
<1>8. CASE r \notin Matching(r)
  <2>1. Matching(r) = {}
    BY <1>8 DEF Matching
  <2>2. stageOf' = stageOf
    BY <2>1, <1>6 DEF stageOf
  <2>3. journal' = journal
    BY <2>1, <1>2, <1>3
  <2> QED
    BY <2>2, <2>3
<1> QED
  BY <1>7, <1>8

LEMMA FailIsFail ==
    ASSUME PayoutInvariant, NEW S \in SUBSET Row,
           \A r \in S : ledger[r] # None /\ ledger[r].status \in {"processing", "completed"},
           ledger' = Set(S, "failed"), journal' = journal
    PROVE  Lifecycle!Fail(S)
<1>1. \A r \in S : ledger'[r] # None /\ ledger'[r].status = "failed"
  BY Marked
<1>2. \A r \in Row \ S : ledger'[r] = ledger[r]
  BY Marked
<1>3. stageOf' = [r \in Row |-> IF r \in S THEN "failed" ELSE stageOf[r]]
  BY <1>1, <1>2 DEF stageOf
<1>4. \A r \in S : stageOf[r] \in {"processing", "completed"}
  BY DEF stageOf
<1> QED
  BY <1>3, <1>4 DEF stageOf, Lifecycle!Fail, Lifecycle!Move

LEMMA TransferFailedIsFail ==
    ASSUME PayoutInvariant, NEW r \in Row, HandleTransferFailed(r)
    PROVE  \E S \in SUBSET Row : Lifecycle!Fail(S)
<1>1. PICK S \in SUBSET Row : S = Matching(r)
  BY Failable
<1>2. \A q \in S : ledger[q] # None /\ ledger[q].status \in {"processing", "completed"}
  BY <1>1 DEF Matching
<1>3. ledger' = Set(S, "failed") /\ journal' = journal
  BY <1>1 DEF HandleTransferFailed
<1>4. Lifecycle!Fail(S)
  BY <1>2, <1>3, FailIsFail
<1> QED
  BY <1>4

\* A settled row has its payout id, so payout.failed does not find it.
LEMMA PayoutFailedIsFail ==
    ASSUME PayoutInvariant, NEW d \in Deposit, HandlePayoutFailed(d)
    PROVE  \E S \in SUBSET Row : Lifecycle!Fail(S)
<1> DEFINE S == {r \in Unsettled : ledger[r].status \in {"completed", "settled"}}
<1>1. \A r \in S : r \in Row /\ ledger[r] # None /\ ledger[r].payout = None
  BY Failable
<1>2. \A r \in S : ledger[r].status # "settled"
  BY <1>1 DEF PayoutInvariant, GoodRow
<1>3. \A r \in S : ledger[r].status \in {"processing", "completed"}
  BY <1>2
<1>4. ledger' = Set(S, "failed") /\ journal' = journal
  BY DEF HandlePayoutFailed
<1> HIDE DEF S
<1>5. PICK T \in SUBSET Row : T = S
  BY <1>1
<1>6. Lifecycle!Fail(T)
  BY <1>1, <1>3, <1>4, <1>5, FailIsFail
<1> QED
  BY <1>6

LEMMA PayoutPaidIsSettle ==
    ASSUME PayoutInvariant, NEW d \in Deposit, HandlePayoutPaid(d)
    PROVE  \E S \in SUBSET Row : Lifecycle!Settle(S)
<1> DEFINE S == {r \in Unsettled : ledger[r].status = "completed"}
           m(r) == [ledger[r] EXCEPT !.status = "settled", !.payout = d]
<1>1. S \subseteq Row /\ \A r \in S : ledger[r] \in RowType /\ ledger[r] # None
  BY DEF PayoutInvariant, Tables, Unsettled
<1>2. \A r \in S : m(r) \in RowType /\ m(r).status = "settled"
  BY <1>1 DEF RowType, Standing
<1>3. \A r \in Row : ledger'[r] = IF r \in S THEN m(r) ELSE ledger[r]
  BY DEF HandlePayoutPaid
<1>4. \A r \in S : ledger[r].status = "completed"
  OBVIOUS
<1> HIDE DEF S, m
<1>5. \A r \in S : ledger'[r] # None /\ ledger'[r].status = "settled"
  BY <1>1, <1>2, <1>3, PayoutsAssumption
<1>6. stageOf' = [r \in Row |-> IF r \in S THEN "settled" ELSE stageOf[r]]
  BY <1>3, <1>5 DEF stageOf
<1>7. \A r \in S : stageOf[r] = "completed"
  BY <1>1, <1>4 DEF stageOf
<1>8. journal' = journal
  BY DEF HandlePayoutPaid
<1>9. PICK T \in SUBSET Row : T = S
  BY <1>1
<1>10. Lifecycle!Settle(T)
  BY <1>6, <1>7, <1>8, <1>9 DEF stageOf, Lifecycle!Settle, Lifecycle!Move
<1> QED
  BY <1>10

LEMMA LifecycleStep ==
    ASSUME PayoutInvariant, [Next]_vars
    PROVE  [Lifecycle!Next]_<<stageOf, journal>>
<1>1. CASE \E w \in Worker : RecordRefused(w) \/ Commit(w)
  BY <1>1, EntryIsRecord DEF Lifecycle!Next
<1>2. CASE \E r \in Row : HandleTransferPaid(r)
  BY <1>2, PaidIsComplete DEF Lifecycle!Next
<1>3. CASE \E r \in Row : HandleTransferFailed(r)
  BY <1>3, TransferFailedIsFail DEF Lifecycle!Next
<1>4. CASE \E d \in Deposit : HandlePayoutPaid(d) \/ HandlePayoutFailed(d)
  BY <1>4, PayoutPaidIsSettle, PayoutFailedIsFail DEF Lifecycle!Next
<1>5. CASE UNCHANGED <<ledger, journal>>
  BY <1>5 DEF stageOf
<1>6. ASSUME NEW w \in Worker,
             \/ SweepSelect(w) \/ ManualSend(w) \/ Skip(w) \/ \E r \in Row : Stage(w, r)
             \/ TransferMade(w) \/ TransferRefused(w) \/ AnswerLost(w)
             \/ Advance(w) \/ Crash(w)
      PROVE  UNCHANGED <<ledger, journal>>
  BY <1>6 DEF SweepSelect, ManualSend, Begin, Skip, Stage, TransferMade, TransferRefused,
              AnswerLost, Advance, Crash
<1>7. ASSUME \/ \E r \in Row, o \in {"paid", "failed"} : Resolve(r, o)
             \/ \E d \in Deposit :
                   \/ OpenDeposit(d)
                   \/ \E s \in {"landed", "refused", "returned"} : CloseDeposit(d, s)
             \/ \E next \in {None, today + Period} : PatchSchedule(next)
             \/ \E s \in {"active", "restricted"} : AccountUpdated(s)
             \/ NextDay \/ UNCHANGED vars
      PROVE  UNCHANGED <<ledger, journal>>
  BY <1>7 DEF Resolve, OpenDeposit, CloseDeposit, PatchSchedule, AccountUpdated, NextDay, vars
<1> QED
  BY <1>1, <1>2, <1>3, <1>4, <1>5, <1>6, <1>7 DEF Next

\* Each payout lives the life PayoutLifecycle promises.
THEOREM Refinement == Spec => ImplementsLifecycle
<1>1. Init => Lifecycle!Init
  BY LifecycleInit
<1>2. PayoutInvariant /\ [Next]_vars => [Lifecycle!Next]_<<stageOf, journal>>
  BY LifecycleStep
<1>3. Spec => []PayoutInvariant
  BY InvariantHolds
<1> QED
  BY <1>1, <1>2, <1>3, PTL DEF Spec, ImplementsLifecycle, Lifecycle!Spec

-----------------------------------------------------------------------------
(* Transfers without a row.                                                *)

LEMMA OrphansFinite == IsFiniteSet(Orphans) /\ Cardinality(Orphans) \in Nat
<1>1. Orphans \subseteq Row
  BY DEF Orphans
<1> QED
  BY <1>1, PayoutsAssumption, FS_Subset, FS_CardinalityType

LEMMA OrphansFiniteNext == IsFiniteSet(Orphans') /\ Cardinality(Orphans') \in Nat
<1>1. Orphans' \subseteq Row
  BY DEF Orphans
<1> QED
  BY <1>1, PayoutsAssumption, FS_Subset, FS_CardinalityType

LEMMA NoneMore ==
    ASSUME OrphansAreFaults, faults \in Nat, faults' = faults, Orphans' \subseteq Orphans
    PROVE  OrphansAreFaults'
<1>1. Cardinality(Orphans') <= Cardinality(Orphans)
  BY OrphansFinite, FS_Subset
<1> QED
  BY <1>1, OrphansFinite, OrphansFiniteNext DEF OrphansAreFaults

LEMMA OneMore ==
    ASSUME OrphansAreFaults, faults \in Nat, faults' = faults + 1, NEW h,
           Orphans' \subseteq Orphans \cup {h}
    PROVE  OrphansAreFaults'
<1>1. /\ IsFiniteSet(Orphans \cup {h}) /\ Cardinality(Orphans \cup {h}) \in Nat
      /\ Cardinality(Orphans \cup {h}) <= Cardinality(Orphans) + 1
  <2>1. /\ IsFiniteSet(Orphans \cup {h})
        /\ Cardinality(Orphans \cup {h}) = IF h \in Orphans THEN Cardinality(Orphans)
                                                            ELSE Cardinality(Orphans) + 1
    BY OrphansFinite, FS_AddElement
  <2> QED
    BY <2>1, OrphansFinite
<1>2. Cardinality(Orphans') <= Cardinality(Orphans \cup {h})
  BY <1>1, FS_Subset
<1> QED
  BY <1>1, <1>2, OrphansFinite, OrphansFiniteNext DEF OrphansAreFaults

\* While only w moves, what the others are recording they still are.
LEMMA OthersRecord ==
    ASSUME NEW w \in Worker, \A v \in Worker \ {w} : job'[v] = job[v],
           NEW r \in Row, BeingRecorded(r)
    PROVE  BeingRecorded(r)' \/ (job[w].pc = "commit" /\ job[w].row = r)
BY DEF BeingRecorded

\* Steps of a worker that is not between the transfer and the commit, and that
\* leave the ledger's transfers alone.
LEMMA QuietWorker ==
    ASSUME NEW w \in Worker, job[w].pc # "commit", UNCHANGED <<ledger, transfer>>,
           \A v \in Worker \ {w} : job'[v] = job[v]
    PROVE  Orphans' \subseteq Orphans
<1>1. \A r \in Row : BeingRecorded(r) => BeingRecorded(r)'
  BY OthersRecord
<1>2. \A r \in Row : Recorded(r)' <=> Recorded(r)
  BY DEF Recorded
<1> QED
  BY <1>1, <1>2 DEF Orphans

LEMMA CreatedOrphans ==
    ASSUME PayoutInvariant, NEW w \in Worker, NEW pc \in {"commit", "refused"},
           job[w].pc = "transfer", Created(w), ledger' = ledger,
           job' = [job EXCEPT ![w].pc = pc]
    PROVE  /\ Orphans' \subseteq Orphans \cup {job[w].row}
           /\ pc = "commit" => Orphans' \subseteq Orphans
<1>1. job[w] \in JobType /\ job[w].row \in Row
  BY DEF PayoutInvariant, GoodJob, Holding
<1>2. \A v \in Worker \ {w} : job'[v] = job[v]
  BY DEF PayoutInvariant
<1>3. job'[w].pc = pc /\ job'[w].row = job[w].row
  BY <1>1 DEF PayoutInvariant, JobType
<1>4. \A r \in Row : BeingRecorded(r) => BeingRecorded(r)'
  BY <1>2, OthersRecord
<1>5. \A r \in Row : Recorded(r)' <=> Recorded(r)
  BY DEF Recorded
<1>6. \A r \in Row \ {job[w].row} : transfer'[r] = transfer[r]
  BY DEF Created, PayoutInvariant, Tables
<1>7. Orphans' \subseteq Orphans \cup {job[w].row}
  BY <1>4, <1>5, <1>6 DEF Orphans
<1>8. ASSUME pc = "commit" PROVE job[w].row \notin Orphans'
  <2>1. BeingRecorded(job[w].row)'
    BY <1>3, <1>8 DEF BeingRecorded
  <2> QED
    BY <2>1 DEF Orphans, BeingRecorded
<1> QED
  BY <1>7, <1>8

\* A committed entry hides no transfer: a refusal's transfer was hidden before,
\* and a made transfer is named by its row.
LEMMA EntryOrphans ==
    ASSUME PayoutInvariant, NEW w \in Worker, RecordRefused(w) \/ Commit(w)
    PROVE  Orphans' \subseteq Orphans
<1>1. job[w].row \in Row /\ ledger[job[w].row] = None /\ job[w].pc \in Holding
  BY DEF PayoutInvariant, GoodJob, RecordRefused, Commit, Holding
<1>2. PICK h \in Row : h = job[w].row
  BY <1>1
<1>3. \A v \in Worker \ {w} : job'[v] = job[v]
  BY DEF PayoutInvariant, RecordRefused, Commit
<1>4. \A r \in Row \ {h} : ledger'[r] = ledger[r]
  BY <1>2 DEF PayoutInvariant, Tables, RecordRefused, Commit
<1>5. transfer' = transfer
  BY DEF RecordRefused, Commit, stripe
<1>6. \A r \in Row \ {h} : BeingRecorded(r) => BeingRecorded(r)'
  BY <1>2, <1>3, OthersRecord
<1>7. \A r \in Row \ {h} : Recorded(r)' <=> Recorded(r)
  BY <1>4 DEF Recorded
<1>8. \A r \in Row \ {h} : r \in Orphans' => r \in Orphans
  BY <1>5, <1>6, <1>7 DEF Orphans
<1>9. CASE RecordRefused(w)
  <2>1. ~Recorded(h)
    BY <1>1, <1>2 DEF Recorded
  <2>2. BeingRecorded(h) => BeingRecorded(h)'
    BY <1>9, <1>3, OthersRecord DEF RecordRefused
  <2>3. h \in Orphans' => h \in Orphans
    BY <2>1, <2>2, <1>5 DEF Orphans
  <2> QED
    BY <2>3, <1>8 DEF Orphans
<1>10. CASE Commit(w)
  <2> DEFINE e == Entry(w, "processing", TRUE)
  <2>1. e \in RowType /\ e.xfer = TRUE
    BY <1>1, EntryType DEF Standing
  <2>2. ledger'[h] = e
    BY <1>10, <1>2 DEF Commit, PayoutInvariant, Tables
  <2> HIDE DEF e
  <2>3. ledger'[h] # None /\ ledger'[h].xfer
    BY <2>1, <2>2, PayoutsAssumption
  <2>4. h \notin Orphans'
    BY <2>3 DEF Orphans, Recorded
  <2> QED
    BY <2>4, <1>8 DEF Orphans
<1> QED
  BY <1>9, <1>10

\* No webhook takes a row's transfer away.
LEMMA WebhookOrphans ==
    ASSUME PayoutInvariant,
           \/ \E r \in Row : HandleTransferPaid(r) \/ HandleTransferFailed(r)
           \/ \E d \in Deposit : HandlePayoutPaid(d) \/ HandlePayoutFailed(d)
    PROVE  Orphans' \subseteq Orphans
<1>1. UNCHANGED <<job, transfer>>
  BY DEF HandleTransferPaid, HandleTransferFailed, HandlePayoutPaid, HandlePayoutFailed
<1>2. ASSUME NEW S \in SUBSET Row, \A r \in S : ledger[r] # None,
             NEW status \in Standing \cup {"failed"}, ledger' = Set(S, status),
             NEW r \in Row, Recorded(r)
      PROVE  Recorded(r)'
  <2>1. CASE r \in S
    <3>1. Set(S, status)[r] # None /\ Set(S, status)[r].xfer = ledger[r].xfer
      BY <1>2, <2>1, Marked
    <3> QED
      BY <1>2, <3>1 DEF Recorded
  <2>2. CASE r \notin S
    <3>1. ledger'[r] = ledger[r]
      BY <1>2, <2>2 DEF Set
    <3> QED
      BY <1>2, <3>1 DEF Recorded
  <2> QED
    BY <2>1, <2>2
<1>3. ASSUME NEW q \in Row, HandleTransferPaid(q) \/ HandleTransferFailed(q),
             NEW r \in Row, Recorded(r)
      PROVE  Recorded(r)'
  <2>1. PICK S \in SUBSET Row : S = Matching(q)
    BY Failable
  <2>2. \A p \in S : ledger[p] # None
    BY <2>1, Failable
  <2>3. PICK status \in {"completed", "failed"} : ledger' = Set(S, status)
    BY <1>3, <2>1 DEF HandleTransferPaid, HandleTransferFailed
  <2> QED
    BY <1>2, <1>3, <2>2, <2>3 DEF Standing
<1>4. ASSUME NEW d \in Deposit, HandlePayoutFailed(d), NEW r \in Row, Recorded(r)
      PROVE  Recorded(r)'
  <2>1. PICK S \in SUBSET Row :
            S = {p \in Unsettled : ledger[p].status \in {"completed", "settled"}}
    BY Failable
  <2>2. \A p \in S : ledger[p] # None
    BY <2>1, Failable
  <2>3. ledger' = Set(S, "failed")
    BY <1>4, <2>1 DEF HandlePayoutFailed
  <2> QED
    BY <1>2, <1>4, <2>2, <2>3
<1>5. ASSUME NEW d \in Deposit, HandlePayoutPaid(d), NEW r \in Row, Recorded(r)
      PROVE  Recorded(r)'
  <2>1. ledger[r] \in RowType /\ ledger[r] # None /\ ledger[r].xfer
    BY <1>5 DEF Recorded, PayoutInvariant, Tables
  <2> DEFINE m == [ledger[r] EXCEPT !.status = "settled", !.payout = d]
  <2>2. m \in RowType /\ m.xfer = ledger[r].xfer
    BY <2>1 DEF RowType, Standing
  <2>3. ledger'[r] = m \/ ledger'[r] = ledger[r]
    BY <1>5 DEF HandlePayoutPaid
  <2> HIDE DEF m
  <2> QED
    BY <2>1, <2>2, <2>3, PayoutsAssumption DEF Recorded
<1>6. \A r \in Row : Recorded(r) => Recorded(r)'
  BY <1>3, <1>4, <1>5
<1>7. \A r \in Row : BeingRecorded(r)' <=> BeingRecorded(r)
  BY <1>1 DEF BeingRecorded
<1> QED
  BY <1>1, <1>6, <1>7 DEF Orphans

LEMMA OrphanStep ==
    ASSUME PayoutInvariant, OrphansAreFaults, [Next]_vars
    PROVE  OrphansAreFaults'
<1>1. faults \in Nat
  BY DEF PayoutInvariant, Scalars
<1>2. ASSUME NEW w \in Worker, job[w].pc # "commit",
             \/ SweepSelect(w) \/ ManualSend(w) \/ Skip(w) \/ \E r \in Row : Stage(w, r)
             \/ TransferRefused(w) \/ Advance(w)
      PROVE  OrphansAreFaults'
  <2>1. UNCHANGED <<ledger, transfer, faults>>
    BY <1>2 DEF SweepSelect, ManualSend, Begin, Skip, Stage, TransferRefused, Advance, stripe
  <2>2. \A v \in Worker \ {w} : job'[v] = job[v]
    BY <1>2 DEF SweepSelect, ManualSend, Begin, Skip, Stage, TransferRefused, Advance,
                PayoutInvariant
  <2>3. Orphans' \subseteq Orphans
    BY <1>2, <2>1, <2>2, QuietWorker
  <2> QED
    BY <1>1, <2>1, <2>3, NoneMore
<1>3. ASSUME NEW w \in Worker, TransferMade(w) \/ AnswerLost(w) PROVE OrphansAreFaults'
  <2>1. CASE TransferMade(w)
    <3>1. Orphans' \subseteq Orphans /\ faults' = faults
      BY <2>1, CreatedOrphans DEF TransferMade
    <3> QED
      BY <1>1, <3>1, NoneMore
  <2>2. CASE AnswerLost(w)
    <3>1. Orphans' \subseteq Orphans \cup {job[w].row} /\ faults' = faults + 1
      BY <2>2, CreatedOrphans DEF AnswerLost
    <3> QED
      BY <1>1, <3>1, OneMore
  <2> QED
    BY <1>3, <2>1, <2>2
<1>4. ASSUME NEW w \in Worker, RecordRefused(w) \/ Commit(w) PROVE OrphansAreFaults'
  BY <1>1, <1>4, EntryOrphans, NoneMore DEF RecordRefused, Commit
<1>5. ASSUME NEW w \in Worker, Crash(w) PROVE OrphansAreFaults'
  <2>1. /\ \A v \in Worker \ {w} : job'[v] = job[v]
        /\ UNCHANGED <<ledger, transfer>> /\ faults' = faults + 1
    BY <1>5 DEF Crash, PayoutInvariant, stripe
  <2>2. \A r \in Row \ {job[w].row} : BeingRecorded(r) => BeingRecorded(r)'
    BY <2>1, OthersRecord
  <2>3. \A r \in Row : Recorded(r)' <=> Recorded(r)
    BY <2>1 DEF Recorded
  <2>4. Orphans' \subseteq Orphans \cup {job[w].row}
    BY <2>1, <2>2, <2>3 DEF Orphans
  <2> QED
    BY <1>1, <2>1, <2>4, OneMore
<1>6. ASSUME \/ \E r \in Row : HandleTransferPaid(r) \/ HandleTransferFailed(r)
             \/ \E d \in Deposit : HandlePayoutPaid(d) \/ HandlePayoutFailed(d)
      PROVE  OrphansAreFaults'
  <2>1. faults' = faults
    BY <1>6 DEF HandleTransferPaid, HandleTransferFailed, HandlePayoutPaid, HandlePayoutFailed
  <2> QED
    BY <1>1, <1>6, <2>1, WebhookOrphans, NoneMore
<1>7. ASSUME NEW r \in Row, NEW o \in {"paid", "failed"}, Resolve(r, o)
      PROVE  OrphansAreFaults'
  <2>1. UNCHANGED <<ledger, job, faults>>
    BY <1>7 DEF Resolve
  <2>2. \A q \in Row : transfer'[q] # None => transfer[q] # None
    BY <1>7 DEF Resolve, PayoutInvariant, Tables
  <2>3. \A q \in Row : (Recorded(q)' <=> Recorded(q)) /\ (BeingRecorded(q)' <=> BeingRecorded(q))
    BY <2>1 DEF Recorded, BeingRecorded
  <2>4. Orphans' \subseteq Orphans
    BY <2>2, <2>3 DEF Orphans
  <2> QED
    BY <1>1, <2>1, <2>4, NoneMore
<1>8. ASSUME UNCHANGED <<ledger, job, transfer, faults>> PROVE OrphansAreFaults'
  BY <1>8 DEF OrphansAreFaults, Orphans, Recorded, BeingRecorded
<1>9. ASSUME \/ \E d \in Deposit :
                   \/ OpenDeposit(d)
                   \/ \E s \in {"landed", "refused", "returned"} : CloseDeposit(d, s)
             \/ \E next \in {None, today + Period} : PatchSchedule(next)
             \/ \E s \in {"active", "restricted"} : AccountUpdated(s)
             \/ NextDay \/ UNCHANGED vars
      PROVE  UNCHANGED <<ledger, job, transfer, faults>>
  BY <1>9 DEF OpenDeposit, CloseDeposit, PatchSchedule, AccountUpdated, NextDay, vars, stripe
<1>10. \A w \in Worker :
          \/ SweepSelect(w) \/ ManualSend(w) \/ Skip(w) \/ \E r \in Row : Stage(w, r)
          \/ TransferRefused(w) \/ Advance(w)
          => job[w].pc # "commit"
  BY DEF SweepSelect, ManualSend, Begin, Skip, Stage, TransferRefused, Advance
<1> QED
  BY <1>2, <1>3, <1>4, <1>5, <1>6, <1>7, <1>8, <1>9, <1>10 DEF Next

\* Every transfer without a row of its own is the work of one crash or one lost
\* answer: the code as such loses no record.
THEOREM OrphansCounted == Spec => []OrphansAreFaults
<1>1. Init => OrphansAreFaults
  <2> SUFFICES ASSUME Init PROVE OrphansAreFaults
    OBVIOUS
  <2>1. Orphans = {} /\ faults = 0
    BY DEF Init, Orphans
  <2> QED
    BY <2>1, FS_EmptySet DEF OrphansAreFaults
<1>2. PayoutInvariant /\ OrphansAreFaults /\ [Next]_vars => OrphansAreFaults'
  BY OrphanStep
<1> QED
  BY <1>1, <1>2, InvariantHolds, PTL DEF Spec
=============================================================================
