------------------------- MODULE TrustLedgerProofs -------------------------
(***************************************************************************)
(* Proofs about TrustLedger, for any number of approvals, invoices,        *)
(* payments and workers: entries are posted once, approvals and clearings  *)
(* agree with the entries, and the chain holds while postings do not       *)
(* overlap.  The ledger implements TrustJournal: it only grows, and every  *)
(* entry is signed over one that stands before it, overlapping or not.     *)
(***************************************************************************)
EXTENDS TrustLedger, TLAPS

\* The event e is one that belongs to approval a.
OfApproval(e, a) ==
    \/ a \in Approval /\ e = <<"approval", a>>
    \/ a \in Approval /\ \E i \in Invoice : e = <<"invoice", i>> /\ bill[i].of = a
    \/ a \in Approval /\ \E i \in Invoice : e = <<"paid", i>> /\ bill[i].of = a /\ bill[i].paid
    \/ a = None /\ \E p \in Payment : e = <<"stripe", p>>

GoodOp(o) ==
    /\ o.pc = "bill" => o.app \in Approval
    /\ o.pc \in {"post", "sign", "insert", "commit"} =>
          o.event \in Event /\ OfApproval(o.event, o.app)

Hands == \A w \in Worker : GoodOp(op[w])

\* An INSERT that is not committed is of an event nobody else inserts or has posted.
Inserts ==
    /\ \A w \in Worker : op[w].pc = "commit" => (op[w].fresh <=> op[w].event \notin Posted)
    /\ \A v, w \in Worker :
          /\ op[v].pc = "commit" /\ op[v].fresh /\ op[w].pc = "commit" /\ op[w].fresh
          /\ op[v].event = op[w].event
          => v = w

PaidHaveOwner == \A i \in Invoice : bill[i].paid => bill[i].of \in Approval

Entries ==
    /\ PostedOnce /\ ApprovedIsPosted /\ ClearedIsPaid /\ PaidHaveOwner
    /\ \A i \in Invoice : <<"invoice", i>> \in Posted => bill[i].of # None

Latest(r) == \A q \in ledger : q.at <= r.at

\* While postings have not overlapped, the one under way is the newest of all and
\* is signed over the newest row.
Lone ==
    /\ \A v, w \in Worker : Posting(v) /\ Posting(w) => v = w
    /\ \A w \in Worker : Posting(w) => op[w].at = stamp /\ \A r \in ledger : r.at < stamp
    /\ \A w \in Worker : op[w].pc \in {"insert", "commit"} => op[w].prev = Newest(ledger)
    /\ ChainVerifies

Chain ==
    /\ \A r \in ledger : r.at <= stamp
    /\ \A w \in Worker : Posting(w) => op[w].at \in 1..stamp
    /\ ledger # {} => \E r \in ledger : Latest(r)
    /\ ~overlapped => Lone

Inv == TypeOK /\ Hands /\ Inserts /\ Entries /\ Chain

(***************************************************************************)
(* Steps of one worker that touch no table.                                *)
(***************************************************************************)

\* A worker that turns to o leaves the others alone.
LEMMA BecomesKeeps ==
    ASSUME TypeOK, NEW w \in Worker, NEW o \in OpType, Becomes(w, o)
    PROVE  /\ op'[w] = o /\ \A v \in Worker \ {w} : op'[v] = op[v]
           /\ op' \in [Worker -> OpType]
BY DEF Becomes, TypeOK

\* The newest row's event is an event.
LEMMA NewestIsEvent ==
    ASSUME Inv
    PROVE  Newest(ledger) \in Event \cup {None}
<1>1. CASE ledger = {}
  BY <1>1 DEF Newest
<1>2. CASE ledger # {}
  <2> DEFINE r == CHOOSE r \in ledger : \A q \in ledger : q.at <= r.at
  <2>1. r \in ledger
    BY <1>2 DEF Inv, Chain, Latest
  <2>2. r.event \in Event
    BY <2>1 DEF Inv, TypeOK
  <2> QED
    BY <1>2, <2>2 DEF Newest
<1> QED
  BY <1>1, <1>2

\* The entries depend on three tables only.
LEMMA EntriesKeep ==
    ASSUME Entries, UNCHANGED <<app, bill, ledger>>
    PROVE  Entries'
<1>1. Posted' = Posted /\ app' = app /\ bill' = bill
  BY DEF Posted
<1>2. PostedOnce'
  BY DEF Entries, PostedOnce
<1>3. \A a \in Approval, e \in Posted : Resolves(e, a)' <=> Resolves(e, a)
  BY <1>1 DEF Resolves
<1>4. ApprovedIsPosted'
  BY <1>1, <1>3 DEF Entries, ApprovedIsPosted
<1>5. ClearedIsPaid'
  BY <1>1 DEF Entries, ClearedIsPaid
<1>6. PaidHaveOwner'
  BY <1>1 DEF Entries, PaidHaveOwner
<1> QED
  BY <1>1, <1>2, <1>4, <1>5, <1>6 DEF Entries

\* So does the chain.
LEMMA ChainKeeps ==
    ASSUME UNCHANGED ledger
    PROVE  /\ Newest(ledger)' = Newest(ledger)
           /\ ChainVerifies => ChainVerifies'
<1>1. Newest(ledger)' = Newest(ledger)
  BY DEF Newest
<1>2. ASSUME ChainVerifies PROVE ChainVerifies'
  BY <1>2 DEF ChainVerifies, Newest
<1> QED
  BY <1>1, <1>2

\* A worker turns to o: what it has in hand is good, an insert is as the constraint
\* lets it be, and a posting goes on as it began.
LEMMA WorkerStep ==
    ASSUME LedgerAssumption, Inv, NEW w \in Worker, NEW o \in OpType, Becomes(w, o),
           UNCHANGED <<app, bill, ledger, stamp, overlapped>>,
           GoodOp(o),
           o.pc = "commit" =>
               /\ o.fresh <=> o.event \notin Posted
               /\ \A v \in Worker : op[v].pc = "commit" /\ op[v].fresh /\ o.fresh
                                    => op[v].event # o.event,
           o.pc \in {"sign", "insert", "commit"} => Posting(w) /\ o.at = op[w].at,
           o.pc \in {"insert", "commit"} => overlapped \/ o.prev = Newest(ledger)
    PROVE  Inv'
<1>1. /\ op'[w] = o /\ \A v \in Worker \ {w} : op'[v] = op[v]
      /\ op' \in [Worker -> OpType]
  BY BecomesKeeps DEF Inv
<1>2. TypeOK'
  BY <1>1 DEF Inv, TypeOK
<1>3. \A v \in Worker : GoodOp(op[v])'
  BY <1>1 DEF Inv, Hands, GoodOp, OfApproval
<1>4. Inserts'
  BY <1>1 DEF Inv, Inserts, Posted
<1>5. Entries'
  BY EntriesKeep DEF Inv
<1>6. \A v \in Worker : Posting(v)' => Posting(v) /\ op'[v].at = op[v].at
  BY <1>1 DEF Posting
<1>7. ASSUME ~overlapped PROVE Lone'
  <2>1. Lone
    BY <1>7 DEF Inv, Chain
  <2>2. \A v, u \in Worker : Posting(v)' /\ Posting(u)' => v = u
    BY <1>6, <2>1 DEF Lone
  <2>3. \A v \in Worker : Posting(v)' => op'[v].at = stamp' /\ \A r \in ledger' : r.at < stamp'
    BY <1>6, <2>1 DEF Lone
  <2>4. \A v \in Worker : op'[v].pc \in {"insert", "commit"} => op'[v].prev = Newest(ledger)
    BY <1>1, <1>7, <2>1 DEF Lone
  <2>5. ChainVerifies' /\ Newest(ledger)' = Newest(ledger)
    BY <2>1, ChainKeeps DEF Lone
  <2> QED
    BY <2>2, <2>3, <2>4, <2>5 DEF Lone
<1>8. Chain'
  BY <1>6, <1>7 DEF Inv, Chain, Latest
<1> QED
  BY <1>2, <1>3, <1>4, <1>5, <1>8 DEF Inv, Hands

LEMMA BeginStep ==
    ASSUME LedgerAssumption, Inv, NEW w \in Worker, NEW pc \in {"bill", "post"},
           NEW a \in Approval \cup {None}, NEW e \in Event \cup {None}, Begin(w, pc, a, e),
           UNCHANGED <<app, bill, ledger, stamp, overlapped>>,
           pc = "bill" => a \in Approval,
           pc = "post" => e \in Event /\ OfApproval(e, a)
    PROVE  Inv'
<1> DEFINE o == [Idle EXCEPT !.pc = pc, !.app = a, !.event = e]
<1>1. Idle \in OpType
  BY DEF Idle, OpType, LedgerAssumption
<1>2. o \in OpType /\ o.pc = pc /\ o.app = a /\ o.event = e /\ Becomes(w, o)
  BY <1>1 DEF OpType, Begin
<1> HIDE DEF o
<1>3. GoodOp(o)
  BY <1>2 DEF GoodOp
<1> QED
  BY <1>2, <1>3, WorkerStep

LEMMA AbsorbKeeps ==
    ASSUME LedgerAssumption, Inv, NEW w \in Worker, NEW a \in Approval, Absorb(w, a)
    PROVE  Inv'
BY BeginStep DEF Absorb, OfApproval, Event

LEMMA ExecuteInvoiceKeeps ==
    ASSUME LedgerAssumption, Inv, NEW w \in Worker, NEW a \in Approval, ExecuteInvoice(w, a)
    PROVE  Inv'
BY BeginStep DEF ExecuteInvoice

LEMMA InvoicePaidKeeps ==
    ASSUME LedgerAssumption, Inv, NEW w \in Worker, NEW i \in Invoice, InvoicePaid(w, i)
    PROVE  Inv'
<1> DEFINE a == bill[i].of
<1>1. /\ bill[i].paid /\ Begin(w, "post", a, <<"paid", i>>)
      /\ UNCHANGED <<app, bill, ledger, stamp, overlapped>>
  BY DEF InvoicePaid
<1>2. <<"paid", i>> \in Event /\ a \in Approval
  BY <1>1 DEF Event, Inv, Entries, PaidHaveOwner
<1> QED
  BY <1>1, <1>2, BeginStep DEF OfApproval

LEMMA CheckoutKeeps ==
    ASSUME LedgerAssumption, Inv, NEW w \in Worker, NEW p \in Payment, Checkout(w, p)
    PROVE  Inv'
BY BeginStep DEF Checkout, OfApproval, Event

LEMMA SignKeeps ==
    ASSUME LedgerAssumption, Inv, NEW w \in Worker, Sign(w)
    PROVE  Inv'
<1> DEFINE o == [op[w] EXCEPT !.pc = "insert", !.prev = Newest(ledger)]
<1>1. op[w] \in OpType /\ op[w].pc = "sign" /\ Becomes(w, o)
  BY DEF Sign, Inv, TypeOK
<1>2. UNCHANGED <<app, bill, ledger, stamp, overlapped>>
  BY DEF Sign
<1>3. /\ o \in OpType /\ o.pc = "insert" /\ o.prev = Newest(ledger)
      /\ o.at = op[w].at /\ o.event = op[w].event /\ o.app = op[w].app
  BY <1>1, NewestIsEvent DEF OpType
<1> HIDE DEF o
<1>4. GoodOp(o) /\ Posting(w)
  BY <1>1, <1>3 DEF Inv, Hands, GoodOp, Posting
<1> QED
  BY <1>1, <1>2, <1>3, <1>4, WorkerStep

LEMMA InsertKeeps ==
    ASSUME LedgerAssumption, Inv, NEW w \in Worker, Insert(w)
    PROVE  Inv'
<1> DEFINE o == [op[w] EXCEPT !.pc = "commit", !.fresh = op[w].event \notin Posted]
<1>1. op[w] \in OpType /\ op[w].pc = "insert" /\ Becomes(w, o)
  BY DEF Insert, Inv, TypeOK
<1>2. UNCHANGED <<app, bill, ledger, stamp, overlapped>>
  BY DEF Insert
<1>3. /\ o \in OpType /\ o.pc = "commit" /\ o.fresh = (op[w].event \notin Posted)
      /\ o.at = op[w].at /\ o.event = op[w].event /\ o.app = op[w].app
      /\ o.prev = op[w].prev
  BY <1>1 DEF OpType
<1> HIDE DEF o
<1>4. GoodOp(o) /\ Posting(w)
  BY <1>1, <1>3 DEF Inv, Hands, GoodOp, Posting
<1>5. \A v \in Worker : op[v].pc = "commit" /\ op[v].fresh => op[v].event # op[w].event
  BY DEF Insert
<1>6. overlapped \/ o.prev = Newest(ledger)
  BY <1>1, <1>3 DEF Inv, Chain, Lone
<1> QED
  BY <1>1, <1>2, <1>3, <1>4, <1>5, <1>6, WorkerStep

LEMMA AbortKeeps ==
    ASSUME LedgerAssumption, Inv, NEW w \in Worker, Abort(w)
    PROVE  Inv'
<1>1. Idle \in OpType /\ Idle.pc = "idle"
  BY DEF Idle, OpType, LedgerAssumption
<1>2. GoodOp(Idle)
  BY <1>1 DEF GoodOp
<1> QED
  BY <1>1, <1>2, WorkerStep DEF Abort

(***************************************************************************)
(* Steps that change a table or the clock.                                 *)
(***************************************************************************)

\* An invoice that is for nobody yet has no entries.
LEMMA UnusedInvoice ==
    ASSUME LedgerAssumption, Inv, NEW i \in Invoice, bill[i].of = None
    PROVE  <<"invoice", i>> \notin Posted /\ <<"paid", i>> \notin Posted
BY DEF LedgerAssumption, Inv, Entries, ClearedIsPaid, PaidHaveOwner

LEMMA CreateInvoiceKeeps ==
    ASSUME LedgerAssumption, Inv, NEW w \in Worker, NEW i \in Invoice, CreateInvoice(w, i)
    PROVE  Inv'
<1> DEFINE e == <<"invoice", i>>
           o == [op[w] EXCEPT !.pc = "post", !.event = e]
<1>1. /\ op[w] \in OpType /\ op[w].pc = "bill" /\ Becomes(w, o) /\ bill[i].of = None
      /\ UNCHANGED <<app, ledger, stamp, overlapped>>
  BY DEF CreateInvoice, Inv, TypeOK
<1>2. e \in Event
  BY DEF Event
<1>3. op[w].app \in Approval
  BY <1>1 DEF Inv, Hands, GoodOp
<1>4. o \in OpType /\ o.pc = "post" /\ o.event = e /\ o.app = op[w].app
  BY <1>1, <1>2 DEF OpType
<1>5. /\ bill' \in [Invoice -> [of : Approval \cup {None}, paid : BOOLEAN]]
      /\ bill'[i].of = op[w].app /\ bill'[i].paid = bill[i].paid
      /\ \A j \in Invoice \ {i} : bill'[j] = bill[j]
  BY <1>3 DEF CreateInvoice, Inv, TypeOK
<1> HIDE DEF o
<1>6. /\ op'[w] = o /\ \A v \in Worker \ {w} : op'[v] = op[v]
      /\ op' \in [Worker -> OpType]
  BY <1>1, <1>4, BecomesKeeps DEF Inv
<1>7. TypeOK'
  BY <1>1, <1>5, <1>6 DEF Inv, TypeOK
<1>8. ASSUME NEW f \in Event, NEW a, OfApproval(f, a) PROVE OfApproval(f, a)'
  BY <1>1, <1>5, <1>8 DEF OfApproval, LedgerAssumption
<1>9. Hands'
  <2>1. GoodOp(op[w])'
    BY <1>2, <1>3, <1>4, <1>5, <1>6 DEF GoodOp, OfApproval
  <2>2. ASSUME NEW v \in Worker \ {w} PROVE GoodOp(op[v])'
    <3>1. GoodOp(op[v]) /\ op'[v] = op[v]
      BY <1>6 DEF Inv, Hands
    <3> QED
      BY <3>1, <1>8 DEF GoodOp
  <2> QED
    BY <2>1, <2>2 DEF Hands
<1>10. Inserts'
  BY <1>1, <1>4, <1>6 DEF Inv, Inserts, Posted
<1>11. e \notin Posted /\ <<"paid", i>> \notin Posted /\ Posted' = Posted
  BY <1>1, UnusedInvoice DEF Posted
<1>12. Entries'
  <2>1. PostedOnce'
    BY <1>1 DEF Inv, Entries, PostedOnce
  <2>2. ASSUME NEW a \in Approval, NEW f \in Posted PROVE Resolves(f, a)' <=> Resolves(f, a)
    BY <1>5, <1>11 DEF Resolves
  <2>3. ApprovedIsPosted'
    BY <1>1, <1>11, <2>2 DEF Inv, Entries, ApprovedIsPosted
  <2>4. ClearedIsPaid'
    <3>1. \A j \in Invoice : <<"paid", j>> \in Posted => j # i
      BY <1>11
    <3>2. \A j \in Invoice, a \in Approval :
              /\ <<"paid", j>> \in Posted
              => /\ bill'[j].of = a <=> bill[j].of = a
                 /\ bill'[j].paid = bill[j].paid
      BY <1>5, <3>1
    <3>3. \A a \in Approval :
              (\E j \in Invoice : bill[j].of = a /\ <<"paid", j>> \in Posted)
              <=> \E j \in Invoice : bill'[j].of = a /\ <<"paid", j>> \in Posted
      BY <3>2
    <3>4. \A j \in Invoice : <<"paid", j>> \in Posted => bill'[j].paid
      BY <1>5, <3>1 DEF Inv, Entries, ClearedIsPaid
    <3> QED
      BY <1>1, <1>11, <3>3, <3>4 DEF Inv, Entries, ClearedIsPaid
  <2>5. PaidHaveOwner'
    BY <1>3, <1>5 DEF Inv, Entries, PaidHaveOwner
  <2>6. \A j \in Invoice : <<"invoice", j>> \in Posted' => bill'[j].of # None
    BY <1>5, <1>11 DEF Inv, Entries
  <2> QED
    BY <2>1, <2>3, <2>4, <2>5, <2>6 DEF Entries
<1>13. \A v \in Worker : Posting(v)' => Posting(v) /\ op'[v] = op[v]
  BY <1>4, <1>6 DEF Posting
<1>14. ASSUME ~overlapped PROVE Lone'
  <2>1. Lone
    BY <1>14 DEF Inv, Chain
  <2>2. ChainVerifies' /\ Newest(ledger)' = Newest(ledger)
    BY <1>1, <2>1, ChainKeeps DEF Lone
  <2>3. \A v \in Worker : op'[v].pc \in {"insert", "commit"} => op'[v].prev = Newest(ledger)
    BY <1>4, <1>6, <2>1 DEF Lone
  <2> QED
    BY <1>1, <1>13, <2>1, <2>2, <2>3 DEF Lone
<1>15. Chain'
  BY <1>1, <1>13, <1>14 DEF Inv, Chain, Latest
<1> QED
  BY <1>7, <1>9, <1>10, <1>12, <1>15 DEF Inv

LEMMA GuestPaysKeeps ==
    ASSUME LedgerAssumption, Inv, NEW i \in Invoice, GuestPays(i)
    PROVE  Inv'
<1>1. bill[i].of \in Approval /\ UNCHANGED <<app, ledger, op, stamp, overlapped>>
  BY DEF GuestPays, Inv, TypeOK
<1>2. /\ bill' \in [Invoice -> [of : Approval \cup {None}, paid : BOOLEAN]]
      /\ \A j \in Invoice : bill'[j].of = bill[j].of /\ (bill[j].paid => bill'[j].paid)
      /\ \A j \in Invoice \ {i} : bill'[j] = bill[j]
  BY DEF GuestPays, Inv, TypeOK
<1>3. TypeOK'
  BY <1>1, <1>2 DEF Inv, TypeOK
<1>4. Hands'
  BY <1>1, <1>2 DEF Inv, Hands, GoodOp, OfApproval
<1>5. Inserts' /\ Posted' = Posted
  BY <1>1 DEF Inv, Inserts, Posted
<1>6. Entries'
  <2>1. PostedOnce'
    BY <1>1 DEF Inv, Entries, PostedOnce
  <2>2. ASSUME NEW a, NEW f PROVE Resolves(f, a)' <=> Resolves(f, a)
    BY <1>2 DEF Resolves
  <2>3. ApprovedIsPosted'
    BY <1>1, <1>5, <2>2 DEF Inv, Entries, ApprovedIsPosted
  <2>4. ClearedIsPaid'
    <3>1. \A a \in Approval :
              (\E j \in Invoice : bill[j].of = a /\ <<"paid", j>> \in Posted)
              <=> \E j \in Invoice : bill'[j].of = a /\ <<"paid", j>> \in Posted
      BY <1>2
    <3>2. \A j \in Invoice : <<"paid", j>> \in Posted => bill'[j].paid
      BY <1>2 DEF Inv, Entries, ClearedIsPaid
    <3> QED
      BY <1>1, <1>5, <3>1, <3>2 DEF Inv, Entries, ClearedIsPaid
  <2>5. PaidHaveOwner'
    BY <1>1, <1>2 DEF Inv, Entries, PaidHaveOwner
  <2> QED
    BY <1>2, <1>5, <2>1, <2>3, <2>4, <2>5 DEF Inv, Entries
<1>7. Chain'
  <2>1. Lone => Lone'
    BY <1>1, ChainKeeps DEF Lone, Posting
  <2> QED
    BY <1>1, <2>1 DEF Inv, Chain, Latest, Posting
<1> QED
  BY <1>3, <1>4, <1>5, <1>6, <1>7 DEF Inv

LEMMA StampKeeps ==
    ASSUME LedgerAssumption, Inv, NEW w \in Worker, Stamp(w)
    PROVE  Inv'
<1> DEFINE o == [op[w] EXCEPT !.pc = "sign", !.at = stamp + 1]
<1>1. /\ op[w] \in OpType /\ op[w].pc = "post" /\ Becomes(w, o)
      /\ stamp \in 0..MaxStamps /\ stamp < MaxStamps /\ stamp' = stamp + 1
      /\ overlapped' = (overlapped \/ \E v \in Worker : Posting(v))
      /\ UNCHANGED <<app, bill, ledger>>
  BY DEF Stamp, Inv, TypeOK
<1>2. stamp' \in 1..MaxStamps /\ stamp' \in 0..MaxStamps /\ stamp < stamp' /\ stamp \in Int
  BY <1>1 DEF LedgerAssumption
<1>3. o \in OpType /\ o.pc = "sign" /\ o.at = stamp' /\ o.event = op[w].event /\ o.app = op[w].app
  BY <1>1, <1>2 DEF OpType
<1> HIDE DEF o
<1>4. /\ op'[w] = o /\ \A v \in Worker \ {w} : op'[v] = op[v]
      /\ op' \in [Worker -> OpType]
  BY <1>1, <1>3, BecomesKeeps DEF Inv
<1>5. TypeOK'
  <2>1. overlapped' \in BOOLEAN
    BY <1>1 DEF Inv, TypeOK
  <2> QED
    BY <1>1, <1>2, <1>4, <2>1 DEF Inv, TypeOK
<1>6. Hands'
  BY <1>1, <1>3, <1>4 DEF Inv, Hands, GoodOp, OfApproval
<1>7. Inserts'
  BY <1>1, <1>3, <1>4 DEF Inv, Inserts, Posted
<1>8. Entries'
  BY <1>1, EntriesKeep DEF Inv
<1>9. ledger \in SUBSET [event : Event, prev : Event \cup {None}, at : 1..MaxStamps]
  BY DEF Inv, TypeOK
<1>10. \A r \in ledger' : r.at <= stamp /\ r.at < stamp' /\ r.at <= stamp'
  BY <1>1, <1>2, <1>9 DEF Inv, Chain
<1>11. \A v \in Worker : Posting(v)' => op'[v].at \in 1..stamp'
  <2>1. \A v \in Worker \ {w} : Posting(v)' => op'[v].at \in 1..stamp
    BY <1>4 DEF Inv, Chain, Posting
  <2> QED
    BY <1>2, <1>3, <1>4, <2>1
<1>12. ASSUME ~overlapped' PROVE Lone'
  <2>1. Lone /\ \A v \in Worker : ~Posting(v)
    BY <1>1, <1>12 DEF Inv, Chain
  <2>2. \A v \in Worker : Posting(v)' => v = w
    BY <1>4, <2>1 DEF Posting
  <2>3. \A v \in Worker : op'[v].pc \notin {"insert", "commit"}
    BY <1>3, <1>4, <2>1 DEF Posting
  <2>4. ChainVerifies'
    BY <1>1, <2>1, ChainKeeps DEF Lone
  <2> QED
    BY <1>3, <1>4, <1>10, <2>2, <2>3, <2>4 DEF Lone
<1>13. Chain'
  BY <1>1, <1>10, <1>11, <1>12 DEF Inv, Chain, Latest
<1> QED
  BY <1>5, <1>6, <1>7, <1>8, <1>13 DEF Inv

(***************************************************************************)
(* The commit.                                                             *)
(***************************************************************************)

\* What an approval becomes: an approval of the kind its event tells.
LEMMA ResolvedIs ==
    ASSUME LedgerAssumption, Inv, NEW e \in Event, NEW a \in Approval, OfApproval(e, a)
    PROVE  /\ Resolved(a, e) \in [status : {"pending", "approved"},
                                  strategy : {"absorb", "invoice", None},
                                  invoice : Invoice \cup {None}, cleared : BOOLEAN]
           /\ e = <<"approval", a>> =>
                  /\ Resolved(a, e).status = "approved" /\ Resolved(a, e).strategy = "absorb"
                  /\ Resolved(a, e).cleared = app[a].cleared
           /\ \A i \in Invoice : e = <<"invoice", i>> =>
                  /\ Resolved(a, e).status = "approved" /\ Resolved(a, e).strategy = "invoice"
                  /\ Resolved(a, e).invoice = i /\ Resolved(a, e).cleared = app[a].cleared
           /\ \A i \in Invoice : e = <<"paid", i>> =>
                  /\ Resolved(a, e).status = app[a].status
                  /\ Resolved(a, e).strategy = app[a].strategy
                  /\ Resolved(a, e).invoice = app[a].invoice /\ Resolved(a, e).cleared
<1> DEFINE AppType == [status : {"pending", "approved"},
                       strategy : {"absorb", "invoice", None},
                       invoice : Invoice \cup {None}, cleared : BOOLEAN]
<1>1. app[a] \in AppType
  BY DEF Inv, TypeOK
<1>2. CASE e = <<"approval", a>>
  <2>1. e[1] = "approval"
    BY <1>2
  <2>2. Resolved(a, e) = [app[a] EXCEPT !.status = "approved", !.strategy = "absorb"]
    BY <2>1 DEF Resolved
  <2> QED
    BY <1>1, <1>2, <2>2
<1>3. ASSUME NEW i \in Invoice, e = <<"invoice", i>>
      PROVE  /\ Resolved(a, e) \in AppType
             /\ Resolved(a, e).status = "approved" /\ Resolved(a, e).strategy = "invoice"
             /\ Resolved(a, e).invoice = i /\ Resolved(a, e).cleared = app[a].cleared
  <2>1. e[1] = "invoice" /\ e[2] = i
    BY <1>3
  <2>2. Resolved(a, e) = [app[a] EXCEPT !.status = "approved", !.strategy = "invoice",
                                        !.invoice = i]
    BY <2>1 DEF Resolved
  <2> QED
    BY <1>1, <2>2
<1>4. ASSUME NEW i \in Invoice, e = <<"paid", i>>
      PROVE  /\ Resolved(a, e) \in AppType
             /\ Resolved(a, e).status = app[a].status
             /\ Resolved(a, e).strategy = app[a].strategy
             /\ Resolved(a, e).invoice = app[a].invoice /\ Resolved(a, e).cleared
  <2>1. e[1] = "paid"
    BY <1>4
  <2>2. Resolved(a, e) = [app[a] EXCEPT !.cleared = TRUE]
    BY <2>1 DEF Resolved
  <2> QED
    BY <1>1, <2>2
<1>5. \/ e = <<"approval", a>>
      \/ \E i \in Invoice : e = <<"invoice", i>>
      \/ \E i \in Invoice : e = <<"paid", i>>
  BY DEF OfApproval, LedgerAssumption
<1>6. CASE e = <<"approval", a>>
  BY <1>2, <1>6
<1>7. CASE \E i \in Invoice : e = <<"invoice", i>>
  BY <1>3, <1>7
<1>8. CASE \E i \in Invoice : e = <<"paid", i>>
  BY <1>4, <1>8
<1> QED
  BY <1>5, <1>6, <1>7, <1>8

\* What is known of the worker that commits, and of the tables afterwards.
LEMMA CommitEffect ==
    ASSUME LedgerAssumption, Inv, NEW w \in Worker, Commit(w)
    PROVE  /\ op[w] \in OpType /\ op[w].pc = "commit"
           /\ op[w].event \in Event /\ OfApproval(op[w].event, op[w].app)
           /\ Posted' = Posted \cup {op[w].event}
           /\ op[w].fresh => ledger' = ledger \cup {Row(w)}
           /\ ~op[w].fresh => ledger' = ledger
           /\ op[w].fresh <=> op[w].event \notin Posted
           /\ op' \in [Worker -> OpType] /\ op'[w].pc = "idle"
           /\ \A v \in Worker \ {w} : op'[v] = op[v]
           /\ UNCHANGED <<bill, stamp, overlapped>>
<1>1. op[w] \in OpType /\ op[w].pc = "commit" /\ Becomes(w, Idle)
  BY DEF Commit, Inv, TypeOK
<1>2. op[w].event \in Event /\ OfApproval(op[w].event, op[w].app)
  BY <1>1 DEF Inv, Hands, GoodOp
<1>3. Idle \in OpType /\ Idle.pc = "idle"
  BY DEF Idle, OpType, LedgerAssumption
<1>4. /\ op' \in [Worker -> OpType] /\ op'[w].pc = "idle"
      /\ \A v \in Worker \ {w} : op'[v] = op[v]
  BY <1>1, <1>3, BecomesKeeps DEF Inv
<1>5. op[w].fresh <=> op[w].event \notin Posted
  BY <1>1 DEF Inv, Inserts
<1>6. /\ op[w].fresh => ledger' = ledger \cup {Row(w)}
      /\ ~op[w].fresh => ledger' = ledger
      /\ UNCHANGED <<bill, stamp, overlapped>>
  BY DEF Commit
<1>7. Row(w).event = op[w].event
  BY DEF Row
<1>8. Posted' = Posted \cup {op[w].event}
  BY <1>5, <1>6, <1>7 DEF Posted
<1> QED
  BY <1>1, <1>2, <1>4, <1>5, <1>6, <1>8

LEMMA CommitApproval ==
    ASSUME LedgerAssumption, Inv, NEW w \in Worker, Commit(w)
    PROVE  \/ op[w].app = None /\ app' = app /\ \E p \in Payment : op[w].event = <<"stripe", p>>
           \/ /\ op[w].app \in Approval
              /\ app' = [app EXCEPT ![op[w].app] = Resolved(op[w].app, op[w].event)]
<1>1. OfApproval(op[w].event, op[w].app)
  BY CommitEffect
<1>2. CASE op[w].app = None
  BY <1>1, <1>2 DEF Commit, OfApproval, LedgerAssumption
<1>3. CASE op[w].app \in Approval
  BY <1>3 DEF Commit, LedgerAssumption
<1> QED
  BY <1>1, <1>2, <1>3 DEF OfApproval

LEMMA CommitTypes ==
    ASSUME LedgerAssumption, Inv, NEW w \in Worker, Commit(w)
    PROVE  TypeOK'
<1>1. Row(w) \in [event : Event, prev : Event \cup {None}, at : 1..MaxStamps]
  <2>1. Posting(w) /\ op[w] \in OpType /\ op[w].event \in Event /\ stamp \in 0..MaxStamps
    BY CommitEffect DEF Posting, Inv, TypeOK
  <2>2. op[w].at \in 1..stamp
    BY <2>1 DEF Inv, Chain
  <2>3. op[w].at \in 1..MaxStamps
    BY <2>1, <2>2 DEF LedgerAssumption
  <2>4. op[w].prev \in Event \cup {None}
    BY <2>1 DEF OpType
  <2> QED
    BY <2>1, <2>3, <2>4 DEF Row
<1>2. ledger' \in SUBSET [event : Event, prev : Event \cup {None}, at : 1..MaxStamps]
  BY <1>1, CommitEffect DEF Inv, TypeOK
<1>3. app' \in [Approval -> [status : {"pending", "approved"},
                             strategy : {"absorb", "invoice", None},
                             invoice : Invoice \cup {None}, cleared : BOOLEAN]]
  BY CommitApproval, CommitEffect, ResolvedIs DEF Inv, TypeOK
<1> QED
  BY <1>2, <1>3, CommitEffect DEF Inv, TypeOK

LEMMA CommitInserts ==
    ASSUME LedgerAssumption, Inv, NEW w \in Worker, Commit(w)
    PROVE  Hands' /\ Inserts'
<1>1. Hands'
  BY CommitEffect DEF Inv, Hands, GoodOp, OfApproval
<1>2. ASSUME NEW v \in Worker, op'[v].pc = "commit"
      PROVE  op'[v].fresh <=> op'[v].event \notin Posted'
  <2>1. v # w /\ op'[v] = op[v]
    BY <1>2, CommitEffect
  <2>2. op[v].fresh <=> op[v].event \notin Posted
    BY <1>2, <2>1 DEF Inv, Inserts
  <2>3. op[v].fresh => op[v].event # op[w].event
    BY <1>2, <2>1, <2>2, CommitEffect DEF Inv, Inserts
  <2> QED
    BY <2>1, <2>2, <2>3, CommitEffect
<1>3. Inserts'
  BY <1>2, CommitEffect DEF Inv, Inserts
<1> QED
  BY <1>1, <1>3

LEMMA CommitEntries ==
    ASSUME LedgerAssumption, Inv, NEW w \in Worker, Commit(w)
    PROVE  Entries'
<1> DEFINE e == op[w].event
           b == op[w].app
<1>1. /\ e \in Event /\ OfApproval(e, b) /\ Posted' = Posted \cup {e} /\ bill' = bill
  BY CommitEffect
<1>2. PostedOnce'
  <2>1. CASE op[w].fresh
    <3>1. ledger' = ledger \cup {Row(w)} /\ e \notin Posted /\ Row(w).event = e
      BY <2>1, CommitEffect DEF Row
    <3> QED
      BY <3>1 DEF Inv, Entries, PostedOnce, Posted
  <2>2. CASE ~op[w].fresh
    BY <2>2, CommitEffect DEF Inv, Entries, PostedOnce
  <2> QED
    BY <2>1, <2>2
<1>3. \A a \in Approval \ {b} : app'[a] = app[a]
  BY CommitApproval DEF Inv, TypeOK
<1>4. b \in Approval => app'[b] = Resolved(b, e)
  BY CommitApproval DEF Inv, TypeOK, LedgerAssumption
<1> HIDE DEF e, b
<1>5. \A a, f : Resolves(f, a)' <=> Resolves(f, a)
  BY <1>1 DEF Resolves
<1>6. \A a \in Approval \ {b} :
          /\ ~Resolves(e, a) /\ e # <<"approval", a>>
          /\ \A i \in Invoice : bill[i].of = a => e # <<"paid", i>>
  BY <1>1 DEF OfApproval, Resolves
<1>7. ASSUME NEW a \in Approval
      PROVE  /\ app'[a].status = "approved" <=> \E f \in Posted' : Resolves(f, a)
             /\ app'[a].strategy = "absorb" => <<"approval", a>> \in Posted'
             /\ app'[a].strategy = "invoice" => <<"invoice", app'[a].invoice>> \in Posted'
             /\ app'[a].cleared <=> \E i \in Invoice : bill[i].of = a /\ <<"paid", i>> \in Posted'
  <2>1. /\ app[a].status = "approved" <=> \E f \in Posted : Resolves(f, a)
        /\ app[a].strategy = "absorb" => <<"approval", a>> \in Posted
        /\ app[a].strategy = "invoice" => <<"invoice", app[a].invoice>> \in Posted
        /\ app[a].cleared <=> \E i \in Invoice : bill[i].of = a /\ <<"paid", i>> \in Posted
    BY DEF Inv, Entries, ApprovedIsPosted, ClearedIsPaid
  <2>2. CASE a # b
    BY <1>1, <1>3, <1>6, <2>1, <2>2
  <2>3. CASE a = b /\ e = <<"approval", a>>
    <3>1. /\ app'[a].status = "approved" /\ app'[a].strategy = "absorb"
          /\ app'[a].cleared = app[a].cleared
      BY <1>1, <1>4, <2>3, ResolvedIs
    <3>2. Resolves(e, a) /\ \A i \in Invoice : e # <<"paid", i>>
      BY <2>3 DEF Resolves
    <3> QED
      BY <1>1, <2>1, <2>3, <3>1, <3>2
  <2>4. ASSUME NEW i \in Invoice, a = b, e = <<"invoice", i>>, bill[i].of = a
        PROVE  <1>7!2
    <3>1. /\ app'[a].status = "approved" /\ app'[a].strategy = "invoice"
          /\ app'[a].invoice = i /\ app'[a].cleared = app[a].cleared
      BY <1>1, <1>4, <2>4, ResolvedIs
    <3>2. Resolves(e, a) /\ \A j \in Invoice : e # <<"paid", j>>
      BY <2>4 DEF Resolves
    <3> QED
      BY <1>1, <2>1, <2>4, <3>1, <3>2
  <2>5. ASSUME NEW i \in Invoice, a = b, e = <<"paid", i>>, bill[i].of = a
        PROVE  <1>7!2
    <3>1. /\ app'[a].status = app[a].status /\ app'[a].strategy = app[a].strategy
          /\ app'[a].invoice = app[a].invoice /\ app'[a].cleared
      BY <1>1, <1>4, <2>5, ResolvedIs
    <3>2. ~Resolves(e, a)
      BY <2>5 DEF Resolves
    <3> QED
      BY <1>1, <2>1, <2>5, <3>1, <3>2
  <2> QED
    BY <1>1, <2>2, <2>3, <2>4, <2>5 DEF OfApproval, LedgerAssumption
<1>8. ApprovedIsPosted'
  BY <1>5, <1>7 DEF ApprovedIsPosted
<1>9. \A i \in Invoice : <<"paid", i>> \in Posted' => bill[i].paid
  BY <1>1 DEF Inv, Entries, ClearedIsPaid, OfApproval
<1>10. ClearedIsPaid'
  BY <1>1, <1>7, <1>9 DEF ClearedIsPaid
<1>11. PaidHaveOwner'
  BY <1>1 DEF Inv, Entries, PaidHaveOwner
<1>12. \A i \in Invoice : <<"invoice", i>> \in Posted' => bill'[i].of # None
  BY <1>1 DEF Inv, Entries, OfApproval, LedgerAssumption
<1> QED
  BY <1>2, <1>8, <1>10, <1>11, <1>12 DEF Entries

LEMMA CommitChain ==
    ASSUME LedgerAssumption, Inv, NEW w \in Worker, Commit(w)
    PROVE  Chain'
<1>1. /\ Posting(w) /\ op[w].at \in 1..stamp /\ Row(w).at = op[w].at /\ Row(w).prev = op[w].prev
      /\ stamp' = stamp /\ overlapped' = overlapped /\ stamp \in Int
  BY CommitEffect DEF Posting, Inv, Chain, Row, TypeOK
<1>2. \A r \in ledger : r.at \in Int
  BY DEF Inv, TypeOK
<1>3. \A r \in ledger' : r.at <= stamp
  BY <1>1, CommitEffect DEF Inv, Chain
<1>4. \A v \in Worker : Posting(v)' => v # w /\ Posting(v) /\ op'[v] = op[v]
  BY CommitEffect DEF Posting
<1>5. ledger' # {} => \E r \in ledger' : \A q \in ledger' : q.at <= r.at
  <2>1. CASE op[w].fresh /\ ledger = {}
    BY <1>1, <2>1, CommitEffect
  <2>2. ASSUME op[w].fresh, NEW r \in ledger, Latest(r)
        PROVE  \E s \in ledger' : \A q \in ledger' : q.at <= s.at
    <3>1. ledger' = ledger \cup {Row(w)}
      BY <2>2, CommitEffect
    <3>2. CASE Row(w).at <= r.at
      BY <3>1, <3>2, <2>2 DEF Latest
    <3>3. CASE ~(Row(w).at <= r.at)
      <4>1. \A q \in ledger' : q.at <= Row(w).at
        BY <1>1, <1>2, <2>2, <3>1, <3>3 DEF Latest
      <4> QED
        BY <3>1, <4>1
    <3> QED
      BY <3>2, <3>3
  <2>3. CASE ~op[w].fresh
    BY <2>3, CommitEffect DEF Inv, Chain, Latest
  <2> QED
    BY <2>1, <2>2, <2>3 DEF Inv, Chain
<1>6. ASSUME ~overlapped PROVE Lone'
  <2>1. Lone
    BY <1>6 DEF Inv, Chain
  <2>2. \A v \in Worker : ~Posting(v)'
    BY <1>1, <1>4, <2>1 DEF Lone
  <2>3. ChainVerifies'
    <3>1. CASE op[w].fresh
      <4>1. /\ ledger' = ledger \cup {Row(w)} /\ Row(w).prev = Newest(ledger)
            /\ \A r \in ledger : r.at < Row(w).at
        BY <1>1, <2>1, <3>1, CommitEffect DEF Lone
      <4>2. {q \in ledger' : q.at < Row(w).at} = ledger
        BY <1>1, <4>1
      <4>3. \A r \in ledger : {q \in ledger' : q.at < r.at} = {q \in ledger : q.at < r.at}
        BY <1>1, <1>2, <4>1
      <4>4. \A r \in ledger : r.prev = Newest({q \in ledger : q.at < r.at})
        BY <2>1 DEF Lone, ChainVerifies
      <4>5. \A r \in ledger' : r.prev = Newest({q \in ledger' : q.at < r.at})
        BY <4>1, <4>2, <4>3, <4>4
      <4> QED
        BY <4>5 DEF ChainVerifies, Newest
    <3>2. CASE ~op[w].fresh
      BY <2>1, <3>2, CommitEffect, ChainKeeps DEF Lone
    <3> QED
      BY <3>1, <3>2
  <2> QED
    BY <2>2, <2>3 DEF Lone, Posting
<1> QED
  BY <1>1, <1>3, <1>4, <1>5, <1>6 DEF Inv, Chain, Latest

LEMMA CommitKeeps ==
    ASSUME LedgerAssumption, Inv, NEW w \in Worker, Commit(w)
    PROVE  Inv'
BY CommitTypes, CommitInserts, CommitEntries, CommitChain DEF Inv

(***************************************************************************)
(* The theorems.                                                           *)
(***************************************************************************)

LEMMA InitHolds ==
    ASSUME LedgerAssumption, Init
    PROVE  Inv
<1>1. TypeOK
  <2>1. Idle \in OpType
    BY DEF Idle, OpType, LedgerAssumption
  <2>2. op \in [Worker -> OpType]
    BY <2>1 DEF Init
  <2>3. stamp \in 0..MaxStamps
    BY DEF Init, LedgerAssumption
  <2> QED
    BY <2>2, <2>3 DEF Init, TypeOK
<1>2. /\ \A w \in Worker : op[w].pc = "idle"
      /\ Posted = {} /\ ledger = {}
  BY DEF Init, Idle, Posted
<1>3. Hands /\ Inserts
  BY <1>2 DEF Hands, GoodOp, Inserts
<1>4. Entries
  <2>1. ApprovedIsPosted
    BY <1>2 DEF Init, ApprovedIsPosted, LedgerAssumption
  <2>2. ClearedIsPaid /\ PaidHaveOwner
    BY <1>2 DEF Init, ClearedIsPaid, PaidHaveOwner
  <2> QED
    BY <1>2, <2>1, <2>2 DEF Entries, PostedOnce
<1>5. Chain
  BY <1>2 DEF Chain, Lone, Posting, ChainVerifies
<1> QED
  BY <1>1, <1>3, <1>4, <1>5 DEF Inv

LEMMA StepHolds ==
    ASSUME LedgerAssumption, Inv, [Next]_vars
    PROVE  Inv'
<1>1. ASSUME NEW w \in Worker, NEW a \in Approval, Absorb(w, a) \/ ExecuteInvoice(w, a)
      PROVE  Inv'
  BY <1>1, AbsorbKeeps, ExecuteInvoiceKeeps
<1>2. ASSUME NEW w \in Worker, NEW i \in Invoice, CreateInvoice(w, i) \/ InvoicePaid(w, i)
      PROVE  Inv'
  BY <1>2, CreateInvoiceKeeps, InvoicePaidKeeps
<1>3. ASSUME NEW w \in Worker, NEW p \in Payment, Checkout(w, p) PROVE Inv'
  BY <1>3, CheckoutKeeps
<1>4. ASSUME NEW w \in Worker, Stamp(w) \/ Sign(w) \/ Insert(w) \/ Commit(w) \/ Abort(w)
      PROVE  Inv'
  BY <1>4, StampKeeps, SignKeeps, InsertKeeps, CommitKeeps, AbortKeeps
<1>5. ASSUME NEW i \in Invoice, GuestPays(i) PROVE Inv'
  BY <1>5, GuestPaysKeeps
<1>6. CASE UNCHANGED vars
  <2>1. UNCHANGED <<app, bill, ledger>> /\ op' = op /\ stamp' = stamp /\ overlapped' = overlapped
    BY <1>6 DEF vars
  <2>2. Entries'
    BY <2>1, EntriesKeep DEF Inv
  <2>3. TypeOK' /\ Hands'
    BY <2>1 DEF Inv, TypeOK, Hands, GoodOp, OfApproval
  <2>4. Inserts'
    BY <2>1 DEF Inv, Inserts, Posted
  <2>5. Lone => Lone'
    BY <2>1, ChainKeeps DEF Lone, Posting
  <2>6. Chain'
    BY <2>1, <2>5 DEF Inv, Chain, Latest, Posting
  <2> QED
    BY <2>2, <2>3, <2>4, <2>6 DEF Inv
<1> QED
  BY <1>1, <1>2, <1>3, <1>4, <1>5, <1>6 DEF Next

\* The inductive invariant: what workers hold, whom an uncommitted insert excludes,
\* what the entries say and how the chain hangs together.
THEOREM LedgerInvariant == Spec => []Inv
<1>1. Init => Inv
  BY InitHolds, LedgerAssumption
<1>2. Inv /\ [Next]_vars => Inv'
  BY StepHolds, LedgerAssumption
<1> QED
  BY <1>1, <1>2, PTL DEF Spec

\* Every variable keeps its shape.
THEOREM TypeCorrect == Spec => []TypeOK
<1>1. Inv => TypeOK
  BY DEF Inv
<1> QED
  BY <1>1, LedgerInvariant, PTL

\* An event has one entry, whatever is executed at once or delivered twice.
THEOREM EventsPostedOnce == Spec => []PostedOnce
<1>1. Inv => PostedOnce
  BY DEF Inv, Entries
<1> QED
  BY <1>1, LedgerInvariant, PTL

\* An approval is approved exactly when an entry of it is posted, and the entry of
\* the strategy it shows is.
THEOREM ApprovalsArePosted == Spec => []ApprovedIsPosted
<1>1. Inv => ApprovedIsPosted
  BY DEF Inv, Entries
<1> QED
  BY <1>1, LedgerInvariant, PTL

\* An approval is cleared exactly when one of its invoices is, and that one is paid.
THEOREM ClearingsArePaid == Spec => []ClearedIsPaid
<1>1. Inv => ClearedIsPaid
  BY DEF Inv, Entries
<1> QED
  BY <1>1, LedgerInvariant, PTL

\* As long as postings did not overlap, the auditor finds the chain whole.
THEOREM LoneChainIsIntact == Spec => []LoneChainVerifies
<1>1. Inv => LoneChainVerifies
  BY DEF Inv, Chain, Lone, LoneChainVerifies
<1> QED
  BY <1>1, LedgerInvariant, PTL

(***************************************************************************)
(* The ledger implements TrustJournal.  Only a commit appends; everything  *)
(* else leaves the committed rows and the approvals alone.                 *)
(***************************************************************************)

\* What a posting is signed over stands in the ledger.
Rooted == \A w \in Worker : op[w].pc \in {"insert", "commit"} => op[w].prev \in Posted \cup {None}

LEMMA NewestIsPosted ==
    ASSUME Inv
    PROVE  Newest(ledger) \in Posted \cup {None}
<1>1. CASE ledger = {}
  BY <1>1 DEF Newest
<1>2. CASE ledger # {}
  <2> DEFINE r == CHOOSE r \in ledger : \A q \in ledger : q.at <= r.at
  <2>1. r \in ledger
    BY <1>2 DEF Inv, Chain, Latest
  <2> QED
    BY <1>2, <2>1 DEF Newest, Posted
<1> QED
  BY <1>1, <1>2

\* A step of w that signs nothing and takes nothing from the ledger.
LEMMA RootedKeeps ==
    ASSUME Inv, Rooted, NEW w \in Worker, Posted \subseteq Posted',
           \A v \in Worker \ {w} : op'[v] = op[v],
           op'[w].pc \in {"insert", "commit"} =>
               op[w].pc = "insert" /\ op'[w].prev = op[w].prev
    PROVE  Rooted'
BY DEF Rooted

\* Every step but the commit leaves the journal as it is.
Quiet == UNCHANGED <<entries, approved, cleared>>

LEMMA QuietTables ==
    ASSUME UNCHANGED <<app, ledger>>
    PROVE  Quiet /\ Posted' = Posted
BY DEF Quiet, entries, approved, cleared, Posted

LEMMA BeginIsQuiet ==
    ASSUME Inv, Rooted, NEW w \in Worker, NEW pc \in {"bill", "post"}, NEW a, NEW e,
           Begin(w, pc, a, e), UNCHANGED <<app, ledger>>
    PROVE  Quiet /\ Rooted'
<1> DEFINE o == [Idle EXCEPT !.pc = pc, !.app = a, !.event = e]
<1>1. o.pc = pc
  BY DEF Idle
<1>2. op'[w].pc = pc /\ \A v \in Worker \ {w} : op'[v] = op[v]
  BY <1>1 DEF Begin, Becomes, Inv, TypeOK
<1> QED
  BY <1>2, RootedKeeps, QuietTables

LEMMA QuietSteps ==
    ASSUME LedgerAssumption, Inv, Rooted, NEW w \in Worker,
           \/ \E a \in Approval : Absorb(w, a) \/ ExecuteInvoice(w, a)
           \/ \E i \in Invoice : CreateInvoice(w, i) \/ InvoicePaid(w, i)
           \/ \E p \in Payment : Checkout(w, p)
           \/ Stamp(w) \/ Insert(w) \/ Abort(w)
    PROVE  Quiet /\ Rooted'
<1>1. CASE \E a \in Approval : Absorb(w, a) \/ ExecuteInvoice(w, a)
  BY <1>1, BeginIsQuiet DEF Absorb, ExecuteInvoice
<1>2. CASE (\E i \in Invoice : InvoicePaid(w, i)) \/ \E p \in Payment : Checkout(w, p)
  BY <1>2, BeginIsQuiet DEF InvoicePaid, Checkout
<1>3. ASSUME NEW i \in Invoice, CreateInvoice(w, i) PROVE Quiet /\ Rooted'
  <2> DEFINE o == [op[w] EXCEPT !.pc = "post", !.event = <<"invoice", i>>]
  <2>1. op[w] \in OpType /\ Becomes(w, o) /\ UNCHANGED <<app, ledger>>
    BY <1>3 DEF CreateInvoice, Inv, TypeOK
  <2>2. o.pc = "post"
    BY <2>1 DEF OpType
  <2>3. op'[w].pc = "post" /\ \A v \in Worker \ {w} : op'[v] = op[v]
    BY <2>1, <2>2 DEF Becomes, Inv, TypeOK
  <2> QED
    BY <2>1, <2>3, RootedKeeps, QuietTables
<1>4. CASE Stamp(w)
  <2> DEFINE o == [op[w] EXCEPT !.pc = "sign", !.at = stamp + 1]
  <2>1. op[w] \in OpType /\ Becomes(w, o) /\ UNCHANGED <<app, ledger>>
    BY <1>4 DEF Stamp, Inv, TypeOK
  <2>2. o.pc = "sign"
    BY <2>1 DEF OpType
  <2>3. op'[w].pc = "sign" /\ \A v \in Worker \ {w} : op'[v] = op[v]
    BY <2>1, <2>2 DEF Becomes, Inv, TypeOK
  <2> QED
    BY <2>1, <2>3, RootedKeeps, QuietTables
<1>5. CASE Insert(w)
  <2> DEFINE o == [op[w] EXCEPT !.pc = "commit", !.fresh = op[w].event \notin Posted]
  <2>1. op[w] \in OpType /\ op[w].pc = "insert" /\ Becomes(w, o) /\ UNCHANGED <<app, ledger>>
    BY <1>5 DEF Insert, Inv, TypeOK
  <2>2. o.prev = op[w].prev
    BY <2>1 DEF OpType
  <2>3. op'[w].prev = op[w].prev /\ \A v \in Worker \ {w} : op'[v] = op[v]
    BY <2>1, <2>2 DEF Becomes, Inv, TypeOK
  <2> QED
    BY <2>1, <2>3, RootedKeeps, QuietTables
<1>6. CASE Abort(w)
  <2>1. op'[w] = Idle /\ \A v \in Worker \ {w} : op'[v] = op[v]
    BY <1>6 DEF Abort, Becomes, Inv, TypeOK
  <2>2. op'[w].pc = "idle" /\ UNCHANGED <<app, ledger>>
    BY <1>6, <2>1 DEF Idle, Abort
  <2> QED
    BY <2>1, <2>2, RootedKeeps, QuietTables
<1> QED
  BY <1>1, <1>2, <1>3, <1>4, <1>5, <1>6

LEMMA SignIsQuiet ==
    ASSUME Inv, Rooted, NEW w \in Worker, Sign(w)
    PROVE  Quiet /\ Rooted'
<1>1. op[w] \in OpType /\ UNCHANGED <<app, ledger>>
  BY DEF Sign, Inv, TypeOK
<1>2. op'[w].prev = Newest(ledger) /\ \A v \in Worker \ {w} : op'[v] = op[v]
  BY <1>1 DEF Sign, Becomes, Inv, TypeOK, OpType
<1> QED
  BY <1>1, <1>2, NewestIsPosted, QuietTables DEF Rooted

\* A commit that inserted its row posts the event over one that stands.
LEMMA FreshPosts ==
    ASSUME LedgerAssumption, Inv, Rooted, NEW w \in Worker, Commit(w), op[w].fresh
    PROVE  Journal!Post(op[w].event, op[w].prev) /\ op[w].prev \in Journal!Events \cup {None}
<1>1. Journal!Events = Posted
  <2>1. ASSUME NEW r \in ledger PROVE r.event \in Journal!Events
    <3>1. [event |-> r.event, prev |-> r.prev] \in entries
      BY DEF entries
    <3>2. [event |-> r.event, prev |-> r.prev].event = r.event
      OBVIOUS
    <3> QED
      BY <3>1, <3>2 DEF Journal!Events
  <2>2. ASSUME NEW q \in entries PROVE q.event \in Posted
    <3>1. PICK r \in ledger : q = [event |-> r.event, prev |-> r.prev]
      BY DEF entries
    <3> QED
      BY <3>1 DEF Posted
  <2> QED
    BY <2>1, <2>2 DEF Journal!Events, Posted
<1>2. op[w].event \notin Posted /\ op[w].prev \in Posted \cup {None}
  BY CommitEffect DEF Rooted
<1>3. ledger' = ledger \cup {Row(w)}
  BY CommitEffect
<1>4. entries' = entries \cup {[event |-> op[w].event, prev |-> op[w].prev]}
  <2> DEFINE Entry(r) == [event |-> r.event, prev |-> r.prev]
  <2>1. Entry(Row(w)) = [event |-> op[w].event, prev |-> op[w].prev]
    BY DEF Row
  <2>2. entries = {Entry(r) : r \in ledger} /\ entries' = {Entry(r) : r \in ledger'}
    BY DEF entries
  <2> HIDE DEF Entry
  <2>3. entries' = entries \cup {Entry(Row(w))}
    BY <1>3, <2>2
  <2> QED
    BY <2>1, <2>3
<1> QED
  BY <1>1, <1>2, <1>4 DEF Journal!Post

\* What a commit does to the approvals, by the kind of its event.
LEMMA CommitResolves ==
    ASSUME LedgerAssumption, Inv, NEW w \in Worker, Commit(w)
    PROVE  \/ /\ op[w].event \in {"stripe"} \X Payment
              /\ UNCHANGED <<approved, cleared>>
           \/ /\ op[w].event \in ({"approval"} \X Approval) \cup ({"invoice"} \X Invoice)
              /\ op[w].app \in Approval /\ Resolves(op[w].event, op[w].app)
              /\ approved' = approved \cup {op[w].app} /\ cleared' = cleared
           \/ /\ op[w].event \in {"paid"} \X Invoice /\ op[w].app \in Approval
              /\ \E i \in Invoice : op[w].event = <<"paid", i>> /\ bill[i].of = op[w].app
              /\ cleared' = cleared \cup {op[w].app} /\ approved' = approved
<1> DEFINE e == op[w].event
           b == op[w].app
<1>1. e \in Event /\ OfApproval(e, b)
  BY CommitEffect
<1>2. CASE b = None
  BY <1>2, CommitApproval, LedgerAssumption DEF LedgerAssumption, approved, cleared
<1>3. CASE b \in Approval
  <2>1. app' = [app EXCEPT ![b] = Resolved(b, e)]
    BY <1>3, CommitApproval DEF LedgerAssumption
  <2>2. app'[b] = Resolved(b, e) /\ \A a \in Approval \ {b} : app'[a] = app[a]
    BY <1>3, <2>1 DEF Inv, TypeOK
  <2> HIDE DEF e, b
  <2>3. \/ e = <<"approval", b>>
        \/ \E i \in Invoice : e = <<"invoice", i>> /\ bill[i].of = b
        \/ \E i \in Invoice : e = <<"paid", i>> /\ bill[i].of = b
    BY <1>1, <1>3 DEF OfApproval, LedgerAssumption
  <2>4. CASE e = <<"approval", b>> \/ \E i \in Invoice : e = <<"invoice", i>> /\ bill[i].of = b
    <3>1. app'[b].status = "approved" /\ app'[b].cleared = app[b].cleared
      BY <1>1, <1>3, <2>2, <2>4, ResolvedIs
    <3>2. approved' = approved \cup {b} /\ cleared' = cleared
      BY <1>3, <2>2, <3>1 DEF approved, cleared
    <3>3. e \in ({"approval"} \X Approval) \cup ({"invoice"} \X Invoice) /\ Resolves(e, b)
      BY <1>3, <2>4 DEF Resolves
    <3> QED
      BY <1>3, <3>2, <3>3 DEF e, b
  <2>5. ASSUME NEW i \in Invoice, e = <<"paid", i>>, bill[i].of = b
        PROVE  /\ e \in {"paid"} \X Invoice /\ bill[i].of = b
               /\ cleared' = cleared \cup {b} /\ approved' = approved
    <3>1. app'[b].status = app[b].status /\ app'[b].cleared
      BY <1>1, <1>3, <2>2, <2>5, ResolvedIs
    <3> QED
      BY <1>3, <2>2, <2>5, <3>1 DEF approved, cleared
  <2> QED
    BY <1>3, <2>3, <2>4, <2>5 DEF e, b
<1> QED
  BY <1>1, <1>2, <1>3 DEF OfApproval

\* A commit is a step of the journal; one that found its event posted changes nothing.
LEMMA CommitIsPost ==
    ASSUME LedgerAssumption, Inv, Rooted, NEW w \in Worker, Commit(w)
    PROVE  (Journal!Next \/ Quiet) /\ Rooted'
<1> DEFINE e == op[w].event
           b == op[w].app
           p == op[w].prev
<1>1. ASSUME op[w].fresh PROVE Journal!Next
  <2>1. Journal!Post(e, p) /\ p \in Journal!Events \cup {None}
    BY <1>1, FreshPosts
  <2>2. CASE e \in {"stripe"} \X Payment /\ UNCHANGED <<approved, cleared>>
    <3>1. Journal!Record(e, p)
      BY <2>1, <2>2 DEF Journal!Record
    <3> QED
      BY <2>1, <2>2, <3>1 DEF Journal!Next
  <2>3. CASE /\ e \in ({"approval"} \X Approval) \cup ({"invoice"} \X Invoice)
             /\ b \in Approval /\ approved' = approved \cup {b} /\ cleared' = cleared
    <3>1. Journal!Resolve(e, p, b)
      BY <2>1, <2>3 DEF Journal!Resolve
    <3> QED
      BY <2>1, <2>3, <3>1 DEF Journal!Next
  <2>4. CASE /\ e \in {"paid"} \X Invoice /\ b \in Approval
             /\ cleared' = cleared \cup {b} /\ approved' = approved
    <3>1. Journal!Clear(e, p, b)
      BY <2>1, <2>4 DEF Journal!Clear
    <3> QED
      BY <2>1, <2>4, <3>1 DEF Journal!Next
  <2> QED
    BY <2>2, <2>3, <2>4, CommitResolves
<1>2. ASSUME ~op[w].fresh PROVE Quiet
  <2>1. ledger' = ledger /\ e \in Posted
    BY <1>2, CommitEffect
  <2>2. entries' = entries
    BY <2>1 DEF entries
  <2>3. b \in Approval /\ Resolves(e, b) => b \in approved
    BY <2>1 DEF Inv, Entries, ApprovedIsPosted, approved
  <2>4. b \in Approval /\ (\E i \in Invoice : e = <<"paid", i>> /\ bill[i].of = b) => b \in cleared
    BY <2>1 DEF Inv, Entries, ClearedIsPaid, cleared
  <2>5. approved' = approved /\ cleared' = cleared
    BY <2>3, <2>4, CommitResolves
  <2> QED
    BY <2>2, <2>5 DEF Quiet
<1>3. op'[w].pc = "idle" /\ \A v \in Worker \ {w} : op'[v] = op[v]
  BY CommitEffect
<1>4. Rooted'
  BY <1>3, RootedKeeps, CommitEffect
<1> QED
  BY <1>1, <1>2, <1>4

LEMMA JournalStep ==
    ASSUME LedgerAssumption, Inv, Rooted, [Next]_vars
    PROVE  (Journal!Next \/ Quiet) /\ Rooted'
<1>1. ASSUME NEW w \in Worker,
             \/ \E a \in Approval : Absorb(w, a) \/ ExecuteInvoice(w, a)
             \/ \E i \in Invoice : CreateInvoice(w, i) \/ InvoicePaid(w, i)
             \/ \E p \in Payment : Checkout(w, p)
             \/ Stamp(w) \/ Insert(w) \/ Abort(w)
      PROVE  Quiet /\ Rooted'
  BY <1>1, QuietSteps
<1>2. ASSUME NEW w \in Worker, Sign(w) PROVE Quiet /\ Rooted'
  BY <1>2, SignIsQuiet
<1>3. ASSUME NEW w \in Worker, Commit(w) PROVE (Journal!Next \/ Quiet) /\ Rooted'
  BY <1>3, CommitIsPost
<1>4. CASE UNCHANGED vars \/ \E i \in Invoice : GuestPays(i)
  <2>1. UNCHANGED <<app, ledger>> /\ op' = op
    BY <1>4 DEF vars, GuestPays
  <2> QED
    BY <2>1, QuietTables DEF Rooted
<1> QED
  BY <1>1, <1>2, <1>3, <1>4 DEF Next

\* The committed rows are the journal TrustJournal promises: append-only, one entry
\* to an event, each signed over one that stands, and no approval changed without one.
THEOREM Refinement == Spec => ImplementsJournal
<1>1. Init => Journal!Init /\ Rooted
  <2> SUFFICES ASSUME Init PROVE Journal!Init /\ Rooted
    OBVIOUS
  <2>1. ledger = {} /\ \A w \in Worker : op[w].pc = "idle"
    BY DEF Init, Idle
  <2>2. approved = {} /\ cleared = {}
    BY DEF Init, approved, cleared
  <2> QED
    BY <2>1, <2>2 DEF Journal!Init, entries, Rooted
<1>2. Inv /\ Rooted /\ [Next]_vars => [Journal!Next]_<<entries, approved, cleared>> /\ Rooted'
  BY JournalStep, LedgerAssumption DEF Quiet
<1> QED
  BY <1>1, <1>2, LedgerInvariant, PTL DEF Spec, ImplementsJournal, Journal!Spec
=============================================================================
