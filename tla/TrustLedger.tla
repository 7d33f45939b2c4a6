---------------------------- MODULE TrustLedger ----------------------------
(***************************************************************************)
(* The trust ledger (services/trust_ledger.py) with two of its writers:    *)
(* the approval of a price discrepancy, which absorbs it or invoices the   *)
(* guest (services/financial_approval_service.py,                          *)
(* api/financial_approvals.py), and Stripe's events for paid checkouts and *)
(* paid invoices (api/stripe_webhooks.py).                                 *)
(*                                                                         *)
(* A posting takes its time, reads the newest signature, inserts a row     *)
(* that is unique by its event, and commits with its caller's changes.     *)
(* Nothing is locked in between.  A signature is unique to its row, so the *)
(* event of a row stands for it.                                           *)
(***************************************************************************)
EXTENDS Integers

CONSTANTS
    Approval,  \* discrepancies that wait for the commander
    Invoice,   \* ids Stripe may give to invoices
    Payment,   \* paid storefront checkouts
    Worker,    \* requests at work at the same time
    None,
    MaxStamps  \* bound: postings begun

Event == ({"approval"} \X Approval) \cup ({"invoice", "paid"} \X Invoice)
             \cup ({"stripe"} \X Payment)

ASSUME LedgerAssumption ==
    /\ None \notin Event /\ None \notin Approval \cup Invoice \cup {"absorb", "invoice"}
    /\ MaxStamps \in Nat

VARIABLES
    app,       \* financial_approvals
    bill,      \* Stripe: what an invoice is for, and whether it is paid
    ledger,    \* trust_transactions, the committed rows
    op,        \* what each worker is doing
    stamp,     \* the clock postings take their time from
    overlapped \* whether two postings were ever under way together

vars == <<app, bill, ledger, op, stamp, overlapped>>

Idle == [pc |-> "idle", app |-> None, event |-> None, at |-> 0, prev |-> None,
         fresh |-> FALSE]

Init ==
    /\ app = [a \in Approval |-> [status |-> "pending", strategy |-> None,
                                  invoice |-> None, cleared |-> FALSE]]
    /\ bill = [i \in Invoice |-> [of |-> None, paid |-> FALSE]]
    /\ ledger = {} /\ op = [w \in Worker |-> Idle]
    /\ stamp = 0 /\ overlapped = FALSE

Posted == {r.event : r \in ledger}
Posting(w) == op[w].pc \in {"sign", "insert", "commit"}

\* The signature of the newest row among rows; None is GENESIS.
Newest(rows) == IF rows = {} THEN None
                ELSE (CHOOSE r \in rows : \A q \in rows : q.at <= r.at).event

Becomes(w, o) == op' = [op EXCEPT ![w] = o]

Begin(w, pc, a, e) ==
    /\ op[w].pc = "idle"
    /\ Becomes(w, [Idle EXCEPT !.pc = pc, !.app = a, !.event = e])

(***************************************************************************)
(* What leads to a posting.                                                *)
(***************************************************************************)

\* Mutant: the approval is committed first and its entry posted afterwards.
AbsorbFirst(w, a) ==
    /\ app[a].status = "pending" /\ Begin(w, "post", a, <<"approval", a>>)
    /\ app' = [app EXCEPT ![a].status = "approved", ![a].strategy = "absorb"]
    /\ UNCHANGED <<bill, ledger, stamp, overlapped>>

\* execute_financial_approval reads a pending approval, without a lock.
Absorb(w, a) ==
    /\ app[a].status = "pending" /\ Begin(w, "post", a, <<"approval", a>>)
    /\ UNCHANGED <<app, bill, ledger, stamp, overlapped>>

ExecuteInvoice(w, a) ==
    /\ app[a].status = "pending" /\ Begin(w, "bill", a, None)
    /\ UNCHANGED <<app, bill, ledger, stamp, overlapped>>

\* Mutant: the receivable is posted under the id of the approval.
CreateInvoiceByApproval(w, i) ==
    /\ op[w].pc = "bill" /\ bill[i].of = None
    /\ bill' = [bill EXCEPT ![i].of = op[w].app]
    /\ Becomes(w, [op[w] EXCEPT !.pc = "post", !.event = <<"invoice", op[w].app>>])
    /\ UNCHANGED <<app, ledger, stamp, overlapped>>

\* create_invoice sends an invoice, before anything is committed.
CreateInvoice(w, i) ==
    /\ op[w].pc = "bill" /\ bill[i].of = None
    /\ bill' = [bill EXCEPT ![i].of = op[w].app]
    /\ Becomes(w, [op[w] EXCEPT !.pc = "post", !.event = <<"invoice", i>>])
    /\ UNCHANGED <<app, ledger, stamp, overlapped>>

\* The guest pays; from then on Stripe may deliver invoice.paid, more than once.
GuestPays(i) ==
    /\ bill[i].of # None /\ ~bill[i].paid /\ bill' = [bill EXCEPT ![i].paid = TRUE]
    /\ UNCHANGED <<app, ledger, op, stamp, overlapped>>

\* _process_invoice_paid, of the approval that has the invoice or is named in its
\* metadata, which is the same; cleared ones are skipped, whatever their status.
InvoicePaid(w, i) ==
    LET a == bill[i].of
    IN  /\ bill[i].paid /\ ~app[a].cleared /\ Begin(w, "post", a, <<"paid", i>>)
        /\ UNCHANGED <<app, bill, ledger, stamp, overlapped>>

\* post_checkout_trust_entry, for a settlement that is delivered once or again.
Checkout(w, p) ==
    /\ Begin(w, "post", None, <<"stripe", p>>)
    /\ UNCHANGED <<app, bill, ledger, stamp, overlapped>>

(***************************************************************************)
(* The posting.                                                            *)
(***************************************************************************)

\* TrustTransaction(timestamp=utc_now())
Stamp(w) ==
    /\ op[w].pc = "post" /\ stamp < MaxStamps /\ stamp' = stamp + 1
    /\ Becomes(w, [op[w] EXCEPT !.pc = "sign", !.at = stamp + 1])
    /\ overlapped' = (overlapped \/ \E v \in Worker : Posting(v))
    /\ UNCHANGED <<app, bill, ledger>>

\* Mutant: the head of the chain is sought from the wrong end.
SignOldest(w) ==
    /\ op[w].pc = "sign"
    /\ Becomes(w, [op[w] EXCEPT !.pc = "insert",
                                !.prev = IF ledger = {} THEN None
                                         ELSE (CHOOSE r \in ledger :
                                                   \A q \in ledger : q.at >= r.at).event])
    /\ UNCHANGED <<app, bill, ledger, stamp, overlapped>>

\* Mutant: the rows other sessions have not committed yet are signed over as well.
SignUncommitted(w) ==
    /\ op[w].pc = "sign"
    /\ \E rows \in {ledger, ledger \cup {[event |-> op[v].event, prev |-> op[v].prev,
                                         at |-> op[v].at] :
                                           v \in {v \in Worker : op[v].pc = "commit"}}} :
          Becomes(w, [op[w] EXCEPT !.pc = "insert", !.prev = Newest(rows)])
    /\ UNCHANGED <<app, bill, ledger, stamp, overlapped>>

\* _sign_transaction
Sign(w) ==
    /\ op[w].pc = "sign"
    /\ Becomes(w, [op[w] EXCEPT !.pc = "insert", !.prev = Newest(ledger)])
    /\ UNCHANGED <<app, bill, ledger, stamp, overlapped>>

\* Mutant: a row of the same event is no obstacle.
InsertAgain(w) ==
    /\ op[w].pc = "insert"
    /\ Becomes(w, [op[w] EXCEPT !.pc = "commit", !.fresh = TRUE])
    /\ UNCHANGED <<app, bill, ledger, stamp, overlapped>>

\* _add_trust_transaction_idempotent: an INSERT waits for one of the same event that
\* is not committed; if the event is posted, nothing is added.
Insert(w) ==
    /\ op[w].pc = "insert"
    /\ \A v \in Worker : ~(op[v].pc = "commit" /\ op[v].fresh /\ op[v].event = op[w].event)
    /\ Becomes(w, [op[w] EXCEPT !.pc = "commit", !.fresh = op[w].event \notin Posted])
    /\ UNCHANGED <<app, bill, ledger, stamp, overlapped>>

\* Mutant: the payload is changed in place, which the session does not notice.
ResolvedInPlace(a, e) ==
    CASE e[1] = "approval" -> [app[a] EXCEPT !.status = "approved", !.strategy = "absorb"]
      [] e[1] = "invoice" -> [app[a] EXCEPT !.status = "approved", !.strategy = "invoice",
                                            !.invoice = e[2]]
      [] e[1] = "paid" -> app[a]

\* What the caller changes in its approval, in the transaction of the posting.
Resolved(a, e) ==
    CASE e[1] = "approval" -> [app[a] EXCEPT !.status = "approved", !.strategy = "absorb"]
      [] e[1] = "invoice" -> [app[a] EXCEPT !.status = "approved", !.strategy = "invoice",
                                            !.invoice = e[2]]
      [] e[1] = "paid" -> [app[a] EXCEPT !.cleared = TRUE]

Row(w) == [event |-> op[w].event, prev |-> op[w].prev, at |-> op[w].at]

Commit(w) ==
    LET e == op[w].event
        a == op[w].app
    IN  /\ op[w].pc = "commit" /\ Becomes(w, Idle)
        /\ ledger' = IF op[w].fresh THEN ledger \cup {Row(w)} ELSE ledger
        /\ app' = IF a = None THEN app ELSE [app EXCEPT ![a] = Resolved(a, e)]
        /\ UNCHANGED <<bill, stamp, overlapped>>

\* An error or a crash: everything is rolled back; Stripe is answered with a 2xx, and
\* may deliver again all the same.
Abort(w) ==
    /\ op[w].pc # "idle" /\ Becomes(w, Idle)
    /\ UNCHANGED <<app, bill, ledger, stamp, overlapped>>

Next ==
    \/ \E w \in Worker :
          \/ \E a \in Approval : Absorb(w, a) \/ ExecuteInvoice(w, a)
          \/ \E i \in Invoice : CreateInvoice(w, i) \/ InvoicePaid(w, i)
          \/ \E p \in Payment : Checkout(w, p)
          \/ Stamp(w) \/ Sign(w) \/ Insert(w) \/ Commit(w) \/ Abort(w)
    \/ \E i \in Invoice : GuestPays(i)

Spec == Init /\ [][Next]_vars

(***************************************************************************)
(* Properties.                                                             *)
(***************************************************************************)

OpType == [pc : {"idle", "bill", "post", "sign", "insert", "commit"},
           app : Approval \cup {None}, event : Event \cup {None}, at : 0..MaxStamps,
           prev : Event \cup {None}, fresh : BOOLEAN]

\* Every variable keeps its shape.
TypeOK ==
    /\ app \in [Approval -> [status : {"pending", "approved"},
                             strategy : {"absorb", "invoice", None},
                             invoice : Invoice \cup {None}, cleared : BOOLEAN]]
    /\ bill \in [Invoice -> [of : Approval \cup {None}, paid : BOOLEAN]]
    /\ ledger \in SUBSET [event : Event, prev : Event \cup {None}, at : 1..MaxStamps]
    /\ op \in [Worker -> OpType]
    /\ stamp \in 0..MaxStamps /\ overlapped \in BOOLEAN

\* However often an approval is executed at once or an event is delivered, and in
\* whatever order sessions insert, commit and fail, an event is posted once
\* (docs/architecture/cross-division/email-to-financial.md:49).
PostedOnce == \A r, q \in ledger : r.event = q.event => r = q

Resolves(e, a) == \/ e = <<"approval", a>>
                  \/ \E i \in Invoice : e = <<"invoice", i>> /\ bill[i].of = a

\* An approval is approved exactly when one of its entries is in the ledger, and the
\* entry of the strategy it shows is (financial_approval_service.py:60-104).
ApprovedIsPosted ==
    \A a \in Approval :
        /\ app[a].status = "approved" <=> \E e \in Posted : Resolves(e, a)
        /\ app[a].strategy = "absorb" => <<"approval", a>> \in Posted
        /\ app[a].strategy = "invoice" => <<"invoice", app[a].invoice>> \in Posted

\* An approval is marked cleared exactly when the clearing of one of its invoices is
\* posted, and only paid invoices are cleared (stripe_webhooks.py:288-360).
ClearedIsPaid ==
    /\ \A a \in Approval :
          app[a].cleared <=> \E i \in Invoice : bill[i].of = a /\ <<"paid", i>> \in Posted
    /\ \A i \in Invoice : <<"paid", i>> \in Posted => bill[i].paid

\* What verify_hash_chain computes: in the order of their times, each row was signed
\* over the one before it.
ChainVerifies == \A r \in ledger : r.prev = Newest({q \in ledger : q.at < r.at})

\* The chain verifies as long as no two postings overlapped, whatever was rolled
\* back, refused as a duplicate or delivered again (hermes_daily_auditor.py:42-111).
LoneChainVerifies == ~overlapped => ChainVerifies

entries == {[event |-> r.event, prev |-> r.prev] : r \in ledger}
approved == {a \in Approval : app[a].status = "approved"}
cleared == {a \in Approval : app[a].cleared}

Journal == INSTANCE TrustJournal WITH
    Plain <- {"stripe"} \X Payment, Clearing <- {"paid"} \X Invoice, Genesis <- None,
    Resolving <- ({"approval"} \X Approval) \cup ({"invoice"} \X Invoice)

\* The committed rows are the journal TrustJournal promises, overlapping postings or
\* not: no row is signed over one that was rolled back, none is rewritten, and an
\* approval changes with its entry or not at all (trust_ledger.py:26-108,
\* financial_approval_service.py:60-104).
ImplementsJournal == Journal!Spec
=============================================================================
