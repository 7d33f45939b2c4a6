--------------------------- MODULE DirectBooking ---------------------------
(***************************************************************************)
(* Checkout holds and their conversion into reservations: the quote and    *)
(* book endpoints, the two finalizers (the guest's confirm-hold call and   *)
(* Stripe's payment_intent.succeeded webhook), the storefront settlement   *)
(* webhook and the cancellation endpoint, as PostgreSQL READ COMMITTED     *)
(* transactions that interleave statement by statement.                    *)
(*                                                                         *)
(* A Worker is one request with its database session.  Its uncommitted     *)
(* writes stay in tx[w]: nobody else sees them before Commit, and RollBack *)
(* forgets them.  Two kinds of lock block a session: the per-property      *)
(* advisory lock and the lock on a reservation_holds row.                  *)
(***************************************************************************)
EXTENDS Stays, FiniteSets

CONSTANTS
    Hold,           \* ids of reservation_holds rows
    Res,            \* ids of reservations rows
    Worker,         \* concurrent requests
    Intent,         \* storefront PaymentIntents (no hold behind them)
    Property,
    Stay,           \* the stays guests ask for
    StayOfIntent,   \* the stay in a storefront intent's metadata
    None,
    TTL,            \* HOLD_TTL_MINUTES
    MaxNow,         \* bound on the clock
    MaxCrash,       \* bound on process crashes
    Exclusion       \* TRUE iff the EXCLUDE constraints are installed

ASSUME ConstantsAssumption ==
    /\ Stay \subseteq StayType(Property)
    /\ \A s \in Stay : s.ci < s.co
    /\ Stay # {}
    /\ StayOfIntent \in [Intent -> Stay]
    /\ None \notin Hold \cup Res \cup Worker \cup Intent \cup Property
    /\ Hold \cap Intent = {}
    /\ TTL \in Nat \ {0}
    /\ MaxNow \in Nat
    /\ MaxCrash \in Nat
    /\ Exclusion \in BOOLEAN

VARIABLES
    now,        \* wall clock of the application and the database
    holds,      \* committed reservation_holds rows
    res,        \* committed reservations rows
    pi,         \* Stripe's PaymentIntent of each hold
    paid,       \* storefront intents that have been paid
    advLock,    \* pg_advisory_xact_lock owner of each property
    rowLock,    \* owner of the row lock on each hold
    tx,         \* the transaction each worker is running
    acked,      \* payments whose webhook was answered with a 2xx
    told,       \* holds whose guest got a reservation from confirm-hold
    emitted,    \* reservation -> number of reservation.confirmed events
    crashes     \* number of crashes so far

vars == <<now, holds, res, pi, paid, advLock, rowLock, tx, acked, told,
          emitted, crashes>>

-----------------------------------------------------------------------------
HoldStatus == {"none", "active", "expired", "converted"}
ResStatus  == {"none", "confirmed", "cancelled"}

Finalizers == {"client", "webhook", "webhook_direct"}
Ops == {"none", "quote", "book", "store"} \cup Finalizers

Pcs == {"idle", "lock", "expire", "check", "holds", "insert", "pay",
        "row", "commit", "emit"}

SomeStay == CHOOSE s \in Stay : TRUE

NoTx == [op |-> "none", pc |-> "idle", src |-> None, stay |-> SomeStay,
         until |-> 0, new |-> None, expiring |-> {}]

TxType == [op: Ops, pc: Pcs, src: Hold \cup Intent \cup {None}, stay: Stay,
           until: Nat, new: Res \cup {None}, expiring: SUBSET Hold]

HoldRow == [status: HoldStatus, stay: Stay, expires: Nat, res: Res \cup {None}]
ResRow  == [status: ResStatus, stay: Stay, src: Hold \cup Intent \cup {None}]

TypeOK ==
    /\ now \in Nat
    /\ holds \in [Hold -> HoldRow]
    /\ res \in [Res -> ResRow]
    /\ pi \in [Hold -> {"none", "created", "succeeded"}]
    /\ paid \in SUBSET Intent
    /\ advLock \in [Property -> Worker \cup {None}]
    /\ rowLock \in [Hold -> Worker \cup {None}]
    /\ tx \in [Worker -> TxType]
    /\ acked \in SUBSET (Hold \cup Intent)
    /\ told \in SUBSET Hold
    /\ emitted \in [Res -> Nat]
    /\ crashes \in Nat

Init ==
    /\ now = 0
    /\ holds = [h \in Hold |-> [status |-> "none", stay |-> SomeStay,
                                expires |-> 0, res |-> None]]
    /\ res = [r \in Res |-> [status |-> "none", stay |-> SomeStay,
                             src |-> None]]
    /\ pi = [h \in Hold |-> "none"]
    /\ paid = {}
    /\ advLock = [p \in Property |-> None]
    /\ rowLock = [h \in Hold |-> None]
    /\ tx = [w \in Worker |-> NoTx]
    /\ acked = {}
    /\ told = {}
    /\ emitted = [r \in Res |-> 0]
    /\ crashes = 0

-----------------------------------------------------------------------------
(* What the queries of the code see.                                       *)

\* OCCUPYING_RESERVATION_STATUSES, restricted to the statuses of this module.
Occupying == {"confirmed"}

\* Mutant: conflicts are looked up by arrival date only.
ReservationConflictSameArrival(s) ==
    \E r \in Res : /\ res[r].status \in Occupying
                   /\ res[r].stay.prop = s.prop
                   /\ res[r].stay.ci = s.ci

\* has_reservation_conflict, on committed rows.
ReservationConflict(s) ==
    \E r \in Res : res[r].status \in Occupying /\ Overlaps(res[r].stay, s)

\* has_active_hold_conflict: active, expires_at > now, not the excluded hold.
HoldConflict(s, exclude) ==
    \E h \in Hold \ {exclude} :
        /\ holds[h].status = "active"
        /\ holds[h].expires > now
        /\ Overlaps(holds[h].stay, s)

\* Mutant: only holds are checked.
AvailableHoldsOnly(s, exclude) == ~HoldConflict(s, exclude)

\* assert_property_available_for_stay and get_availability.
Available(s, exclude) == ~ReservationConflict(s) /\ ~HoldConflict(s, exclude)

\* Mutant: the sweep forgets WHERE status = 'active'.
StaleAnyStatus == {h \in Hold : holds[h].status # "none" /\ holds[h].expires < now}

\* The rows expire_stale_holds updates: active and expires_at < now.
Stale == {h \in Hold : holds[h].status = "active" /\ holds[h].expires < now}

\* Mutant: a UNIQUE index on (property, arrival) instead of the EXCLUDE.
InsertConflictSameArrival(s) == Exclusion /\ ReservationConflictSameArrival(s)

\* The EXCLUDE constraint on reservations: a committed overlapping row makes
\* the INSERT fail, an uncommitted one makes it wait.
InsertConflict(s) == Exclusion /\ ReservationConflict(s)
InsertWaitsOn(w, v) ==
    /\ Exclusion
    /\ v # w
    /\ tx[v].new # None
    /\ tx[v].pc = "commit"
    /\ Overlaps(tx[v].stay, tx[w].stay)

\* A hold or reservation id nobody uses (uuid4).
FreshHold(h) == holds[h].status = "none" /\ \A v \in Worker : tx[v].src # h
FreshRes(r)  == res[r].status = "none" /\ \A v \in Worker : tx[v].new # r

-----------------------------------------------------------------------------
(* Transactions.                                                           *)

Unlock(lock, w) == [x \in DOMAIN lock |-> IF lock[x] = w THEN None ELSE lock[x]]

Locks == <<advLock, rowLock>>

ReleaseLocks(w) ==
    /\ advLock' = Unlock(advLock, w)
    /\ rowLock' = Unlock(rowLock, w)

\* Mutant: the advisory lock belongs to the session, not the transaction.
RollBackKeepsAdvisory(w) ==
    /\ tx' = [tx EXCEPT ![w] = NoTx]
    /\ rowLock' = Unlock(rowLock, w)
    /\ UNCHANGED <<holds, res, advLock>>

\* A rolled back transaction leaves no trace in the database.
RollBack(w) ==
    /\ tx' = [tx EXCEPT ![w] = NoTx]
    /\ ReleaseLocks(w)
    /\ UNCHANGED <<holds, res>>

Goto(w, pc) == tx' = [tx EXCEPT ![w].pc = pc]

Begin(w, op, pc, src, s) ==
    /\ tx[w].pc = "idle"
    /\ tx' = [tx EXCEPT ![w] =
                [NoTx EXCEPT !.op = op, !.pc = pc, !.src = src, !.stay = s]]

\* Mutant: the sweep writes a status the table does not know.
ExpiredMisspelt(w) == [h \in Hold |-> IF h \in tx[w].expiring
                                      THEN [holds[h] EXCEPT !.status = "expire"]
                                      ELSE holds[h]]

\* The rows as the commit of w leaves them: stale holds it marked expired.
Expired(w) == [h \in Hold |-> IF h \in tx[w].expiring
                              THEN [holds[h] EXCEPT !.status = "expired"]
                              ELSE holds[h]]

-----------------------------------------------------------------------------
(* POST /quote and POST /book.                                             *)

QuoteStart(w, s) ==
    /\ Begin(w, "quote", "lock", None, s)
    /\ UNCHANGED <<now, holds, res, pi, paid, Locks, acked, told, emitted,
                   crashes>>

BookStart(w, h, s) ==
    /\ FreshHold(h)
    /\ pi[h] = "none"
    /\ Begin(w, "book", "lock", h, s)
    /\ UNCHANGED <<now, holds, res, pi, paid, Locks, acked, told, emitted,
                   crashes>>

\* Mutant: pg_try_advisory_xact_lock with its answer ignored.
AcquireLockTry(w) ==
    /\ tx[w].pc = "lock"
    /\ advLock' = [advLock EXCEPT ![tx[w].stay.prop] = w]
    /\ Goto(w, "expire")
    /\ UNCHANGED <<now, holds, res, pi, paid, rowLock, acked, told, emitted,
                   crashes>>

\* acquire_property_booking_lock
AcquireLock(w) ==
    /\ tx[w].pc = "lock"
    /\ advLock[tx[w].stay.prop] = None
    /\ advLock' = [advLock EXCEPT ![tx[w].stay.prop] = w]
    /\ Goto(w, "expire")
    /\ UNCHANGED <<now, holds, res, pi, paid, rowLock, acked, told, emitted,
                   crashes>>

\* expire_stale_holds: one UPDATE that locks every row it changes.
ExpireStale(w) ==
    /\ tx[w].pc = "expire"
    /\ \A h \in Stale : rowLock[h] \in {None, w}
    /\ tx' = [tx EXCEPT ![w] =
                [@ EXCEPT !.expiring = Stale,
                          !.pc = IF tx[w].op = "quote" THEN "commit" ELSE "check"]]
    /\ rowLock' = [h \in Hold |-> IF h \in Stale THEN w ELSE rowLock[h]]
    /\ UNCHANGED <<now, holds, res, pi, paid, advLock, acked, told, emitted,
                   crashes>>

\* The quote endpoint commits after pricing: only the expirations persist.  A
\* refused quote (FastQuoteError) rolls them back.
QuoteCommit(w) ==
    /\ tx[w].op = "quote"
    /\ tx[w].pc = "commit"
    /\ Available(tx[w].stay, None)
    /\ holds' = Expired(w)
    /\ tx' = [tx EXCEPT ![w] = NoTx]
    /\ ReleaseLocks(w)
    /\ UNCHANGED <<now, res, pi, paid, acked, told, emitted, crashes>>

QuoteRefuse(w) ==
    /\ tx[w].op = "quote"
    /\ tx[w].pc = "commit"
    /\ ~Available(tx[w].stay, None)
    /\ RollBack(w)
    /\ UNCHANGED <<now, pi, paid, acked, told, emitted, crashes>>

\* create_inventory_hold: the availability check, then the INSERT of the hold
\* with its expiry.  With the EXCLUDE constraint an overlapping row that is
\* still "active" (expires_at = now) fails the INSERT.
BookCheck(w) ==
    LET s == tx[w].stay
        Overlapping == {h \in Hold \ tx[w].expiring :
                          holds[h].status = "active" /\ Overlaps(holds[h].stay, s)}
    IN  /\ tx[w].op = "book"
        /\ tx[w].pc = "check"
        /\ \/ /\ Available(s, None)
              /\ ~(Exclusion /\ Overlapping # {})
              /\ tx' = [tx EXCEPT ![w] = [@ EXCEPT !.pc = "pay", !.until = now + TTL]]
              /\ UNCHANGED <<holds, res, Locks>>
           \/ /\ ~Available(s, None) \/ (Exclusion /\ Overlapping # {})
              /\ RollBack(w)
        /\ UNCHANGED <<now, pi, paid, acked, told, emitted, crashes>>

\* Mutant: the stale holds are swept once more after the intent is created.
BookPaySweepsAgain(w) ==
    /\ tx[w].op = "book"
    /\ tx[w].pc = "pay"
    /\ pi' = [pi EXCEPT ![tx[w].src] = "created"]
    /\ Goto(w, IF pi[tx[w].src] = "none" THEN "expire" ELSE "commit")
    /\ UNCHANGED <<now, holds, res, paid, Locks, acked, told, emitted, crashes>>

\* create_payment_intent, keyed by the hold id.  Stripe keeps the intent even
\* if the transaction never commits.
BookPay(w) ==
    /\ tx[w].op = "book"
    /\ tx[w].pc = "pay"
    /\ \/ /\ pi' = [pi EXCEPT ![tx[w].src] = "created"]
          /\ Goto(w, "commit")
          /\ UNCHANGED <<holds, res, Locks>>
       \/ /\ RollBack(w)             \* provider error: 502
          /\ UNCHANGED pi
    /\ UNCHANGED <<now, paid, acked, told, emitted, crashes>>

BookCommit(w) ==
    LET h == tx[w].src
    IN  /\ tx[w].op = "book"
        /\ tx[w].pc = "commit"
        /\ holds' = [Expired(w) EXCEPT ![h] =
                       [status |-> "active", stay |-> tx[w].stay,
                        expires |-> tx[w].until, res |-> None]]
        /\ tx' = [tx EXCEPT ![w] = NoTx]
        /\ ReleaseLocks(w)
        /\ UNCHANGED <<now, res, pi, paid, acked, told, emitted, crashes>>

-----------------------------------------------------------------------------
(* Conversion of a hold: client confirm-hold and the Stripe webhooks.      *)

\* POST /confirm-hold with the hold id the guest was given.
ConfirmStart(w, h) ==
    /\ holds[h].status # "none"
    /\ Begin(w, "client", "row", h, holds[h].stay)
    /\ UNCHANGED <<now, holds, res, pi, paid, Locks, acked, told, emitted,
                   crashes>>

\* Mutant: any hold that is no longer active counts as already processed.
WebhookStartNotActive(w, h, op) ==
    /\ pi[h] = "succeeded"
    /\ holds[h].status # "none"
    /\ IF op = "webhook" /\ holds[h].status # "active"
       THEN tx[w].pc = "idle" /\ acked' = acked \cup {h} /\ UNCHANGED tx
       ELSE Begin(w, op, "row", h, holds[h].stay) /\ UNCHANGED acked
    /\ UNCHANGED <<now, holds, res, pi, paid, Locks, told, emitted, crashes>>

\* Mutant: the 2xx is sent as soon as the event has been received.
WebhookStartAckFirst(w, h, op) ==
    /\ pi[h] = "succeeded"
    /\ holds[h].status # "none"
    /\ acked' = acked \cup {h}
    /\ IF op = "webhook" /\ holds[h].status = "converted"
       THEN tx[w].pc = "idle" /\ UNCHANGED tx
       ELSE Begin(w, op, "row", h, holds[h].stay)
    /\ UNCHANGED <<now, holds, res, pi, paid, Locks, told, emitted, crashes>>

\* A payment_intent.succeeded delivery.  Stripe may deliver it any number of
\* times, to both endpoints.  Only api/stripe_webhooks.py looks at the hold
\* before it opens the finalization.  The row is found by the intent's id: the
\* guest got the client secret after the hold was committed.
WebhookStart(w, h, op) ==
    /\ pi[h] = "succeeded"
    /\ holds[h].status # "none"
    /\ \/ /\ op = "webhook" /\ holds[h].status = "converted"
          /\ tx[w].pc = "idle"
          /\ acked' = acked \cup {h}
          /\ UNCHANGED tx
       \/ /\ ~(op = "webhook" /\ holds[h].status = "converted")
          /\ Begin(w, op, "row", h, holds[h].stay)
          /\ UNCHANGED acked
    /\ UNCHANGED <<now, holds, res, pi, paid, Locks, told, emitted, crashes>>

\* What the caller is told when the finalization succeeds.
Answer(w) ==
    IF tx[w].op = "client"
    THEN told' = told \cup {tx[w].src} /\ UNCHANGED acked
    ELSE acked' = acked \cup {tx[w].src} /\ UNCHANGED told

\* SELECT ... FOR UPDATE on the hold, then the branches of
\* _finalize_locked_hold that return before the advisory lock.
FinalizeRow(w) ==
    LET h == tx[w].src
    IN  /\ tx[w].pc = "row"
        /\ rowLock[h] = None
        /\ \/ /\ holds[h].status = "converted"          \* idempotent answer
              /\ RollBack(w)
              /\ Answer(w)
           \/ /\ \/ holds[h].status = "expired"         \* 410
                 \/ /\ holds[h].status = "active"       \* 402
                    /\ tx[w].op = "client"
                    /\ pi[h] # "succeeded"
              /\ RollBack(w)
              /\ UNCHANGED <<acked, told>>
           \/ /\ holds[h].status = "active"
              /\ tx[w].op = "client" => pi[h] = "succeeded"
              /\ rowLock' = [rowLock EXCEPT ![h] = w]
              /\ Goto(w, "lock")
              /\ UNCHANGED <<holds, res, advLock, acked, told>>
        /\ UNCHANGED <<now, pi, paid, emitted, crashes>>

\* The refreshed hold must still be active and unexpired and the stay still
\* available without counting the hold itself.  Every refusal is raised, so
\* the expirations of this transaction are rolled back with it.
FinalizeCheck(w) ==
    LET h == tx[w].src
        Bookable == /\ holds[h].status = "active"
                    /\ h \notin tx[w].expiring
                    /\ holds[h].expires > now
                    /\ Available(tx[w].stay, h)
    IN  /\ tx[w].op \in Finalizers
        /\ tx[w].pc = "check"
        /\ \/ Bookable /\ Goto(w, "insert") /\ UNCHANGED <<holds, res, Locks>>
           \/ ~Bookable /\ RollBack(w)
        /\ UNCHANGED <<now, pi, paid, acked, told, emitted, crashes>>

\* The INSERT of create_reservation; an exclusion violation becomes a 409 for
\* a finalizer and a 500 for the storefront, a rollback for both.
ReservationInsert(w) ==
    /\ tx[w].pc = "insert"
    /\ \A v \in Worker : ~InsertWaitsOn(w, v)
    /\ \/ /\ InsertConflict(tx[w].stay)
          /\ RollBack(w)
       \/ /\ ~InsertConflict(tx[w].stay)
          /\ \E r \in Res : /\ FreshRes(r)
                            /\ tx' = [tx EXCEPT ![w] =
                                          [@ EXCEPT !.new = r, !.pc = "commit"]]
          /\ UNCHANGED <<holds, res, Locks>>
    /\ UNCHANGED <<now, pi, paid, acked, told, emitted, crashes>>

\* Mutant: the hold is left active after its reservation is made.
FinalizeCommitUnmarked(w) ==
    /\ tx[w].op \in Finalizers
    /\ tx[w].pc = "commit"
    /\ res' = [res EXCEPT ![tx[w].new] = [status |-> "confirmed",
                                  stay |-> tx[w].stay, src |-> tx[w].src]]
    /\ holds' = Expired(w)
    /\ tx' = [tx EXCEPT ![w] = [@ EXCEPT !.pc = "emit", !.expiring = {}]]
    /\ ReleaseLocks(w)
    /\ UNCHANGED <<now, pi, paid, acked, told, emitted, crashes>>

FinalizeCommit(w) ==
    LET h == tx[w].src
        r == tx[w].new
    IN  /\ tx[w].op \in Finalizers
        /\ tx[w].pc = "commit"
        /\ res' = [res EXCEPT ![r] = [status |-> "confirmed",
                                      stay |-> tx[w].stay, src |-> h]]
        /\ holds' = [Expired(w) EXCEPT ![h].status = "converted",
                                       ![h].res = r]
        /\ tx' = [tx EXCEPT ![w] = [@ EXCEPT !.pc = "emit", !.expiring = {}]]
        /\ ReleaseLocks(w)
        /\ UNCHANGED <<now, pi, paid, acked, told, emitted, crashes>>

\* Mutant: publishing is retried when its first answer is lost.
FinalizeEmitRetried(w) ==
    /\ tx[w].pc = "emit"
    /\ emitted' = [emitted EXCEPT ![tx[w].new] = @ + 1]
    /\ \/ Answer(w) /\ tx' = [tx EXCEPT ![w] = NoTx]
       \/ UNCHANGED <<tx, acked, told>>
    /\ UNCHANGED <<now, holds, res, pi, paid, Locks, crashes>>

\* _emit_reservation_confirmed after the commit, then the HTTP answer.
FinalizeEmit(w) ==
    /\ tx[w].pc = "emit"
    /\ emitted' = [emitted EXCEPT ![tx[w].new] = @ + 1]
    /\ Answer(w)
    /\ tx' = [tx EXCEPT ![w] = NoTx]
    /\ UNCHANGED <<now, holds, res, pi, paid, Locks, crashes>>

-----------------------------------------------------------------------------
(* Storefront settlement: no hold, no advisory lock.                       *)

\* The idempotency query on price_breakdown->>'stripe_payment_intent_id'.
StoreStart(w, i) ==
    /\ i \in paid
    /\ \/ /\ \E r \in Res : res[r].status # "none" /\ res[r].src = i
          /\ tx[w].pc = "idle"
          /\ acked' = acked \cup {i}
          /\ UNCHANGED tx
       \/ /\ \A r \in Res : res[r].status = "none" \/ res[r].src # i
          /\ Begin(w, "store", "check", i, StayOfIntent[i])
          /\ UNCHANGED acked
    /\ UNCHANGED <<now, holds, res, pi, paid, Locks, told, emitted, crashes>>

\* get_availability inside create_reservation: two queries, and nothing keeps
\* another transaction from committing between them.  The ValueError of a
\* conflict is logged and the webhook still answers 200.
StoreRefuse(w) ==
    /\ RollBack(w)
    /\ acked' = acked \cup {tx[w].src}

StoreCheckReservations(w) ==
    /\ tx[w].op = "store"
    /\ tx[w].pc = "check"
    /\ \/ /\ ~ReservationConflict(tx[w].stay)
          /\ Goto(w, "holds")
          /\ UNCHANGED <<holds, res, Locks, acked>>
       \/ ReservationConflict(tx[w].stay) /\ StoreRefuse(w)
    /\ UNCHANGED <<now, pi, paid, told, emitted, crashes>>

StoreCheckHolds(w) ==
    /\ tx[w].op = "store"
    /\ tx[w].pc = "holds"
    /\ \/ /\ ~HoldConflict(tx[w].stay, None)
          /\ Goto(w, "insert")
          /\ UNCHANGED <<holds, res, Locks, acked>>
       \/ HoldConflict(tx[w].stay, None) /\ StoreRefuse(w)
    /\ UNCHANGED <<now, pi, paid, told, emitted, crashes>>

StoreCommit(w) ==
    /\ tx[w].op = "store"
    /\ tx[w].pc = "commit"
    /\ res' = [res EXCEPT ![tx[w].new] = [status |-> "confirmed",
                                          stay |-> tx[w].stay,
                                          src |-> tx[w].src]]
    /\ acked' = acked \cup {tx[w].src}
    /\ tx' = [tx EXCEPT ![w] = NoTx]
    /\ ReleaseLocks(w)
    /\ UNCHANGED <<now, holds, pi, paid, told, emitted, crashes>>

-----------------------------------------------------------------------------
(* The rest of the system and the environment.                             *)

\* DirectBookingEngine.cancel_booking: status "cancelled", committed.
CancelBooking(r) ==
    /\ res[r].status = "confirmed"
    /\ res' = [res EXCEPT ![r].status = "cancelled"]
    /\ UNCHANGED <<now, holds, pi, paid, Locks, tx, acked, told, emitted,
                   crashes>>

\* The guest pays with the client secret of a committed hold, even late.
GuestPays(h) ==
    /\ holds[h].status # "none"
    /\ pi[h] = "created"
    /\ pi' = [pi EXCEPT ![h] = "succeeded"]
    /\ UNCHANGED <<now, holds, res, paid, Locks, tx, acked, told, emitted,
                   crashes>>

StorefrontPays(i) ==
    /\ i \notin paid
    /\ paid' = paid \cup {i}
    /\ UNCHANGED <<now, holds, res, pi, Locks, tx, acked, told, emitted,
                   crashes>>

Tick ==
    /\ now < MaxNow
    /\ now' = now + 1
    /\ UNCHANGED <<holds, res, pi, paid, Locks, tx, acked, told, emitted,
                   crashes>>

\* The process or the connection dies: the server rolls back.  After the
\* commit only the event and the answer are lost.
Crash(w) ==
    /\ crashes < MaxCrash
    /\ tx[w].pc # "idle"
    /\ RollBack(w)
    /\ crashes' = crashes + 1
    /\ UNCHANGED <<now, pi, paid, acked, told, emitted>>

\* Who waits for whom, and PostgreSQL's deadlock detector: a session on a
\* cycle of waits is aborted (an uncaught DBAPIError, HTTP 500).
WaitsOn(w, v) ==
    /\ v # w
    /\ \/ tx[w].pc = "lock" /\ advLock[tx[w].stay.prop] = v
       \/ tx[w].pc = "row" /\ rowLock[tx[w].src] = v
       \/ tx[w].pc = "expire" /\ \E h \in Stale : rowLock[h] = v
       \/ tx[w].pc = "insert" /\ InsertWaitsOn(w, v)

OnCycle(w) ==
    \E C \in SUBSET Worker :
        /\ w \in C
        /\ \A v \in C : /\ \E u \in C : WaitsOn(v, u)
                        /\ \E u \in C : WaitsOn(u, v)

DeadlockVictim(w) ==
    /\ OnCycle(w)
    /\ RollBack(w)
    /\ UNCHANGED <<now, pi, paid, acked, told, emitted, crashes>>

-----------------------------------------------------------------------------
\* The steps of a running transaction, in the order of the code.
TxStep(w) ==
    \/ AcquireLock(w)
    \/ ExpireStale(w)
    \/ QuoteCommit(w)
    \/ QuoteRefuse(w)
    \/ BookCheck(w)
    \/ BookPay(w)
    \/ BookCommit(w)
    \/ FinalizeRow(w)
    \/ FinalizeCheck(w)
    \/ ReservationInsert(w)
    \/ FinalizeCommit(w)
    \/ FinalizeEmit(w)
    \/ StoreCheckReservations(w)
    \/ StoreCheckHolds(w)
    \/ StoreCommit(w)
    \/ DeadlockVictim(w)

Request(w) ==
    \/ \E s \in Stay : QuoteStart(w, s)
    \/ \E h \in Hold, s \in Stay : BookStart(w, h, s)
    \/ \E h \in Hold : ConfirmStart(w, h)
    \/ \E h \in Hold, op \in {"webhook", "webhook_direct"} : WebhookStart(w, h, op)
    \/ \E i \in Intent : StoreStart(w, i)

Environment ==
    \/ \E h \in Hold : GuestPays(h)
    \/ \E i \in Intent : StorefrontPays(i)
    \/ \E r \in Res : CancelBooking(r)
    \/ Tick

Next ==
    \/ \E w \in Worker : TxStep(w) \/ Request(w) \/ Crash(w)
    \/ Environment

Spec == Init /\ [][Next]_vars

\* PostgreSQL grants lock requests in arrival order, so a transaction that can
\* run again and again does run.  Stripe redelivers an event until a 2xx.
Fairness ==
    /\ \A w \in Worker : SF_vars(TxStep(w))
    /\ \A h \in Hold : SF_vars(h \notin acked /\ \E w \in Worker :
                                                WebhookStart(w, h, "webhook"))

FairSpec == Spec /\ Fairness

-----------------------------------------------------------------------------
(* Properties.                                                             *)

LiveHold(h) == holds[h].status = "active" /\ holds[h].expires > now

\* Two reservations that occupy nights of the same property never overlap,
\* whichever of the two webhooks, the client call and the storefront made them.
NoDoubleBooking ==
    \A r, q \in Res :
        /\ r # q
        /\ res[r].status \in Occupying
        /\ res[q].status \in Occupying
        => ~Overlaps(res[r].stay, res[q].stay)

\* "Dates are locked for TTL": while a committed hold is active and unexpired,
\* no reservation occupies its nights and no other live hold overlaps it, so
\* the guest who pays in time cannot be refused for the dates.
DatesLockedForTTL ==
    \A h \in Hold : LiveHold(h) =>
        /\ ~ReservationConflict(holds[h].stay)
        /\ ~HoldConflict(holds[h].stay, h)

\* The client confirmation, the two webhooks and their duplicates race to
\* convert a hold: at most one reservation ever comes out of it, a cancelled
\* one included, and the hold row points at that reservation.
OneReservationPerHold ==
    \A h \in Hold, r \in Res :
        res[r].status # "none" /\ res[r].src = h
            => holds[h].status = "converted" /\ holds[h].res = r

\* A webhook answered with a 2xx and a guest told "booked" have a reservation
\* that was committed first: Stripe will not deliver the event again.
AnsweredMeansBooked ==
    \A h \in (acked \cup told) \cap Hold :
        \E r \in Res : res[r].status # "none" /\ res[r].src = h

\* reservation.confirmed is published at most once for a reservation and
\* never for one that was rolled back.
EventsFollowBookings ==
    \A r \in Res :
        /\ emitted[r] <= 1
        /\ emitted[r] > 0 => res[r].status # "none"

\* The session PostgreSQL aborts to break a deadlock loses nothing: a booking
\* has no PaymentIntent yet (the guest of a hold that never existed cannot be
\* charged), a finalizer has inserted no reservation, and the hold it was
\* converting is still there for the next delivery.
DeadlocksCostNothing ==
    \A w \in Worker : OnCycle(w) =>
        /\ tx[w].new = None
        /\ tx[w].op = "book" => pi[tx[w].src] = "none"
        /\ tx[w].op \in Finalizers => holds[tx[w].src].status = "active"

\* A converted hold stays converted to the same reservation, whatever the
\* expiry sweep and late finalizers of other sessions do.
ConvertedIsFinal ==
    [][\A h \in Hold : holds[h].status = "converted" =>
          holds'[h].status = "converted" /\ holds'[h].res = holds[h].res]_vars

\* The lock-order inversion between booking and finalizing (advisory lock and
\* hold row taken in opposite orders) never leaves a request waiting forever.
RequestsEnd == \A w \in Worker : tx[w].pc # "idle" ~> tx[w].pc = "idle"

\* A hold paid for is converted unless its fifteen minutes are over.
PaidHoldSettles ==
    \A h \in Hold : pi[h] = "succeeded" ~>
        holds[h].status # "active" \/ holds[h].expires <= now

-----------------------------------------------------------------------------
(* The checkout implements StayInventory.  A hold stands while it is live, *)
(* and past its expiry only while a finalizer that found it live is still  *)
(* converting it under the advisory lock.                                  *)

Converting(h) ==
    \E w \in Worker : /\ tx[w].op \in Finalizers
                     /\ tx[w].pc \in {"insert", "commit"}
                     /\ tx[w].src = h

HoldStands(h) == /\ holds[h].status = "active"
                 /\ holds[h].expires > now \/ Converting(h)

ReservationStands(h) == /\ holds[h].status = "converted"
                        /\ res[holds[h].res].status \in Occupying

ClaimOf(h) ==
    [state |-> IF holds[h].status = "none" THEN "free"
               ELSE IF HoldStands(h) THEN "held"
               ELSE IF ReservationStands(h) THEN "booked"
               ELSE "gone",
     stay |-> holds[h].stay]

Claims == [h \in Hold |-> ClaimOf(h)]

Inventory == INSTANCE StayInventory WITH Claim <- Hold, claim <- Claims

\* Quotes, holds, finalizers, crashes and the clock together only place a claim
\* where none stands and book a claim that stands.
ImplementsInventory == Inventory!InventorySpec

=============================================================================
