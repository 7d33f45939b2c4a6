----------------------- MODULE DirectBookingRefinement -----------------------
(***************************************************************************)
(* DirectBooking implements StayInventory, and so inherits its promise     *)
(* that no night is claimed twice; a conversion is final; what was         *)
(* answered and announced is so.                                           *)
(***************************************************************************)
EXTENDS DirectBookingClaims

-----------------------------------------------------------------------------
(* Conversions are final.                                                  *)

\* A step leaves the rows alone or commits one of the three transactions that
\* write holds.
LEMMA HoldsWriters ==
    ASSUME [Next]_vars
    PROVE  \/ holds' = holds
           \/ \E w \in Worker : QuoteCommit(w) \/ BookCommit(w) \/ FinalizeCommit(w)
<1>1. ASSUME NEW w \in Worker, TxStep(w),
             ~(QuoteCommit(w) \/ BookCommit(w) \/ FinalizeCommit(w))
      PROVE  holds' = holds
  <2>1. CASE AcquireLock(w) \/ ExpireStale(w) \/ QuoteRefuse(w)
    BY <2>1 DEF AcquireLock, ExpireStale, QuoteRefuse, RollBack
  <2>2. CASE BookCheck(w) \/ BookPay(w) \/ FinalizeRow(w) \/ FinalizeCheck(w)
    BY <2>2 DEF BookCheck, BookPay, FinalizeRow, FinalizeCheck, RollBack
  <2>3. CASE ReservationInsert(w) \/ FinalizeEmit(w) \/ DeadlockVictim(w)
    BY <2>3 DEF ReservationInsert, FinalizeEmit, DeadlockVictim, RollBack
  <2>4. CASE StoreCheckReservations(w) \/ StoreCheckHolds(w) \/ StoreCommit(w)
    BY <2>4 DEF StoreCheckReservations, StoreCheckHolds, StoreRefuse, StoreCommit, RollBack
  <2> QED BY <1>1, <2>1, <2>2, <2>3, <2>4 DEF TxStep
<1>2. ASSUME NEW w \in Worker, Request(w) PROVE holds' = holds
  BY <1>2 DEF Request, QuoteStart, BookStart, ConfirmStart, WebhookStart, StoreStart
<1>3. ASSUME NEW w \in Worker, Crash(w) PROVE holds' = holds
  BY <1>3 DEF Crash, RollBack
<1>4. ASSUME Environment PROVE holds' = holds
  BY <1>4 DEF Environment, GuestPays, StorefrontPays, CancelBooking, Tick
<1>5. CASE UNCHANGED vars
  BY <1>5 DEF vars
<1> QED BY <1>1, <1>2, <1>3, <1>4, <1>5 DEF Next

\* No commit touches a converted hold.
LEMMA ConvertedStep ==
    ASSUME TypeOK, Bookkeeping, [Next]_vars, NEW h \in Hold, holds[h].status = "converted"
    PROVE  holds'[h] = holds[h]
<1>1. ASSUME NEW w \in Worker, QuoteCommit(w) PROVE holds'[h] = holds[h]
  BY <1>1, ExpiredRows DEF QuoteCommit
<1>2. ASSUME NEW w \in Worker, BookCommit(w) PROVE holds'[h] = holds[h]
  <2>1. tx[w].src # h
    BY <1>2 DEF BookCommit, Bookkeeping, HoldIdsFresh
  <2>2. holds'[h] = Expired(w)[h]
    BY <1>2, <2>1 DEF BookCommit, Expired
  <2> QED BY <2>2, ExpiredRows
<1>3. ASSUME NEW w \in Worker, FinalizeCommit(w) PROVE holds'[h] = holds[h]
  <2>1. tx[w].src # h
    BY <1>3 DEF FinalizeCommit, Bookkeeping, RowLockOwned, OwnsHold
  <2>2. holds'[h] = Expired(w)[h]
    BY <1>3, <2>1 DEF FinalizeCommit, Expired
  <2> QED BY <2>2, ExpiredRows
<1> QED BY <1>1, <1>2, <1>3, HoldsWriters

\* The expiry sweep and the losers of the race between the client call and the
\* webhooks never undo or redirect a conversion.
THEOREM ConversionIsFinal == Spec => ConvertedIsFinal
<1>1. (TypeOK /\ Bookkeeping) /\ [Next]_vars =>
         [\A h \in Hold : holds[h].status = "converted" =>
             holds'[h].status = "converted" /\ holds'[h].res = holds[h].res]_vars
  BY ConvertedStep
<1> QED BY <1>1, BookkeepingInvariant, PTL DEF Spec, ConvertedIsFinal

-----------------------------------------------------------------------------
(* The refinement.                                                         *)

\* The abstract state of a claim, case by case.
LEMMA ClaimCases ==
    ASSUME NEW h \in Hold
    PROVE  /\ ClaimOf(h).stay = holds[h].stay
           /\ holds[h].status = "none" => ClaimOf(h).state = "free"
           /\ HoldStands(h) => ClaimOf(h).state = "held"
           /\ ReservationStands(h) => ClaimOf(h).state = "booked"
           /\ holds[h].status # "none" /\ ~Stands(h) => ClaimOf(h).state = "gone"
           /\ Claims[h] = ClaimOf(h)
           /\ Inventory!Standing(h) <=> Stands(h)
BY DEF ClaimOf, Stands, HoldStands, ReservationStands, Claims, Inventory!Standing

\* Claims that stop standing are released together.
LEMMA ShrinkReleases ==
    ASSUME ClaimsShrink
    PROVE  [Inventory!ClaimNext]_Claims
<1> DEFINE C == {h \in Hold : Claims'[h] # Claims[h]}
<1>0. \A h \in Hold : Claims[h] = ClaimOf(h) /\ Claims'[h] = ClaimOf(h)'
  BY DEF Claims
<1>1. ASSUME NEW h \in Hold, Stands(h)' \/ ~Stands(h)
      PROVE  ClaimOf(h)' = ClaimOf(h)
  <2>1. /\ holds'[h].stay = holds[h].stay
        /\ holds'[h].status = "none" <=> holds[h].status = "none"
        /\ Stands(h)' <=> Stands(h)
        /\ Stands(h) => holds'[h].status = holds[h].status
    BY <1>1 DEF ClaimsShrink
  <2>2. /\ HoldStands(h)' <=> HoldStands(h)
        /\ ReservationStands(h)' <=> ReservationStands(h)
    BY <2>1 DEF Stands, HoldStands, ReservationStands
  <2> QED BY <2>1, <2>2 DEF ClaimOf
<1>2. ASSUME NEW h \in Hold, Stands(h), ~Stands(h)'
      PROVE  ClaimOf(h)' = [ClaimOf(h) EXCEPT !.state = "gone"]
  <2>1. /\ holds'[h].stay = holds[h].stay
        /\ holds'[h].status # "none"
        /\ ~HoldStands(h)' /\ ~ReservationStands(h)'
    BY <1>2 DEF ClaimsShrink, Stands, HoldStands, ReservationStands
  <2> QED BY <2>1 DEF ClaimOf
<1>3. \A h \in C : Inventory!Standing(h) /\ Claims'[h] = [Claims[h] EXCEPT !.state = "gone"]
  BY <1>0, <1>1, <1>2, ClaimCases
<1>4. Claims' = [h \in Hold |-> IF h \in C THEN [Claims[h] EXCEPT !.state = "gone"]
                                          ELSE Claims[h]]
  BY <1>3 DEF Claims
<1>5. CASE C = {}
  <2>1. Claims' = Claims
    BY <1>0, <1>5 DEF Claims
  <2> QED BY <2>1
<1>6. CASE C # {}
  <2>1. Inventory!Release(C)
    BY <1>3, <1>4, <1>6 DEF Inventory!Release
  <2>2. C \in SUBSET Hold
    OBVIOUS
  <2> QED BY <2>1, <2>2 DEF Inventory!ClaimNext
<1> QED BY <1>5, <1>6

-----------------------------------------------------------------------------
(* Swept rows are past their expiry.                                       *)

\* Only the sweep adds to the rows a session will mark expired.
LEMMA ExpiringStep ==
    ASSUME TypeOK, [Next]_vars, NEW v \in Worker, ~ExpireStale(v)
    PROVE  tx'[v].expiring \subseteq tx[v].expiring
<1>1. CASE UNCHANGED tx
  BY <1>1
<1>2. ASSUME NEW w \in Worker, tx' = [tx EXCEPT ![w] = NoTx]
      PROVE  tx'[v].expiring \subseteq tx[v].expiring
  BY <1>2, NoTxFields DEF TypeOK
<1>3. ASSUME NEW w \in Worker, RollBack(w)
      PROVE  tx'[v].expiring \subseteq tx[v].expiring
  BY <1>2, <1>3 DEF RollBack
<1>4. ASSUME NEW w \in Worker, NEW op, NEW pc, NEW src, NEW s, Begin(w, op, pc, src, s)
      PROVE  tx'[v].expiring \subseteq tx[v].expiring
  <2>1. /\ \A u \in Worker \ {w} : tx'[u] = tx[u]
        /\ tx'[w].expiring = {}
    BY <1>4 DEF Begin, TypeOK, NoTx
  <2> QED BY <2>1
<1>5. ASSUME NEW w \in Worker, NEW pc, Goto(w, pc)
      PROVE  tx'[v].expiring \subseteq tx[v].expiring
  <2>1. /\ \A u \in Worker \ {w} : tx'[u] = tx[u]
        /\ tx'[w].expiring = tx[w].expiring
    BY <1>5, GotoFields
  <2> QED BY <2>1
<1>6. ASSUME NEW w \in Worker, TxStep(w)
      PROVE  tx'[v].expiring \subseteq tx[v].expiring
  <2>b. CASE RollBack(w)
    BY <1>3, <2>b
  <2>1. CASE \/ QuoteCommit(w) \/ BookCommit(w) \/ FinalizeEmit(w) \/ StoreCommit(w)
    BY <1>2, <2>1 DEF QuoteCommit, BookCommit, FinalizeEmit, StoreCommit
  <2>2. CASE AcquireLock(w) \/ ((BookPay(w) \/ FinalizeRow(w)) /\ ~RollBack(w))
    BY <1>5, <2>2 DEF AcquireLock, BookPay, FinalizeRow
  <2>3. CASE (FinalizeCheck(w) \/ StoreCheckReservations(w) \/ StoreCheckHolds(w)) /\ ~RollBack(w)
    BY <1>5, <2>3 DEF FinalizeCheck, StoreCheckReservations, StoreCheckHolds, StoreRefuse
  <2>4. CASE ExpireStale(w)
    BY <2>4, ExpireStaleFields
  <2>5. CASE BookCheck(w) /\ ~RollBack(w)
    BY <2>5, BookCheckFields
  <2>6. CASE ReservationInsert(w) /\ ~RollBack(w)
    BY <2>6, InsertFields
  <2>7. CASE FinalizeCommit(w)
    BY <2>7, FinalizeCommitFields
  <2>8. CASE QuoteRefuse(w) \/ DeadlockVictim(w)
    BY <1>3, <2>8 DEF QuoteRefuse, DeadlockVictim
  <2> QED BY <1>6, <2>b, <2>1, <2>2, <2>3, <2>4, <2>5, <2>6, <2>7, <2>8 DEF TxStep
<1>7. ASSUME NEW w \in Worker, Request(w)
      PROVE  tx'[v].expiring \subseteq tx[v].expiring
  BY <1>1, <1>4, <1>7 DEF Request, QuoteStart, BookStart, ConfirmStart, WebhookStart, StoreStart
<1>8. ASSUME NEW w \in Worker, Crash(w)
      PROVE  tx'[v].expiring \subseteq tx[v].expiring
  BY <1>3, <1>8 DEF Crash
<1>9. ASSUME Environment PROVE tx' = tx
  BY <1>9 DEF Environment, GuestPays, StorefrontPays, CancelBooking, Tick
<1> QED BY <1>1, <1>6, <1>7, <1>8, <1>9 DEF Next, vars

\* The expiry of a committed row never changes.
LEMMA ExpiryIsFixed ==
    ASSUME TypeOK, Bookkeeping, [Next]_vars, NEW h \in Hold, holds[h].status # "none"
    PROVE  holds'[h].expires = holds[h].expires
<1>1. ASSUME NEW w \in Worker, QuoteCommit(w) PROVE holds'[h].expires = holds[h].expires
  BY <1>1, ExpiredRows DEF QuoteCommit
<1>2. ASSUME NEW w \in Worker, BookCommit(w) PROVE holds'[h].expires = holds[h].expires
  <2>1. tx[w].src # h
    BY <1>2 DEF BookCommit, Bookkeeping, HoldIdsFresh
  <2>2. holds'[h] = Expired(w)[h]
    BY <1>2, <2>1 DEF BookCommit, Expired
  <2> QED BY <2>2, ExpiredRows
<1>3. ASSUME NEW w \in Worker, FinalizeCommit(w) PROVE holds'[h].expires = holds[h].expires
  <2>1. Expired(w) \in [Hold -> HoldRow] /\ Expired(w)[h].expires = holds[h].expires
    BY ExpiredType, ExpiredRows
  <2> QED BY <1>3, <2>1 DEF FinalizeCommit, HoldRow
<1> QED BY <1>1, <1>2, <1>3, HoldsWriters

\* The clock never goes back.
LEMMA ClockStep ==
    ASSUME TypeOK, [Next]_vars
    PROVE  now' \in Nat /\ now <= now'
<1>1. ASSUME NEW w \in Worker, TxStep(w) PROVE now' = now
  <2>1. CASE \/ AcquireLock(w) \/ ExpireStale(w) \/ QuoteCommit(w) \/ QuoteRefuse(w)
             \/ DeadlockVictim(w)
    BY <2>1 DEF AcquireLock, ExpireStale, QuoteCommit, QuoteRefuse, DeadlockVictim
  <2>2. CASE BookCheck(w) \/ BookPay(w) \/ BookCommit(w)
    BY <2>2 DEF BookCheck, BookPay, BookCommit
  <2>3. CASE FinalizeRow(w) \/ FinalizeCheck(w) \/ ReservationInsert(w)
    BY <2>3 DEF FinalizeRow, FinalizeCheck, ReservationInsert
  <2>4. CASE FinalizeCommit(w) \/ FinalizeEmit(w)
    BY <2>4 DEF FinalizeCommit, FinalizeEmit
  <2>5. CASE StoreCheckReservations(w) \/ StoreCheckHolds(w) \/ StoreCommit(w)
    BY <2>5 DEF StoreCheckReservations, StoreCheckHolds, StoreRefuse, StoreCommit
  <2> QED BY <1>1, <2>1, <2>2, <2>3, <2>4, <2>5 DEF TxStep
<1>2. ASSUME NEW w \in Worker, Request(w) PROVE now' = now
  BY <1>2 DEF Request, QuoteStart, BookStart, ConfirmStart, WebhookStart, StoreStart
<1>3. ASSUME NEW w \in Worker, Crash(w) PROVE now' = now
  BY <1>3 DEF Crash
<1>4. ASSUME Environment PROVE now' = now \/ now' = now + 1
  BY <1>4 DEF Environment, GuestPays, StorefrontPays, CancelBooking, Tick
<1>5. ASSUME UNCHANGED vars PROVE now' = now
  BY <1>5 DEF vars
<1>6. now' = now \/ now' = now + 1
  BY <1>1, <1>2, <1>3, <1>4, <1>5 DEF Next
<1> QED BY <1>6 DEF TypeOK

LEMMA SweptStep ==
    ASSUME TypeOK, Bookkeeping, SweptAreOver, [Next]_vars
    PROVE  SweptAreOver'
<1> SUFFICES ASSUME NEW v \in Worker, NEW h \in tx'[v].expiring
             PROVE  holds'[h].expires < now'
  BY DEF SweptAreOver
<1>1. CASE ExpireStale(v)
  <2>1. holds[h].expires < now /\ holds' = holds /\ now' = now
    BY <1>1, ExpireStaleFields DEF ExpireStale, Stale
  <2> QED BY <2>1
<1>2. CASE ~ExpireStale(v)
  <2>1. h \in tx[v].expiring /\ h \in Hold
    BY <1>2, ExpiringStep, TxFields
  <2>2. holds[h].expires < now /\ holds[h].status = "active"
    BY <2>1 DEF SweptAreOver, Bookkeeping, RowLockOwned
  <2>3. holds'[h].expires = holds[h].expires
    BY <2>1, <2>2, ExpiryIsFixed
  <2>4. holds[h].expires \in Nat /\ now \in Nat
    BY <2>1 DEF TypeOK, HoldRow
  <2> QED BY <2>2, <2>3, <2>4, ClockStep
<1> QED BY <1>1, <1>2

-----------------------------------------------------------------------------
(* The two steps that place and book claims.                               *)

\* The other holds keep their abstract state when a transaction commits.
LEMMA CommitClaims ==
    ASSUME TypeOK, Bookkeeping, SweptAreOver, NEW w \in Worker, now' = now,
           \A v \in Worker \ {w} : tx'[v] = tx[v],
           ~(tx'[w].op \in Finalizers /\ tx'[w].pc \in {"insert", "commit"}),
           \A r \in Res : res[r].status # "none" => res'[r] = res[r],
           NEW g \in Hold, holds'[g] = Expired(w)[g],
           tx[w].src # g \/ tx[w].op = "book"
    PROVE  ClaimOf(g)' = ClaimOf(g)
<1>1. holds'[g].stay = holds[g].stay
  BY ExpiredRows
<1>2. CASE g \in tx[w].expiring
  <2>1. holds'[g].status = "expired" /\ holds[g].status = "active" /\ rowLock[g] = w
    BY <1>2, ExpiredRows
  <2>2. ~(holds[g].expires > now)
    BY <1>2 DEF SweptAreOver, TypeOK, HoldRow
  <2>3. ~Converting(g)
    BY <2>1 DEF Converting, Bookkeeping, RowLockOwned, OwnsHold, Finalizers
  <2> QED BY <1>1, <2>1, <2>2, <2>3 DEF ClaimOf, HoldStands, ReservationStands
<1>3. CASE g \notin tx[w].expiring
  <2>1. holds'[g] = holds[g]
    BY <1>3, ExpiredRows
  <2>2. Converting(g)' <=> Converting(g)
    BY DEF Converting, Finalizers
  <2>3. holds[g].status = "converted" => res'[holds[g].res] = res[holds[g].res]
    BY DEF Bookkeeping, ReservationSources
  <2> QED BY <2>1, <2>2, <2>3 DEF ClaimOf, HoldStands, ReservationStands
<1> QED BY <1>2, <1>3

\* The commit of a booking places a claim, or one that has lapsed already.
LEMMA BookCommitPlaces ==
    ASSUME TypeOK, Bookkeeping, SweptAreOver, ClaimsDisjoint, NEW w \in Worker, BookCommit(w)
    PROVE  \E h \in Hold, s \in Stay : Inventory!Place(h, s) \/ Inventory!Lapse(h, s)
<1> DEFINE row == [status |-> "active", stay |-> tx[w].stay,
                   expires |-> tx[w].until, res |-> None]
<1>0. PICK h \in Hold, s \in Stay : h = tx[w].src /\ s = tx[w].stay
  BY TxFields DEF BookCommit, Bookkeeping, TxShape, WellFormed
<1>1. /\ tx[w].op = "book" /\ tx[w].pc = "commit"
      /\ holds[h].status = "none"
      /\ tx'[w] = NoTx
      /\ \A v \in Worker \ {w} : tx'[v] = tx[v]
      /\ res' = res /\ now' = now
      /\ holds' = [Expired(w) EXCEPT ![h] = row]
  BY <1>0 DEF BookCommit, TypeOK, Bookkeeping, HoldIdsFresh
<1>2. \A g \in Hold : holds'[g] = IF g = h THEN row ELSE Expired(w)[g]
  BY <1>1 DEF Expired
<1>3. \A g \in Hold \ {h} : ClaimOf(g)' = ClaimOf(g)
  BY <1>0, <1>1, <1>2, NoTxFields, CommitClaims
<1>4. ClaimOf(h).state = "free"
  BY <1>1 DEF ClaimOf
<1>5. ASSUME NEW d \in Hold, Inventory!Standing(d)
      PROVE  ~Overlaps(ClaimOf(d).stay, s)
  <2>1. Stands(d) /\ Placing(w) /\ ClaimOf(d).stay = holds[d].stay
    BY <1>1, <1>5, ClaimCases DEF Placing
  <2> QED BY <1>0, <2>1 DEF ClaimsDisjoint
<1>6. PICK state \in {"held", "gone"} : ClaimOf(h)' = [state |-> state, stay |-> s]
  <2>1. holds'[h].status = "active" /\ holds'[h].stay = s
    BY <1>0, <1>2
  <2> QED BY <2>1 DEF ClaimOf, ReservationStands
<1>7. Claims' = [Claims EXCEPT ![h] = [state |-> state, stay |-> s]]
  BY <1>3, <1>6 DEF Claims
<1>8. \A g \in Hold : Claims[g] = ClaimOf(g)
  BY DEF Claims
<1>9. Inventory!Place(h, s) \/ Inventory!Lapse(h, s)
  <2>1. CASE state = "held"
    <3>1. \A d \in Hold : Inventory!Standing(d) => ~Overlaps(Claims[d].stay, s)
      BY <1>5, <1>8
    <3>2. Claims[h].state = "free" /\ Claims' = [Claims EXCEPT ![h] = [state |-> "held", stay |-> s]]
      BY <1>4, <1>7, <1>8, <2>1
    <3> QED BY <3>1, <3>2 DEF Inventory!Place, Inventory!Overlaps, Overlaps
  <2>2. CASE state = "gone"
    <3>1. Claims[h].state = "free" /\ Claims' = [Claims EXCEPT ![h] = [state |-> "gone", stay |-> s]]
      BY <1>4, <1>7, <1>8, <2>2
    <3> QED BY <3>1 DEF Inventory!Lapse
  <2> QED BY <1>6, <2>1, <2>2
<1> QED BY <1>9

\* The commit of a conversion books the claim that stood as a hold.
LEMMA FinalizeCommitBooks ==
    ASSUME TypeOK, Bookkeeping, SweptAreOver, NEW w \in Worker, FinalizeCommit(w)
    PROVE  \E h \in Hold : Inventory!Book(h)
<1>0. PICK h \in Hold, r \in Res : h = tx[w].src /\ r = tx[w].new
  BY FinalizeCommitFields, TxFields DEF Bookkeeping, TxShape, WellFormed
<1>1. /\ tx[w].op \in Finalizers /\ tx[w].pc = "commit" /\ tx[w].stay = holds[h].stay
      /\ holds[h].status = "active" /\ res[r].status = "none"
  <2>1. tx[w].op \in Finalizers /\ tx[w].pc = "commit" /\ OwnsHold(w) /\ tx[w].new # None
    BY <1>0, FinalizeCommitFields, NoneIsNoId DEF OwnsHold
  <2> QED BY <1>0, <2>1 DEF Bookkeeping, RowLockOwned, ResIdsFresh, HoldIdsFresh
<1>c. /\ tx'[w].pc = "emit"
      /\ \A v \in Worker \ {w} : tx'[v] = tx[v]
      /\ now' = now
      /\ holds' = [Expired(w) EXCEPT ![h].status = "converted", ![h].res = r]
      /\ res' = [res EXCEPT ![r] = [status |-> "confirmed", stay |-> tx[w].stay, src |-> h]]
  BY <1>0, FinalizeCommitFields DEF FinalizeCommit
<1>2. /\ res'[r].status = "confirmed"
      /\ \A q \in Res \ {r} : res'[q] = res[q]
  BY <1>c DEF TypeOK
<1>3. /\ \A g \in Hold \ {h} : holds'[g] = Expired(w)[g]
      /\ holds'[h].status = "converted" /\ holds'[h].res = r
      /\ holds'[h].stay = holds[h].stay
  <2>1. Expired(w) \in [Hold -> HoldRow] /\ Expired(w)[h].stay = holds[h].stay
    BY ExpiredType, ExpiredRows
  <2> QED BY <1>c, <2>1 DEF HoldRow
<1>4. \A g \in Hold \ {h} : ClaimOf(g)' = ClaimOf(g)
  BY <1>0, <1>1, <1>c, <1>2, <1>3, CommitClaims
<1>5. ClaimOf(h) = [state |-> "held", stay |-> holds[h].stay]
  BY <1>0, <1>1 DEF ClaimOf, HoldStands, Converting
<1>6. ClaimOf(h)' = [state |-> "booked", stay |-> holds[h].stay]
  BY <1>2, <1>3 DEF ClaimOf, HoldStands, ReservationStands, Occupying
<1>7. Claims' = [Claims EXCEPT ![h].state = "booked"] /\ Claims[h].state = "held"
  <2>1. /\ \A g \in Hold : Claims[g] = ClaimOf(g) /\ Claims'[g] = ClaimOf(g)'
        /\ Claims = [g \in Hold |-> Claims[g]] /\ Claims' = [g \in Hold |-> Claims'[g]]
    BY DEF Claims
  <2>2. Claims'[h] = [Claims[h] EXCEPT !.state = "booked"]
    BY <1>5, <1>6, <2>1
  <2>3. \A g \in Hold \ {h} : Claims'[g] = Claims[g]
    BY <1>4, <2>1
  <2> QED BY <1>5, <2>1, <2>2, <2>3
<1> QED BY <1>7 DEF Inventory!Book

\* The checkout implements the inventory: guests are promised nights that
\* nobody else was promised, for any number of sessions, crashes and duplicated
\* webhooks, storefront settlements included.
THEOREM CheckoutImplementsInventory == Spec => ImplementsInventory
<1>1. Init => Inventory!ClaimInit
  <2> SUFFICES ASSUME Init PROVE Inventory!ClaimInit
    OBVIOUS
  <2>1. \A h \in Hold : ClaimOf(h) = [state |-> "free", stay |-> SomeStay]
    BY DEF Init, ClaimOf
  <2> QED BY <2>1, SomeStayIsAStay DEF Claims, Inventory!ClaimInit
<1>2. Init => SweptAreOver
  BY NoTxFields DEF Init, SweptAreOver
<1>3. (TypeOK /\ Bookkeeping /\ ClaimsDisjoint) /\ SweptAreOver /\ [Next]_vars => SweptAreOver'
  BY SweptStep
<1>4. (TypeOK /\ Bookkeeping /\ ClaimsDisjoint) /\ SweptAreOver /\ [Next]_vars
         => [Inventory!ClaimNext]_Claims
  <2> SUFFICES ASSUME TypeOK, Bookkeeping, ClaimsDisjoint, SweptAreOver, [Next]_vars
               PROVE  [Inventory!ClaimNext]_Claims
    OBVIOUS
  <2>1. CASE \E w \in Worker : BookCommit(w)
    BY <2>1, BookCommitPlaces DEF Inventory!ClaimNext
  <2>2. CASE \E w \in Worker : FinalizeCommit(w)
    BY <2>2, FinalizeCommitBooks DEF Inventory!ClaimNext
  <2>3. CASE \A w \in Worker : ~BookCommit(w) /\ ~FinalizeCommit(w)
    BY <2>3, QuietStep, ShrinkReleases
  <2> QED BY <2>1, <2>2, <2>3
<1> QED BY <1>1, <1>2, <1>3, <1>4, ClaimsInvariant, PTL
        DEF Spec, ImplementsInventory, Inventory!InventorySpec

-----------------------------------------------------------------------------
(* What the inventory promises.                                            *)

ClaimType == Claims \in [Hold -> [state: Inventory!ClaimState, stay: Stay]]

\* A step of the inventory keeps standing claims apart.
LEMMA InventoryStep ==
    ASSUME ClaimType, Inventory!NothingPromisedTwice, Inventory!ClaimNext
    PROVE  ClaimType' /\ Inventory!NothingPromisedTwice'
<1> USE DEF ClaimType, Inventory!ClaimState, Inventory!Standing, Inventory!NothingPromisedTwice
<1>1. ASSUME NEW c \in Hold, NEW s \in Stay, Inventory!Place(c, s)
      PROVE  ClaimType' /\ Inventory!NothingPromisedTwice'
  <2>1. Claims' = [Claims EXCEPT ![c] = [state |-> "held", stay |-> s]]
    BY <1>1 DEF Inventory!Place
  <2>2. /\ ClaimType' /\ Claims'[c].stay = s
        /\ \A d \in Hold \ {c} : Claims'[d] = Claims[d]
    BY <2>1
  <2>3. \A d \in Hold : Inventory!Standing(d) => ~Inventory!Overlaps(Claims[d].stay, s)
    BY <1>1 DEF Inventory!Place
  <2>4. \A d \in Hold : Inventory!Standing(d) => ~Inventory!Overlaps(s, Claims[d].stay)
    BY <2>3 DEF Inventory!Overlaps
  <2> QED BY <2>2, <2>3, <2>4
<1>2. ASSUME NEW c \in Hold, NEW s \in Stay, Inventory!Lapse(c, s)
      PROVE  ClaimType' /\ Inventory!NothingPromisedTwice'
  <2>1. Claims' = [Claims EXCEPT ![c] = [state |-> "gone", stay |-> s]]
    BY <1>2 DEF Inventory!Lapse
  <2>2. /\ ClaimType' /\ Claims'[c].state = "gone"
        /\ \A d \in Hold \ {c} : Claims'[d] = Claims[d]
    BY <2>1
  <2> QED BY <2>2
<1>3. ASSUME NEW c \in Hold, Inventory!Book(c)
      PROVE  ClaimType' /\ Inventory!NothingPromisedTwice'
  <2>1. Claims[c].state = "held" /\ Claims' = [Claims EXCEPT ![c].state = "booked"]
    BY <1>3 DEF Inventory!Book
  <2>2. /\ ClaimType' /\ Claims'[c].stay = Claims[c].stay
        /\ \A d \in Hold \ {c} : Claims'[d] = Claims[d]
    BY <2>1
  <2> QED BY <2>1, <2>2
<1>4. ASSUME NEW C \in SUBSET Hold, Inventory!Release(C)
      PROVE  ClaimType' /\ Inventory!NothingPromisedTwice'
  <2>1. Claims' = [c \in Hold |-> IF c \in C THEN [Claims[c] EXCEPT !.state = "gone"]
                                  ELSE Claims[c]]
    BY <1>4 DEF Inventory!Release
  <2>2. /\ ClaimType'
        /\ \A c \in C : Claims'[c].state = "gone"
        /\ \A c \in Hold \ C : Claims'[c] = Claims[c]
    BY <2>1
  <2> QED BY <2>2
<1> QED BY <1>1, <1>2, <1>3, <1>4 DEF Inventory!ClaimNext

\* The inventory keeps its promise, whatever implements it.
THEOREM InventoryIsSafe == Inventory!InventorySpec => []Inventory!NothingPromisedTwice
<1>1. Inventory!ClaimInit => ClaimType /\ Inventory!NothingPromisedTwice
  BY DEF Inventory!ClaimInit, ClaimType, Inventory!ClaimState, Inventory!Standing,
         Inventory!NothingPromisedTwice
<1>2. ClaimType /\ Inventory!NothingPromisedTwice /\ [Inventory!ClaimNext]_Claims
         => ClaimType' /\ Inventory!NothingPromisedTwice'
  BY InventoryStep DEF ClaimType, Inventory!NothingPromisedTwice, Inventory!Standing
<1> QED BY <1>1, <1>2, PTL DEF Inventory!InventorySpec

\* So the checkout keeps it: a live hold, a hold being converted and a reservation
\* made from one never claim the same night twice.
THEOREM NothingIsPromisedTwice == Spec => []Inventory!NothingPromisedTwice
BY CheckoutImplementsInventory, InventoryIsSafe, PTL DEF ImplementsInventory

-----------------------------------------------------------------------------
(* What the outside is told.                                               *)

\* A step leaves the reservations alone, commits one or cancels one.
LEMMA ResWriters ==
    ASSUME [Next]_vars
    PROVE  \/ res' = res
           \/ \E w \in Worker : FinalizeCommit(w) \/ StoreCommit(w)
           \/ \E r \in Res : CancelBooking(r)
<1>1. ASSUME NEW w \in Worker, TxStep(w), ~(FinalizeCommit(w) \/ StoreCommit(w))
      PROVE  res' = res
  <2>1. CASE AcquireLock(w) \/ ExpireStale(w) \/ QuoteCommit(w) \/ QuoteRefuse(w)
    BY <2>1 DEF AcquireLock, ExpireStale, QuoteCommit, QuoteRefuse, RollBack
  <2>2. CASE BookCheck(w) \/ BookPay(w) \/ BookCommit(w) \/ FinalizeRow(w)
    BY <2>2 DEF BookCheck, BookPay, BookCommit, FinalizeRow, RollBack
  <2>3. CASE FinalizeCheck(w) \/ ReservationInsert(w) \/ FinalizeEmit(w) \/ DeadlockVictim(w)
    BY <2>3 DEF FinalizeCheck, ReservationInsert, FinalizeEmit, DeadlockVictim, RollBack
  <2>4. CASE StoreCheckReservations(w) \/ StoreCheckHolds(w)
    BY <2>4 DEF StoreCheckReservations, StoreCheckHolds, StoreRefuse, RollBack
  <2> QED BY <1>1, <2>1, <2>2, <2>3, <2>4 DEF TxStep
<1>2. ASSUME NEW w \in Worker, Request(w) PROVE res' = res
  BY <1>2 DEF Request, QuoteStart, BookStart, ConfirmStart, WebhookStart, StoreStart
<1>3. ASSUME NEW w \in Worker, Crash(w) PROVE res' = res
  BY <1>3 DEF Crash, RollBack
<1>4. ASSUME Environment, ~\E r \in Res : CancelBooking(r) PROVE res' = res
  BY <1>4 DEF Environment, GuestPays, StorefrontPays, Tick
<1>5. ASSUME UNCHANGED vars PROVE res' = res
  BY <1>5 DEF vars
<1> QED BY <1>1, <1>2, <1>3, <1>4, <1>5 DEF Next

\* A committed reservation keeps its source and is never deleted.
LEMMA ReservationsPersist ==
    ASSUME TypeOK, Bookkeeping, [Next]_vars, NEW r \in Res, res[r].status # "none"
    PROVE  res'[r].status # "none" /\ res'[r].src = res[r].src
<1>1. ASSUME NEW w \in Worker, FinalizeCommit(w) \/ StoreCommit(w)
      PROVE  res'[r] = res[r]
  <2>1. tx[w].pc = "commit" /\ tx[w].op \in Finalizers \cup {"store"}
    BY <1>1 DEF FinalizeCommit, StoreCommit
  <2>2. tx[w].new # None
    BY <2>1 DEF Bookkeeping, TxShape, WellFormed
  <2>3. tx[w].new # r
    BY <2>1, <2>2 DEF Bookkeeping, ResIdsFresh
  <2>4. res' = [res EXCEPT ![tx[w].new] = [status |-> "confirmed", stay |-> tx[w].stay,
                                           src |-> tx[w].src]]
    BY <1>1 DEF FinalizeCommit, StoreCommit
  <2> QED BY <2>3, <2>4 DEF TypeOK
<1>2. ASSUME NEW q \in Res, CancelBooking(q)
      PROVE  res'[r].status # "none" /\ res'[r].src = res[r].src
  <2>1. res \in [Res -> ResRow] /\ res' = [res EXCEPT ![q].status = "cancelled"]
    BY <1>2 DEF TypeOK, CancelBooking
  <2> QED BY <2>1 DEF ResRow
<1> QED BY <1>1, <1>2, ResWriters

\* An answer about a hold: to a finalizer that found it converted, to one
\* that has just announced its conversion, or to a repeated event.
LEMMA Answers ==
    ASSUME TypeOK, Bookkeeping, [Next]_vars, NEW h \in Hold,
           h \in (acked' \cup told') \ (acked \cup told)
    PROVE  \/ holds[h].status = "converted"
           \/ \E w \in Worker : FinalizeEmit(w) /\ tx[w].src = h
<1>1. ASSUME NEW w \in Worker, TxStep(w)
      PROVE  \/ holds[h].status = "converted"
             \/ FinalizeEmit(w) /\ tx[w].src = h
  <2>1. CASE FinalizeRow(w)
    BY <2>1 DEF FinalizeRow, Answer
  <2>2. CASE FinalizeEmit(w)
    BY <2>2 DEF FinalizeEmit, Answer
  <2>3. CASE StoreCheckReservations(w) \/ StoreCheckHolds(w) \/ StoreCommit(w)
    <3>1. tx[w].op = "store"
      BY <2>3 DEF StoreCheckReservations, StoreCheckHolds, StoreCommit
    <3>2. tx[w].src \in Intent
      BY <3>1 DEF Bookkeeping, TxShape, WellFormed
    <3>3. tx[w].src # h
      BY <3>2, ConstantsAssumption
    <3>4. told' = told /\ (acked' = acked \/ acked' = acked \cup {tx[w].src})
      BY <2>3 DEF StoreCheckReservations, StoreCheckHolds, StoreCommit, StoreRefuse
    <3> QED BY <3>3, <3>4
  <2>4. CASE AcquireLock(w) \/ ExpireStale(w) \/ QuoteCommit(w) \/ QuoteRefuse(w)
    BY <2>4 DEF AcquireLock, ExpireStale, QuoteCommit, QuoteRefuse
  <2>5. CASE BookCheck(w) \/ BookPay(w) \/ BookCommit(w) \/ FinalizeCheck(w)
    BY <2>5 DEF BookCheck, BookPay, BookCommit, FinalizeCheck
  <2>6. CASE ReservationInsert(w) \/ FinalizeCommit(w) \/ DeadlockVictim(w)
    BY <2>6 DEF ReservationInsert, FinalizeCommit, DeadlockVictim
  <2> QED BY <1>1, <2>1, <2>2, <2>3, <2>4, <2>5, <2>6 DEF TxStep
<1>2. ASSUME NEW w \in Worker, Request(w) PROVE holds[h].status = "converted"
  <2>1. CASE \E g \in Hold, op \in {"webhook", "webhook_direct"} : WebhookStart(w, g, op)
    BY <2>1 DEF WebhookStart
  <2>2. CASE \E i \in Intent : StoreStart(w, i)
    BY <2>2, ConstantsAssumption DEF StoreStart
  <2>3. CASE \/ \E s \in Stay : QuoteStart(w, s)
             \/ \E g \in Hold, s \in Stay : BookStart(w, g, s)
             \/ \E g \in Hold : ConfirmStart(w, g)
    BY <2>3 DEF QuoteStart, BookStart, ConfirmStart
  <2> QED BY <1>2, <2>1, <2>2, <2>3 DEF Request
<1>3. ASSUME NEW w \in Worker, Crash(w) PROVE FALSE
  BY <1>3 DEF Crash
<1>4. ASSUME Environment PROVE FALSE
  BY <1>4 DEF Environment, GuestPays, StorefrontPays, CancelBooking, Tick
<1>5. ASSUME UNCHANGED vars PROVE FALSE
  BY <1>5 DEF vars
<1> QED BY <1>1, <1>2, <1>3, <1>4, <1>5 DEF Next

\* Who publishes an event.
LEMMA Publishers ==
    ASSUME [Next]_vars
    PROVE  emitted' = emitted \/ \E w \in Worker : FinalizeEmit(w)
<1>1. ASSUME NEW w \in Worker, TxStep(w), ~FinalizeEmit(w)
      PROVE  emitted' = emitted
  <2>1. CASE AcquireLock(w) \/ ExpireStale(w) \/ QuoteCommit(w) \/ QuoteRefuse(w)
    BY <2>1 DEF AcquireLock, ExpireStale, QuoteCommit, QuoteRefuse
  <2>2. CASE BookCheck(w) \/ BookPay(w) \/ BookCommit(w) \/ FinalizeRow(w)
    BY <2>2 DEF BookCheck, BookPay, BookCommit, FinalizeRow
  <2>3. CASE FinalizeCheck(w) \/ ReservationInsert(w) \/ FinalizeCommit(w) \/ DeadlockVictim(w)
    BY <2>3 DEF FinalizeCheck, ReservationInsert, FinalizeCommit, DeadlockVictim
  <2>4. CASE StoreCheckReservations(w) \/ StoreCheckHolds(w) \/ StoreCommit(w)
    BY <2>4 DEF StoreCheckReservations, StoreCheckHolds, StoreCommit
  <2> QED BY <1>1, <2>1, <2>2, <2>3, <2>4 DEF TxStep
<1>2. ASSUME NEW w \in Worker, Request(w) PROVE emitted' = emitted
  BY <1>2 DEF Request, QuoteStart, BookStart, ConfirmStart, WebhookStart, StoreStart
<1>3. ASSUME NEW w \in Worker, Crash(w) PROVE emitted' = emitted
  BY <1>3 DEF Crash
<1>4. ASSUME Environment PROVE emitted' = emitted
  BY <1>4 DEF Environment, GuestPays, StorefrontPays, CancelBooking, Tick
<1>5. ASSUME UNCHANGED vars PROVE emitted' = emitted
  BY <1>5 DEF vars
<1> QED BY <1>1, <1>2, <1>3, <1>4, <1>5 DEF Next

\* A session comes to its announcement by committing the conversion.
LEMMA Announcers ==
    ASSUME TypeOK, [Next]_vars, NEW v \in Worker, tx'[v].pc = "emit"
    PROVE  FinalizeCommit(v) \/ tx'[v] = tx[v]
<1>1. ASSUME NEW w \in Worker,
             \/ \E pc \in Pcs \ {"emit"} : Goto(w, pc)
             \/ tx' = [tx EXCEPT ![w] = NoTx]
      PROVE  tx'[v] = tx[v]
  BY <1>1 DEF TypeOK, TxType, Goto, NoTx
<1>2. ASSUME NEW w \in Worker, TxStep(w), ~FinalizeCommit(w)
      PROVE  tx'[v] = tx[v]
  <2>0. CASE RollBack(w)
    BY <1>1, <2>0 DEF RollBack
  <2>1. CASE AcquireLock(w) \/ QuoteCommit(w) \/ QuoteRefuse(w) \/ DeadlockVictim(w)
    BY <1>1, <2>1 DEF AcquireLock, QuoteCommit, QuoteRefuse, DeadlockVictim, RollBack, Pcs
  <2>2. CASE ExpireStale(w)
    BY <2>2 DEF ExpireStale, TypeOK, TxType
  <2>3. CASE BookCheck(w) /\ ~RollBack(w)
    BY <2>3 DEF BookCheck, TypeOK, TxType
  <2>4. CASE (BookPay(w) \/ FinalizeRow(w) \/ FinalizeCheck(w)) /\ ~RollBack(w)
    BY <1>1, <2>4 DEF BookPay, FinalizeRow, FinalizeCheck, Pcs
  <2>5. CASE BookCommit(w) \/ FinalizeEmit(w) \/ StoreCommit(w)
    BY <1>1, <2>5 DEF BookCommit, FinalizeEmit, StoreCommit
  <2>6. CASE ReservationInsert(w) /\ ~RollBack(w)
    BY <2>6 DEF ReservationInsert, TypeOK, TxType
  <2>7. CASE (StoreCheckReservations(w) \/ StoreCheckHolds(w)) /\ ~RollBack(w)
    BY <1>1, <2>7 DEF StoreCheckReservations, StoreCheckHolds, StoreRefuse, Pcs
  <2> QED BY <1>2, <2>0, <2>1, <2>2, <2>3, <2>4, <2>5, <2>6, <2>7 DEF TxStep
<1>3. ASSUME NEW w \in Worker, NEW op, NEW pc \in Pcs \ {"emit"}, NEW src, NEW s,
             Begin(w, op, pc, src, s)
      PROVE  tx'[v] = tx[v]
  BY <1>3 DEF Begin, NoTx, TypeOK, TxType
<1>4. ASSUME NEW w \in Worker, Request(w) PROVE tx'[v] = tx[v]
  BY <1>3, <1>4 DEF Request, QuoteStart, BookStart, ConfirmStart, WebhookStart, StoreStart,
                    Pcs
<1>5. ASSUME NEW w \in Worker, Crash(w) PROVE tx'[v] = tx[v]
  BY <1>1, <1>5 DEF Crash, RollBack
<1>6. ASSUME Environment PROVE tx' = tx
  BY <1>6 DEF Environment, GuestPays, StorefrontPays, CancelBooking, Tick
<1>7. ASSUME UNCHANGED vars PROVE tx' = tx
  BY <1>7 DEF vars
<1>8. CASE \E w \in Worker : FinalizeCommit(w)
  <2>1. PICK w \in Worker : FinalizeCommit(w)
    BY <1>8
  <2>2. v # w => tx'[v] = tx[v]
    BY <2>1 DEF FinalizeCommit, TypeOK
  <2> QED BY <2>1, <2>2
<1> QED BY <1>2, <1>4, <1>5, <1>6, <1>7, <1>8 DEF Next

LEMMA AnsweredStep ==
    ASSUME TypeOK, Bookkeeping, OutsideFollows, [Next]_vars
    PROVE  AnsweredMeansBooked'
<1> SUFFICES ASSUME NEW h \in Hold, h \in acked' \cup told'
             PROVE  \E r \in Res : res'[r].status # "none" /\ res'[r].src = h
  BY DEF AnsweredMeansBooked
<1>1. \E r \in Res : res[r].status # "none" /\ res[r].src = h
  <2>1. CASE h \in acked \cup told
    BY <2>1 DEF OutsideFollows, AnsweredMeansBooked
  <2>2. CASE holds[h].status = "converted"
    BY <2>2 DEF Bookkeeping, ReservationSources
  <2>3. CASE \E w \in Worker : FinalizeEmit(w) /\ tx[w].src = h
    <3>1. PICK w \in Worker : FinalizeEmit(w) /\ tx[w].src = h
      BY <2>3
    <3>2. tx[w].pc = "emit" /\ tx[w].op \in Finalizers
      BY <3>1 DEF FinalizeEmit, Bookkeeping, TxShape, WellFormed
    <3>3. tx[w].new # None /\ tx[w].new \in Res
      BY <3>2, TxFields DEF Bookkeeping, TxShape, WellFormed
    <3>4. res[tx[w].new].status # "none" /\ res[tx[w].new].src = h
      BY <3>1, <3>2, <3>3 DEF Bookkeeping, ResIdsFresh, OutsideFollows, ToAnnounce
    <3> QED BY <3>3, <3>4
  <2> QED BY <2>1, <2>2, <2>3, Answers
<1> QED BY <1>1, ReservationsPersist

LEMMA AnnouncedStep ==
    ASSUME TypeOK, Bookkeeping, OutsideFollows, [Next]_vars
    PROVE  EventsFollowBookings' /\ ToAnnounce'
<1> USE DEF OutsideFollows
<1>1. ASSUME NEW w \in Worker, FinalizeEmit(w)
      PROVE  /\ emitted'[tx[w].new] = 1 /\ res[tx[w].new].status # "none"
             /\ tx[w].new \in Res /\ tx[w].new # None
             /\ \A q \in Res \ {tx[w].new} : emitted'[q] = emitted[q]
             /\ tx'[w].pc = "idle" /\ tx[w].pc = "emit"
             /\ res' = res
  <2>1. tx[w].pc = "emit" /\ tx[w].op \in Finalizers
    BY <1>1 DEF FinalizeEmit, Bookkeeping, TxShape, WellFormed
  <2>2. tx[w].new # None /\ tx[w].new \in Res
    BY <2>1, TxFields DEF Bookkeeping, TxShape, WellFormed
  <2>3. res[tx[w].new].status # "none" /\ emitted[tx[w].new] = 0
    BY <2>1, <2>2 DEF Bookkeeping, ResIdsFresh, ToAnnounce
  <2>4. emitted \in [Res -> Nat] /\ emitted' = [emitted EXCEPT ![tx[w].new] = @ + 1]
    BY <1>1 DEF TypeOK, FinalizeEmit
  <2>5. tx'[w].pc = "idle" /\ res' = res
    BY <1>1, NoTxFields DEF FinalizeEmit, TypeOK
  <2> QED BY <2>1, <2>2, <2>3, <2>4, <2>5
<1>2. EventsFollowBookings'
  <2> SUFFICES ASSUME NEW r \in Res
               PROVE  emitted'[r] <= 1 /\ (emitted'[r] > 0 => res'[r].status # "none")
    BY DEF EventsFollowBookings
  <2>1. emitted[r] <= 1 /\ (emitted[r] > 0 => res[r].status # "none")
    BY DEF EventsFollowBookings
  <2>2. CASE emitted'[r] = emitted[r]
    BY <2>1, <2>2, ReservationsPersist
  <2>3. CASE \E w \in Worker : FinalizeEmit(w) /\ tx[w].new = r
    <3>1. emitted'[r] = 1 /\ res'[r].status # "none"
      BY <1>1, <2>3
    <3> QED BY <3>1
  <2>4. emitted'[r] = emitted[r] \/ \E w \in Worker : FinalizeEmit(w) /\ tx[w].new = r
    BY <1>1, Publishers
  <2> QED BY <2>2, <2>3, <2>4
<1>3. ToAnnounce'
  <2> SUFFICES ASSUME NEW v \in Worker, tx'[v].pc = "emit"
               PROVE  /\ res'[tx'[v].new].src = tx'[v].src
                      /\ emitted'[tx'[v].new] = 0
    BY DEF ToAnnounce
  <2>1. CASE FinalizeCommit(v)
    <3>1. /\ tx[v].new \in Res /\ tx[v].new # None
          /\ res[tx[v].new].status = "none"
      BY <2>1, TxFields DEF FinalizeCommit, Bookkeeping, TxShape, WellFormed, ResIdsFresh
    <3>2. tx'[v].new = tx[v].new /\ tx'[v].src = tx[v].src /\ emitted' = emitted
      BY <2>1, FinalizeCommitFields DEF FinalizeCommit
    <3>3. res'[tx[v].new].src = tx[v].src
      BY <2>1, <3>1 DEF FinalizeCommit, TypeOK
    <3>4. emitted[tx[v].new] = 0
      <4>1. emitted[tx[v].new] \in Nat /\ ~(emitted[tx[v].new] > 0)
        BY <3>1 DEF TypeOK, EventsFollowBookings
      <4> QED BY <4>1
    <3> QED BY <3>2, <3>3, <3>4
  <2>2. CASE tx'[v] = tx[v]
    <3>1. tx[v].pc = "emit" /\ tx[v].new \in Res /\ tx[v].new # None
      BY <2>2, TxFields DEF Bookkeeping, TxShape, WellFormed
    <3>2. /\ res[tx[v].new].src = tx[v].src /\ emitted[tx[v].new] = 0
          /\ res[tx[v].new].status # "none"
      BY <3>1 DEF ToAnnounce, Bookkeeping, ResIdsFresh
    <3>3. res'[tx[v].new].src = tx[v].src
      BY <3>1, <3>2, ReservationsPersist
    <3>4. ASSUME NEW w \in Worker, FinalizeEmit(w) PROVE emitted'[tx[v].new] = 0
      <4>1. v # w
        BY <1>1, <3>4, <2>2, <3>1
      <4>2. tx[w].new # tx[v].new
        BY <3>1, <4>1 DEF Bookkeeping, ResIdsFresh
      <4> QED BY <1>1, <3>1, <3>2, <3>4, <4>2
    <3>5. emitted'[tx[v].new] = 0
      BY <3>2, <3>4, Publishers
    <3> QED BY <2>2, <3>3, <3>5
  <2> QED BY <2>1, <2>2, Announcers
<1> QED BY <1>2, <1>3

\* What the outside has been told follows the rows, in every reachable state.
THEOREM OutsideInvariant == Spec => []OutsideFollows
<1>1. Init => OutsideFollows
  BY NoTxFields DEF Init, OutsideFollows, AnsweredMeansBooked, EventsFollowBookings,
                    ToAnnounce
<1>2. (TypeOK /\ Bookkeeping) /\ OutsideFollows /\ [Next]_vars => OutsideFollows'
  BY AnsweredStep, AnnouncedStep DEF OutsideFollows
<1> QED BY <1>1, <1>2, BookkeepingInvariant, PTL DEF Spec

\* A guest told "booked" and a webhook answered with a 2xx have a committed
\* reservation, however deliveries, retries and crashes interleave.
THEOREM AnswersAreTrue == Spec => []AnsweredMeansBooked
<1>1. OutsideFollows => AnsweredMeansBooked
  BY DEF OutsideFollows
<1> QED BY <1>1, OutsideInvariant, PTL

\* reservation.confirmed is published at most once, and only for a committed row.
THEOREM EventsAreTrue == Spec => []EventsFollowBookings
<1>1. OutsideFollows => EventsFollowBookings
  BY DEF OutsideFollows
<1> QED BY <1>1, OutsideInvariant, PTL

=============================================================================
