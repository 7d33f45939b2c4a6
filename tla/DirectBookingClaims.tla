------------------------- MODULE DirectBookingClaims -------------------------
(***************************************************************************)
(* Holds and the reservations made of them never claim a night twice: the  *)
(* proofs that rest on the advisory lock.  Nothing here needs the EXCLUDE  *)
(* constraints.  The storefront settlement takes no lock, so what is said  *)
(* of all reservations assumes that there are no storefront intents.       *)
(***************************************************************************)
EXTENDS DirectBookingProofs

-----------------------------------------------------------------------------
(* Claims.                                                                 *)

\* A session past the expiry sweep is alone in its property.
LEMMA LockedAlone ==
    ASSUME Bookkeeping, NEW w \in Worker, NEW v \in Worker,
           Locked(w), Locked(v), tx[w].stay.prop = tx[v].stay.prop
    PROVE  w = v
BY DEF Bookkeeping, AdvisoryLockOwned

\* A finalizer that converts a hold has its property locked.
LEMMA ConvertingLocked ==
    ASSUME Bookkeeping, NEW h \in Hold, NEW v \in Worker,
           tx[v].op \in Finalizers, tx[v].pc \in {"insert", "commit"}, tx[v].src = h
    PROVE  Locked(v) /\ tx[v].stay = holds[h].stay
BY DEF Bookkeeping, HoldIdsFresh, Locked

\* No row changes its stay or is born, and what stands after the step stood
\* before it, as the same kind of claim.
ClaimsShrink ==
    \A h \in Hold :
        /\ holds'[h].stay = holds[h].stay
        /\ holds'[h].status = "none" <=> holds[h].status = "none"
        /\ Stands(h)' => Stands(h) /\ holds'[h].status = holds[h].status

\* What a session that does not reach "insert" by this step converts, it
\* converted before.
LEMMA ConvertingFrame ==
    ASSUME NEW w \in Worker, \A v \in Worker \ {w} : tx'[v] = tx[v],
           tx'[w].op \in Finalizers /\ tx'[w].pc \in {"insert", "commit"} =>
               /\ tx[w].op \in Finalizers /\ tx[w].pc \in {"insert", "commit"}
               /\ tx'[w].src = tx[w].src,
           NEW h \in Hold, Converting(h)'
    PROVE  Converting(h)
BY DEF Converting

\* Rows that stay as they are keep standing only for a live hold, a finalizer
\* that was converting already or a reservation that stood before.
LEMMA ShrinkFrame ==
    ASSUME UNCHANGED <<holds, res>>, now' = now,
           \A h \in Hold : Converting(h)' => Converting(h) \/ holds[h].expires > now
    PROVE  ClaimsShrink
BY DEF ClaimsShrink, Stands, HoldStands, ReservationStands

\* A session step that touches no row and converts nothing new.
LEMMA ShrinkSession ==
    ASSUME NEW w \in Worker, UNCHANGED <<holds, res>>, now' = now,
           \A v \in Worker \ {w} : tx'[v] = tx[v],
           tx'[w].op \in Finalizers /\ tx'[w].pc \in {"insert", "commit"} =>
               /\ tx[w].op \in Finalizers /\ tx[w].pc \in {"insert", "commit"}
               /\ tx'[w].src = tx[w].src
    PROVE  ClaimsShrink
BY ConvertingFrame, ShrinkFrame

LEMMA ShrinkRollBack ==
    ASSUME TypeOK, NEW w \in Worker, RollBack(w), now' = now
    PROVE  ClaimsShrink
<1>1. /\ tx'[w] = NoTx
      /\ \A v \in Worker \ {w} : tx'[v] = tx[v]
      /\ UNCHANGED <<holds, res>>
  BY DEF RollBack, TypeOK
<1>2. tx'[w].op \notin Finalizers
  BY <1>1, NoTxFields DEF Finalizers
<1> QED BY <1>1, <1>2, ShrinkSession

LEMMA ShrinkGoto ==
    ASSUME TypeOK, NEW w \in Worker, NEW pc, Goto(w, pc), UNCHANGED <<holds, res>>,
           now' = now, pc \in {"insert", "commit"} => tx[w].op \notin Finalizers
    PROVE  ClaimsShrink
<1>1. /\ \A v \in Worker \ {w} : tx'[v] = tx[v]
      /\ tx'[w].op = tx[w].op /\ tx'[w].pc = pc /\ tx'[w].src = tx[w].src
  BY GotoFields
<1> QED BY <1>1, ShrinkSession

\* What stands conflicts with the availability check of a session that is
\* inside the section of the property.
LEMMA AvailableMeansFree ==
    ASSUME TypeOK, Bookkeeping, NEW w \in Worker, NEW g \in Hold,
           tx[w].op = "book", Locked(w), Available(tx[w].stay, None), Stands(g)
    PROVE  ~Overlaps(holds[g].stay, tx[w].stay)
<1> SUFFICES ASSUME Overlaps(holds[g].stay, tx[w].stay) PROVE FALSE
  OBVIOUS
<1>1. CASE holds[g].status = "active" /\ holds[g].expires > now
  BY <1>1, NoneIsNoId DEF Available, HoldConflict
<1>2. CASE Converting(g)
  <2>1. PICK v \in Worker : /\ tx[v].op \in Finalizers
                            /\ tx[v].pc \in {"insert", "commit"} /\ tx[v].src = g
    BY <1>2 DEF Converting
  <2>2. Locked(v) /\ tx[v].stay = holds[g].stay
    BY <2>1, ConvertingLocked
  <2>3. v = w
    BY <2>2, LockedAlone DEF Overlaps
  <2> QED BY <2>1, <2>3 DEF Finalizers
<1>3. CASE ReservationStands(g)
  BY <1>3 DEF ReservationStands, Available, ReservationConflict, Bookkeeping,
              ReservationSources
<1> QED BY <1>1, <1>2, <1>3 DEF Stands, HoldStands

\* A commit of w turns its stale holds off, leaves the other rows but its own
\* alone and ends whatever w was converting.
LEMMA ClaimsExpired ==
    ASSUME TypeOK, Bookkeeping, NEW w \in Worker, now' = now,
           \A v \in Worker \ {w} : tx'[v] = tx[v],
           ~(tx'[w].op \in Finalizers /\ tx'[w].pc \in {"insert", "commit"}),
           \A r \in Res : res[r].status # "none" => res'[r] = res[r],
           NEW g \in Hold, holds'[g] = Expired(w)[g], Stands(g)'
    PROVE  Stands(g) /\ holds'[g] = holds[g]
<1>1. holds'[g] = holds[g]
  BY ExpiredRows DEF Stands, HoldStands, ReservationStands
<1>2. Converting(g)' => Converting(g)
  BY ConvertingFrame
<1>3. holds[g].status = "converted" => res'[holds[g].res] = res[holds[g].res]
  BY DEF Bookkeeping, ReservationSources
<1> QED BY <1>1, <1>2, <1>3 DEF Stands, HoldStands, ReservationStands

\* The hold a booking commits overlaps no standing claim and no hold another
\* session is about to commit.
LEMMA ClaimsBookCommit ==
    ASSUME TypeOK, Bookkeeping, ClaimsDisjoint, NEW w \in Worker, BookCommit(w)
    PROVE  ClaimsDisjoint'
<1> DEFINE h == tx[w].src
           row == [status |-> "active", stay |-> tx[w].stay,
                   expires |-> tx[w].until, res |-> None]
<1>1. /\ tx[w].op = "book" /\ tx[w].pc = "commit"
      /\ h \in Hold
      /\ tx'[w] = NoTx
      /\ \A v \in Worker \ {w} : tx'[v] = tx[v]
      /\ res' = res /\ now' = now
      /\ holds' = [Expired(w) EXCEPT ![h] = row]
  BY DEF BookCommit, TypeOK, Bookkeeping, TxShape, WellFormed
<1>2. \A g \in Hold : holds'[g] = IF g = h THEN row ELSE Expired(w)[g]
  BY <1>1 DEF Expired
<1>3. Placing(w) /\ Locked(w)
  BY <1>1 DEF Placing, Locked
<1>4. ~(tx'[w].op \in Finalizers /\ tx'[w].pc \in {"insert", "commit"})
  BY <1>1, NoTxFields
<1>5. ASSUME NEW g \in Hold \ {h}, Stands(g)'
      PROVE  /\ Stands(g) /\ holds'[g].stay = holds[g].stay
             /\ ~Overlaps(holds[g].stay, tx[w].stay)
             /\ ~Overlaps(tx[w].stay, holds[g].stay)
  <2>1. Stands(g) /\ holds'[g].stay = holds[g].stay
    BY <1>1, <1>2, <1>4, <1>5, ClaimsExpired
  <2>2. ~Overlaps(holds[g].stay, tx[w].stay)
    BY <1>3, <2>1 DEF ClaimsDisjoint
  <2>3. holds[g].stay \in Stay
    BY DEF TypeOK, HoldRow
  <2> QED BY <2>1, <2>2, <2>3, TxFields, OverlapsSymmetric
<1>6. ASSUME NEW v \in Worker, Placing(v)'
      PROVE  /\ v # w /\ Placing(v) /\ tx'[v].stay = tx[v].stay
             /\ ~Overlaps(tx[w].stay, tx[v].stay)
  <2>1. v # w /\ Placing(v) /\ tx'[v].stay = tx[v].stay
    BY <1>1, <1>6, NoTxFields DEF Placing
  <2>2. Locked(v)
    BY <2>1 DEF Placing, Locked
  <2> QED BY <1>3, <2>1, <2>2, LockedAlone DEF Overlaps
<1>7. holds'[h].stay = tx[w].stay
  BY <1>1, <1>2
<1>8. ASSUME NEW f \in Hold, NEW g \in Hold, f # g, Stands(f)', Stands(g)'
      PROVE  ~Overlaps(holds'[f].stay, holds'[g].stay)
  BY <1>5, <1>7, <1>8 DEF ClaimsDisjoint
<1>9. ASSUME NEW v \in Worker, NEW g \in Hold, Placing(v)', Stands(g)'
      PROVE  ~Overlaps(holds'[g].stay, tx'[v].stay)
  BY <1>5, <1>6, <1>7, <1>9 DEF ClaimsDisjoint
<1> QED BY <1>8, <1>9 DEF ClaimsDisjoint

\* A conversion keeps the claim: the hold stood, and now its reservation does.
LEMMA ClaimsFinalizeCommit ==
    ASSUME TypeOK, Bookkeeping, NEW w \in Worker, FinalizeCommit(w)
    PROVE  \A h \in Hold : Stands(h)' => Stands(h) /\ holds'[h].stay = holds[h].stay
<1> DEFINE h == tx[w].src
           r == tx[w].new
<1>1. /\ tx[w].op \in Finalizers /\ tx[w].pc = "commit"
      /\ tx'[w].pc = "emit"
      /\ \A v \in Worker \ {w} : tx'[v] = tx[v]
      /\ now' = now
      /\ holds' = [Expired(w) EXCEPT ![h].status = "converted", ![h].res = r]
  BY FinalizeCommitFields DEF FinalizeCommit
<1>2. \A q \in Res \ {r} : res'[q] = res[q]
  BY DEF FinalizeCommit, TypeOK
<1>3. /\ h \in Hold /\ holds[h].status = "active"
      /\ r \in Res /\ res[r].status = "none"
  BY <1>1, TxFields DEF Bookkeeping, TxShape, WellFormed, OwnsHold, RowLockOwned, ResIdsFresh
<1>4. /\ \A g \in Hold \ {h} : holds'[g] = Expired(w)[g]
      /\ holds'[h].stay = holds[h].stay
  <2>1. Expired(w) \in [Hold -> HoldRow] /\ Expired(w)[h].stay = holds[h].stay
    BY <1>3, ExpiredType, ExpiredRows
  <2> QED BY <1>1, <1>3, <2>1 DEF HoldRow
<1>5. Stands(h)
  BY <1>1, <1>3 DEF Stands, HoldStands, Converting
<1>6. \A g \in Hold \ {h} : Stands(g)' => Stands(g) /\ holds'[g].stay = holds[g].stay
  BY <1>1, <1>2, <1>3, <1>4, ClaimsExpired
<1> QED BY <1>4, <1>5, <1>6

\* A commit of w turns its stale holds off and leaves the other rows alone.
LEMMA ShrinkQuoteCommit ==
    ASSUME TypeOK, Bookkeeping, NEW w \in Worker, QuoteCommit(w)
    PROVE  ClaimsShrink
<1>1. /\ tx'[w] = NoTx /\ holds' = Expired(w) /\ res' = res /\ now' = now
      /\ \A v \in Worker \ {w} : tx'[v] = tx[v]
  BY DEF QuoteCommit, TypeOK
<1>2. ~(tx'[w].op \in Finalizers /\ tx'[w].pc \in {"insert", "commit"})
  BY <1>1, NoTxFields
<1>3. \A h \in Hold : Stands(h)' => Stands(h) /\ holds'[h] = holds[h]
  BY <1>1, <1>2, ClaimsExpired
<1> QED BY <1>1, <1>3, ExpiredRows DEF ClaimsShrink

LEMMA ShrinkStoreCommit ==
    ASSUME TypeOK, Bookkeeping, NEW w \in Worker, StoreCommit(w)
    PROVE  ClaimsShrink
<1>1. /\ tx'[w] = NoTx /\ UNCHANGED <<holds, now>>
      /\ \A v \in Worker \ {w} : tx'[v] = tx[v]
      /\ \A q \in Res : q # tx[w].new => res'[q] = res[q]
      /\ tx[w].op = "store" /\ tx[w].pc = "commit"
  BY DEF StoreCommit, TypeOK
<1>2. tx[w].new \in Res /\ res[tx[w].new].status = "none"
  BY <1>1, TxFields DEF Bookkeeping, TxShape, WellFormed, ResIdsFresh
<1>3. tx'[w].op \notin Finalizers
  BY <1>1, NoTxFields DEF Finalizers
<1>4. \A h \in Hold : Converting(h)' => Converting(h)
  BY <1>1, <1>3, ConvertingFrame
<1>5. \A h \in Hold : ReservationStands(h)' => ReservationStands(h)
  BY <1>1, <1>2 DEF ReservationStands, Bookkeeping, ReservationSources
<1> QED BY <1>1, <1>4, <1>5 DEF ClaimsShrink, Stands, HoldStands

LEMMA ShrinkCancel ==
    ASSUME TypeOK, Bookkeeping, NEW r \in Res, CancelBooking(r)
    PROVE  ClaimsShrink
<1>1. \A q \in Res : res'[q].status \in Occupying => res[q].status \in Occupying
  BY DEF CancelBooking, TypeOK, ResRow, Occupying
<1>2. \A h \in Hold : ReservationStands(h)' => ReservationStands(h)
  BY <1>1 DEF CancelBooking, ReservationStands, Bookkeeping, ReservationSources
<1> QED BY <1>2 DEF CancelBooking, ClaimsShrink, Stands, HoldStands, Converting

LEMMA ShrinkTick ==
    ASSUME TypeOK, Tick
    PROVE  ClaimsShrink
<1>1. /\ UNCHANGED <<holds, res, tx>>
      /\ \A h \in Hold : holds[h].expires > now' => holds[h].expires > now
  BY DEF Tick, TypeOK, HoldRow
<1> QED BY <1>1 DEF ClaimsShrink, Stands, HoldStands, ReservationStands, Converting

\* Only the commit of a booking and the commit of a conversion let anything
\* new stand.
LEMMA QuietStep ==
    ASSUME TypeOK, Bookkeeping, [Next]_vars,
           \A w \in Worker : ~BookCommit(w) /\ ~FinalizeCommit(w)
    PROVE  ClaimsShrink
<1>1. ASSUME UNCHANGED <<holds, res, tx, now>> PROVE ClaimsShrink
  BY <1>1, ShrinkFrame DEF Converting
<1>2. ASSUME NEW w \in Worker, RollBack(w), now' = now PROVE ClaimsShrink
  BY <1>2, ShrinkRollBack
<1>3. ASSUME NEW w \in Worker, NEW op, NEW pc \in {"lock", "row", "check"}, NEW src, NEW s,
             Begin(w, op, pc, src, s), UNCHANGED <<holds, res>>, now' = now
      PROVE  ClaimsShrink
  <2>1. /\ \A v \in Worker \ {w} : tx'[v] = tx[v]
        /\ tx'[w].pc = pc
    BY <1>3 DEF Begin, TypeOK, NoTx
  <2> QED BY <1>3, <2>1, ShrinkSession
<1>4. ASSUME NEW w \in Worker, TxStep(w) PROVE ClaimsShrink
  <2>a. now' = now
    BY <1>4 DEF TxStep, AcquireLock, ExpireStale, QuoteCommit, BookCheck, BookPay,
                BookCommit, FinalizeRow, FinalizeCheck, ReservationInsert,
                FinalizeCommit, FinalizeEmit, StoreCheckReservations, StoreCheckHolds,
                StoreRefuse, StoreCommit, QuoteRefuse, DeadlockVictim
  <2>b. CASE RollBack(w)
    BY <1>2, <2>a, <2>b
  <2>1. CASE AcquireLock(w)
    BY <2>1, <2>a, ShrinkGoto DEF AcquireLock
  <2>2. CASE ExpireStale(w)
    <3>1. tx'[w].op \in Finalizers => tx'[w].pc \notin {"insert", "commit"}
      BY <2>2, ExpireStaleFields DEF Finalizers
    <3> QED BY <2>2, <2>a, <3>1, ExpireStaleFields, ShrinkSession
  <2>3. CASE QuoteCommit(w)
    BY <2>3, ShrinkQuoteCommit
  <2>4. CASE BookCheck(w) /\ ~RollBack(w)
    BY <2>4, <2>a, BookCheckFields, ShrinkSession DEF Finalizers
  <2>5. CASE BookPay(w) /\ ~RollBack(w)
    BY <2>5, <2>a, ShrinkGoto DEF BookPay, Finalizers
  <2>6. CASE FinalizeRow(w) /\ ~RollBack(w)
    BY <2>6, <2>a, ShrinkGoto DEF FinalizeRow
  <2>7. CASE FinalizeCheck(w) /\ ~RollBack(w)
    <3>1. /\ Goto(w, "insert") /\ UNCHANGED <<holds, res>>
          /\ holds[tx[w].src].expires > now
      BY <2>7 DEF FinalizeCheck
    <3>f. (\A v \in Worker \ {w} : tx'[v] = tx[v]) /\ tx'[w].src = tx[w].src
      BY <3>1, GotoFields
    <3>2. ASSUME NEW h \in Hold, Converting(h)'
          PROVE  Converting(h) \/ holds[h].expires > now
      <4>1. PICK v \in Worker : /\ tx'[v].op \in Finalizers
                                /\ tx'[v].pc \in {"insert", "commit"} /\ tx'[v].src = h
        BY <3>2 DEF Converting
      <4>2. CASE v = w
        BY <3>1, <3>f, <4>1, <4>2
      <4>3. CASE v # w
        BY <3>f, <4>1, <4>3 DEF Converting
      <4> QED BY <4>2, <4>3
    <3> QED BY <2>a, <3>1, <3>2, ShrinkFrame
  <2>8. CASE ReservationInsert(w) /\ ~RollBack(w)
    BY <2>8, <2>a, InsertFields, ShrinkSession
  <2>9. CASE FinalizeEmit(w)
    <3>1. /\ tx'[w] = NoTx /\ UNCHANGED <<holds, res>>
          /\ \A v \in Worker \ {w} : tx'[v] = tx[v]
      BY <2>9 DEF FinalizeEmit, TypeOK
    <3>2. tx'[w].op \notin Finalizers
      BY <3>1, NoTxFields DEF Finalizers
    <3> QED BY <2>a, <3>1, <3>2, ShrinkSession
  <2>10. CASE (StoreCheckReservations(w) \/ StoreCheckHolds(w)) /\ ~RollBack(w)
    BY <2>10, <2>a, ShrinkGoto DEF StoreCheckReservations, StoreCheckHolds, StoreRefuse, Finalizers
  <2>11. CASE StoreCommit(w)
    BY <2>11, ShrinkStoreCommit
  <2>12. CASE QuoteRefuse(w) \/ DeadlockVictim(w)
    BY <1>2, <2>12, <2>a DEF QuoteRefuse, DeadlockVictim
  <2> QED BY <1>4, <2>b, <2>1, <2>2, <2>3, <2>4, <2>5, <2>6, <2>7, <2>8, <2>9,
             <2>10, <2>11, <2>12 DEF TxStep
<1>5. ASSUME NEW w \in Worker, Request(w) PROVE ClaimsShrink
  BY <1>1, <1>3, <1>5 DEF Request, QuoteStart, BookStart, ConfirmStart, WebhookStart, StoreStart
<1>6. ASSUME NEW w \in Worker, Crash(w) PROVE ClaimsShrink
  BY <1>2, <1>6 DEF Crash
<1>7. ASSUME Environment PROVE ClaimsShrink
  BY <1>1, <1>7, ShrinkCancel, ShrinkTick DEF Environment, GuestPays, StorefrontPays
<1>8. ASSUME UNCHANGED vars PROVE ClaimsShrink
  BY <1>1, <1>8 DEF vars
<1> QED BY <1>4, <1>5, <1>6, <1>7, <1>8 DEF Next

\* Only a successful availability check makes a session place a hold.
LEMMA PlacingStep ==
    ASSUME TypeOK, Bookkeeping, [Next]_vars, NEW v \in Worker, Placing(v)',
           ~(BookCheck(v) /\ ~RollBack(v))
    PROVE  Placing(v) /\ tx'[v].stay = tx[v].stay
<1> USE DEF Placing
<1>1. CASE UNCHANGED tx
  BY <1>1
<1>2. ASSUME NEW w \in Worker, RollBack(w) PROVE tx'[v] = tx[v]
  BY <1>2, NoTxFields DEF RollBack, TypeOK
<1>3. ASSUME NEW w \in Worker, tx' = [tx EXCEPT ![w] = NoTx] PROVE tx'[v] = tx[v]
  BY <1>3, NoTxFields DEF TypeOK
<1>4. ASSUME NEW w \in Worker, NEW op, NEW pc \in {"lock", "row", "check"}, NEW src, NEW s,
             Begin(w, op, pc, src, s)
      PROVE  tx'[v] = tx[v]
  <2>1. /\ \A u \in Worker \ {w} : tx'[u] = tx[u]
        /\ tx'[w].pc = pc
    BY <1>4 DEF Begin, TypeOK, NoTx
  <2> QED BY <2>1
<1>5. ASSUME NEW w \in Worker, NEW pc, Goto(w, pc),
             pc \in {"pay", "commit"} => tx[w].op # "book" \/ tx[w].pc = "pay"
      PROVE  Placing(v) /\ tx'[v].stay = tx[v].stay
  <2>1. /\ \A u \in Worker \ {w} : tx'[u] = tx[u]
        /\ tx'[w].op = tx[w].op /\ tx'[w].pc = pc /\ tx'[w].stay = tx[w].stay
    BY <1>5, GotoFields
  <2> QED BY <1>5, <2>1
<1>6. ASSUME NEW w \in Worker, TxStep(w) PROVE Placing(v) /\ tx'[v].stay = tx[v].stay
  <2>b. CASE RollBack(w)
    BY <1>2, <2>b
  <2>1. CASE \/ QuoteCommit(w) \/ BookCommit(w) \/ FinalizeEmit(w) \/ StoreCommit(w)
    BY <1>3, <2>1 DEF QuoteCommit, BookCommit, FinalizeEmit, StoreCommit
  <2>2. CASE AcquireLock(w) \/ ((BookPay(w) \/ FinalizeRow(w)) /\ ~RollBack(w))
    BY <1>5, <2>2 DEF AcquireLock, BookPay, FinalizeRow
  <2>3. CASE (FinalizeCheck(w) \/ StoreCheckReservations(w) \/ StoreCheckHolds(w)) /\ ~RollBack(w)
    BY <1>5, <2>3 DEF FinalizeCheck, StoreCheckReservations, StoreCheckHolds, StoreRefuse
  <2>4. CASE ExpireStale(w)
    BY <2>4, ExpireStaleFields
  <2>5. CASE BookCheck(w) /\ ~RollBack(w)
    BY <2>5, BookCheckFields
  <2>6. CASE ReservationInsert(w) /\ ~RollBack(w)
    <3>1. tx[w].op # "book"
      BY <2>6, InsertFields DEF Bookkeeping, TxShape, WellFormed
    <3> QED BY <2>6, <3>1, InsertFields
  <2>7. CASE FinalizeCommit(w)
    BY <2>7, FinalizeCommitFields
  <2>8. CASE QuoteRefuse(w) \/ DeadlockVictim(w)
    BY <1>2, <2>8 DEF QuoteRefuse, DeadlockVictim
  <2> QED BY <1>6, <2>b, <2>1, <2>2, <2>3, <2>4, <2>5, <2>6, <2>7, <2>8 DEF TxStep
<1>7. ASSUME NEW w \in Worker, Request(w) PROVE tx'[v] = tx[v]
  BY <1>4, <1>7 DEF Request, QuoteStart, BookStart, ConfirmStart, WebhookStart, StoreStart
<1>8. ASSUME NEW w \in Worker, Crash(w) PROVE tx'[v] = tx[v]
  BY <1>2, <1>8 DEF Crash
<1>9. ASSUME Environment PROVE tx' = tx
  BY <1>9 DEF Environment, GuestPays, StorefrontPays, CancelBooking, Tick
<1> QED BY <1>1, <1>6, <1>7, <1>8, <1>9 DEF Next, vars

\* Every step keeps the claims disjoint.
LEMMA ClaimsStep ==
    ASSUME TypeOK, Bookkeeping, ClaimsDisjoint, [Next]_vars
    PROVE  ClaimsDisjoint'
<1>1. CASE \E w \in Worker : BookCommit(w)
  BY <1>1, ClaimsBookCommit
<1>2. CASE ~\E w \in Worker : BookCommit(w)
  <2>1. ASSUME NEW h \in Hold, Stands(h)'
        PROVE  Stands(h) /\ holds'[h].stay = holds[h].stay
    BY <1>2, <2>1, QuietStep, ClaimsFinalizeCommit DEF ClaimsShrink
  <2>2. ASSUME NEW v \in Worker, Placing(v)', NEW g \in Hold, Stands(g)'
        PROVE  ~Overlaps(holds'[g].stay, tx'[v].stay)
    <3>1. CASE BookCheck(v) /\ ~RollBack(v)
      <4>1. /\ tx[v].op = "book" /\ tx[v].pc = "check" /\ tx'[v].stay = tx[v].stay
            /\ Available(tx[v].stay, None)
        BY <3>1, BookCheckFields
      <4>2. Locked(v)
        BY <4>1 DEF Locked
      <4> QED BY <2>1, <2>2, <4>1, <4>2, AvailableMeansFree
    <3>2. CASE ~(BookCheck(v) /\ ~RollBack(v))
      BY <2>1, <2>2, <3>2, PlacingStep DEF ClaimsDisjoint
    <3> QED BY <3>1, <3>2
  <2> QED BY <2>1, <2>2 DEF ClaimsDisjoint
<1> QED BY <1>1, <1>2

\* Nobody claims anything at the start.
LEMMA ClaimsInit == Init => ClaimsDisjoint
BY NoTxFields DEF Init, ClaimsDisjoint, Stands, HoldStands, ReservationStands, Placing

\* Standing claims are disjoint in every reachable state, whatever storefront
\* settlements do and whether or not the EXCLUDE constraints are installed.
THEOREM ClaimsInvariant == Spec => [](TypeOK /\ Bookkeeping /\ ClaimsDisjoint)
<1>1. (TypeOK /\ Bookkeeping) /\ ClaimsDisjoint /\ [Next]_vars => ClaimsDisjoint'
  BY ClaimsStep
<1> QED BY ClaimsInit, <1>1, BookkeepingInvariant, PTL DEF Spec

-----------------------------------------------------------------------------
(* Without the storefront.                                                 *)

\* Without storefront intents a reservation stands for the hold it came from.
LEMMA ReservationOfHold ==
    ASSUME Intent = {}, TypeOK, Bookkeeping, NEW r \in Res, res[r].status \in Occupying
    PROVE  /\ res[r].src \in Hold
           /\ holds[res[r].src].status = "converted"
           /\ holds[res[r].src].res = r
           /\ holds[res[r].src].stay = res[r].stay
           /\ Stands(res[r].src)
<1>1. res[r].status # "none"
  BY DEF Occupying
<1>2. /\ res[r].src \in Hold
      /\ holds[res[r].src].status = "converted"
      /\ holds[res[r].src].res = r
      /\ holds[res[r].src].stay = res[r].stay
  BY <1>1 DEF Bookkeeping, ReservationSources, OneReservationPerHold
<1> QED BY <1>2 DEF Stands, ReservationStands

LEMMA ClaimsExcludeDoubleBooking ==
    ASSUME Intent = {}, TypeOK, Bookkeeping, ClaimsDisjoint
    PROVE  NoDoubleBooking
<1> SUFFICES ASSUME NEW r \in Res, NEW q \in Res, r # q,
                    res[r].status \in Occupying, res[q].status \in Occupying
             PROVE  ~Overlaps(res[r].stay, res[q].stay)
  BY DEF NoDoubleBooking
<1> QED BY ReservationOfHold DEF ClaimsDisjoint

LEMMA ClaimsLockDates ==
    ASSUME Intent = {}, TypeOK, Bookkeeping, ClaimsDisjoint
    PROVE  DatesLockedForTTL
<1> SUFFICES ASSUME NEW h \in Hold, LiveHold(h)
             PROVE  /\ ~ReservationConflict(holds[h].stay)
                    /\ ~HoldConflict(holds[h].stay, h)
  BY DEF DatesLockedForTTL
<1>1. Stands(h) /\ holds[h].status = "active"
  BY DEF LiveHold, Stands, HoldStands
<1>2. ASSUME NEW r \in Res, res[r].status \in Occupying
      PROVE  ~Overlaps(res[r].stay, holds[h].stay)
  BY <1>1, <1>2, ReservationOfHold DEF ClaimsDisjoint
<1>3. ASSUME NEW g \in Hold \ {h}, holds[g].status = "active", holds[g].expires > now
      PROVE  ~Overlaps(holds[g].stay, holds[h].stay)
  BY <1>1, <1>3 DEF ClaimsDisjoint, Stands, HoldStands
<1> QED BY <1>2, <1>3 DEF ReservationConflict, HoldConflict

\* Where every reservation comes from a hold, the advisory lock alone, without
\* any constraint in the database, keeps reservations from overlapping.
THEOREM LocksPreventDoubleBooking ==
    ASSUME Intent = {}
    PROVE  Spec => []NoDoubleBooking
<1>1. TypeOK /\ Bookkeeping /\ ClaimsDisjoint => NoDoubleBooking
  BY ClaimsExcludeDoubleBooking
<1> QED BY <1>1, ClaimsInvariant, PTL

\* And the dates of a live hold are the guest's until it expires.
THEOREM DatesAreLocked ==
    ASSUME Intent = {}
    PROVE  Spec => []DatesLockedForTTL
<1>1. TypeOK /\ Bookkeeping /\ ClaimsDisjoint => DatesLockedForTTL
  BY ClaimsLockDates
<1> QED BY <1>1, ClaimsInvariant, PTL

=============================================================================
