------------------------ MODULE DirectBookingProofs ------------------------
(***************************************************************************)
(* Theorems about DirectBooking for every number of holds, reservations,   *)
(* sessions, properties and stays, every TTL and every bound.              *)
(***************************************************************************)
EXTENDS DirectBookingInv, TLAPS

-----------------------------------------------------------------------------
(* Types.                                                                  *)

\* The placeholder stay of the initial rows is one of the stays.
LEMMA SomeStayIsAStay == SomeStay \in Stay
BY ConstantsAssumption DEF SomeStay

\* An idle session's record is well typed.
LEMMA NoTxType == NoTx \in TxType
BY SomeStayIsAStay DEF NoTx, TxType, Ops, Pcs

\* A session's record is well typed, and so are its fields.
LEMMA TxFields ==
    ASSUME TypeOK, NEW w \in Worker
    PROVE  /\ tx[w] \in TxType
           /\ tx[w].op \in Ops
           /\ tx[w].pc \in Pcs
           /\ tx[w].src \in Hold \cup Intent \cup {None}
           /\ tx[w].stay \in Stay
           /\ tx[w].until \in Nat
           /\ tx[w].new \in Res \cup {None}
           /\ tx[w].expiring \in SUBSET Hold
BY DEF TypeOK, TxType

\* Releasing the locks of a session leaves well-typed lock tables.
LEMMA UnlockType ==
    ASSUME NEW S, NEW lock \in [S -> Worker \cup {None}], NEW w
    PROVE  Unlock(lock, w) \in [S -> Worker \cup {None}]
BY DEF Unlock

LEMMA ReleaseType ==
    ASSUME TypeOK, NEW w, ReleaseLocks(w)
    PROVE  /\ advLock' \in [Property -> Worker \cup {None}]
           /\ rowLock' \in [Hold -> Worker \cup {None}]
BY UnlockType DEF TypeOK, ReleaseLocks

\* A rollback changes only the session's record and the lock tables.
LEMMA RollBackType ==
    ASSUME TypeOK, NEW w \in Worker, RollBack(w)
    PROVE  /\ tx' \in [Worker -> TxType]
           /\ advLock' \in [Property -> Worker \cup {None}]
           /\ rowLock' \in [Hold -> Worker \cup {None}]
           /\ holds' = holds
           /\ res' = res
BY NoTxType, ReleaseType DEF TypeOK, RollBack

LEMMA GotoType ==
    ASSUME TypeOK, NEW w \in Worker, NEW pc \in Pcs, Goto(w, pc)
    PROVE  tx' \in [Worker -> TxType]
<1>1. tx \in [Worker -> TxType]
  BY DEF TypeOK
<1>2. tx[w] \in TxType
  BY <1>1
<1>3. [tx[w] EXCEPT !.pc = pc] \in TxType
  BY <1>2 DEF TxType
<1>4. tx' = [tx EXCEPT ![w] = [tx[w] EXCEPT !.pc = pc]]
  BY <1>1 DEF Goto
<1> QED BY <1>1, <1>3, <1>4

LEMMA UpdateType ==
    ASSUME TypeOK, NEW w \in Worker, NEW t \in TxType, tx' = [tx EXCEPT ![w] = t]
    PROVE  tx' \in [Worker -> TxType]
BY DEF TypeOK

LEMMA BeginType ==
    ASSUME TypeOK, NEW w \in Worker, NEW op \in Ops, NEW pc \in Pcs,
           NEW src \in Hold \cup Intent \cup {None}, NEW s \in Stay,
           Begin(w, op, pc, src, s)
    PROVE  tx' \in [Worker -> TxType]
BY NoTxType DEF TypeOK, Begin, TxType

\* The rows a commit leaves are well typed.
LEMMA ExpiredType ==
    ASSUME TypeOK, NEW w \in Worker
    PROVE  Expired(w) \in [Hold -> HoldRow]
BY DEF TypeOK, Expired, HoldRow, HoldStatus

\* What stays as it is keeps its type.
LEMMA TypeParts ==
    ASSUME TypeOK,
           now' \in Nat,
           holds' \in [Hold -> HoldRow],
           res' \in [Res -> ResRow],
           pi' \in [Hold -> {"none", "created", "succeeded"}],
           paid' \in SUBSET Intent,
           advLock' \in [Property -> Worker \cup {None}],
           rowLock' \in [Hold -> Worker \cup {None}],
           tx' \in [Worker -> TxType],
           acked' \in SUBSET (Hold \cup Intent),
           told' \in SUBSET Hold,
           emitted' \in [Res -> Nat],
           crashes' \in Nat
    PROVE  TypeOK'
BY DEF TypeOK

\* A rolled back request keeps the types.
LEMMA RollBackTypeOK ==
    ASSUME TypeOK, NEW w \in Worker, RollBack(w),
           acked' \in SUBSET (Hold \cup Intent),
           told' \in SUBSET Hold,
           pi' \in [Hold -> {"none", "created", "succeeded"}],
           UNCHANGED <<now, paid, emitted>>,
           crashes' \in Nat
    PROVE  TypeOK'
BY RollBackType DEF TypeOK

\* A session that only moves on keeps the types.
LEMMA MoveTypeOK ==
    ASSUME TypeOK, NEW w \in Worker,
           tx' \in [Worker -> TxType],
           advLock' \in [Property -> Worker \cup {None}],
           rowLock' \in [Hold -> Worker \cup {None}],
           UNCHANGED <<now, holds, res, pi, paid, acked, told, emitted, crashes>>
    PROVE  TypeOK'
BY DEF TypeOK

\* Whoever answers answers for a hold.
LEMMA AnswerType ==
    ASSUME TypeOK, NEW w \in Worker, tx[w].src \in Hold, Answer(w)
    PROVE  /\ acked' \in SUBSET (Hold \cup Intent)
           /\ told' \in SUBSET Hold
BY DEF TypeOK, Answer

\* A finalizer and a booking work on a hold, a settlement on an intent.
LEMMA SrcType ==
    ASSUME TxShape, NEW w \in Worker
    PROVE  /\ tx[w].op \in Finalizers \cup {"book"} => tx[w].src \in Hold
           /\ tx[w].op = "store" => tx[w].src \in Intent
           /\ tx[w].pc \in {"row", "emit"} => tx[w].op \in Finalizers
           /\ tx[w].op \in Finalizers \cup {"store"} /\ tx[w].pc \in {"commit", "emit"}
                 => tx[w].new # None
BY DEF TxShape, WellFormed

\* Every step keeps the types.
LEMMA TypeStep == TypeOK /\ TxShape /\ [Next]_vars => TypeOK'
<1> SUFFICES ASSUME TypeOK, TxShape, [Next]_vars PROVE TypeOK'
  OBVIOUS
<1>0. ASSUME UNCHANGED vars PROVE TypeOK'
  BY <1>0 DEF TypeOK, vars
<1>1. ASSUME NEW w \in Worker, AcquireLock(w) PROVE TypeOK'
  BY <1>1, GotoType DEF TypeOK, AcquireLock, Pcs
<1>2. ASSUME NEW w \in Worker, ExpireStale(w) PROVE TypeOK'
  <2>1. tx' \in [Worker -> TxType]
    <3>1. [tx[w] EXCEPT !.expiring = Stale,
                        !.pc = IF tx[w].op = "quote" THEN "commit" ELSE "check"] \in TxType
      BY TxFields DEF TxType, Pcs, Stale
    <3> QED BY <1>2, <3>1, UpdateType DEF ExpireStale
  <2> QED BY <1>2, <2>1 DEF TypeOK, ExpireStale
<1>3. ASSUME NEW w \in Worker, QuoteCommit(w) PROVE TypeOK'
  BY <1>3, NoTxType, ReleaseType, ExpiredType DEF TypeOK, QuoteCommit
<1>4. ASSUME NEW w \in Worker, BookCheck(w) PROVE TypeOK'
  <2>0. UNCHANGED <<now, pi, paid, acked, told, emitted, crashes>>
    BY <1>4 DEF BookCheck
  <2>1. CASE RollBack(w)
    BY <2>0, <2>1, RollBackTypeOK DEF TypeOK
  <2>2. CASE ~RollBack(w)
    <3>1. /\ tx' = [tx EXCEPT ![w] = [@ EXCEPT !.pc = "pay", !.until = now + TTL]]
          /\ UNCHANGED <<holds, res, Locks>>
      BY <1>4, <2>2 DEF BookCheck
    <3>2. tx' \in [Worker -> TxType]
      <4>1. now + TTL \in Nat
        BY ConstantsAssumption DEF TypeOK
      <4>2. [tx[w] EXCEPT !.pc = "pay", !.until = now + TTL] \in TxType
        BY <4>1, TxFields DEF TxType, Pcs
      <4> QED BY <3>1, <4>2, UpdateType
    <3> QED BY <2>0, <3>1, <3>2 DEF TypeOK, Locks
  <2> QED BY <2>1, <2>2
<1>5. ASSUME NEW w \in Worker, BookPay(w) PROVE TypeOK'
  <2>1. CASE RollBack(w)
    BY <1>5, <2>1, RollBackTypeOK DEF TypeOK, BookPay
  <2>2. CASE ~RollBack(w)
    BY <1>5, <2>2, GotoType DEF TypeOK, BookPay, Pcs, Locks
  <2> QED BY <2>1, <2>2
<1>6. ASSUME NEW w \in Worker, BookCommit(w) PROVE TypeOK'
  <2>1. [status |-> "active", stay |-> tx[w].stay,
         expires |-> tx[w].until, res |-> None] \in HoldRow
    BY TxFields DEF HoldRow, HoldStatus
  <2>2. holds' \in [Hold -> HoldRow]
    BY <1>6, <2>1, ExpiredType DEF BookCommit
  <2> QED BY <1>6, <2>2, NoTxType, ReleaseType DEF TypeOK, BookCommit
<1>7. ASSUME NEW w \in Worker, FinalizeRow(w) PROVE TypeOK'
  <2>0. UNCHANGED <<now, pi, paid, emitted, crashes>>
    BY <1>7 DEF FinalizeRow
  <2>1. CASE RollBack(w)
    <3>1. Answer(w) \/ UNCHANGED <<acked, told>>
      BY <1>7 DEF FinalizeRow
    <3>2. tx[w].src \in Hold
      BY <1>7, SrcType DEF FinalizeRow
    <3>3. acked' \in SUBSET (Hold \cup Intent) /\ told' \in SUBSET Hold
      BY <3>1, <3>2, AnswerType DEF TypeOK
    <3> QED BY <2>0, <2>1, <3>3, RollBackTypeOK DEF TypeOK
  <2>2. CASE ~RollBack(w)
    BY <1>7, <2>2, GotoType DEF TypeOK, FinalizeRow, Pcs
  <2> QED BY <2>1, <2>2
<1>8. ASSUME NEW w \in Worker, FinalizeCheck(w) PROVE TypeOK'
  <2>0. UNCHANGED <<now, pi, paid, acked, told, emitted, crashes>>
    BY <1>8 DEF FinalizeCheck
  <2>1. CASE RollBack(w)
    BY <2>0, <2>1, RollBackTypeOK DEF TypeOK
  <2>2. CASE ~RollBack(w)
    <3>1. Goto(w, "insert") /\ UNCHANGED <<holds, res, Locks>>
      BY <1>8, <2>2 DEF FinalizeCheck
    <3> QED BY <2>0, <3>1, GotoType DEF TypeOK, Locks, Pcs
  <2> QED BY <2>1, <2>2
<1>9. ASSUME NEW w \in Worker, ReservationInsert(w) PROVE TypeOK'
  <2>0. UNCHANGED <<now, pi, paid, acked, told, emitted, crashes>>
    BY <1>9 DEF ReservationInsert
  <2>1. CASE RollBack(w)
    BY <2>0, <2>1, RollBackTypeOK DEF TypeOK
  <2>2. CASE ~RollBack(w)
    <3>1. PICK r \in Res : tx' = [tx EXCEPT ![w] = [@ EXCEPT !.new = r, !.pc = "commit"]]
      BY <1>9, <2>2 DEF ReservationInsert
    <3>2. UNCHANGED <<holds, res, Locks>>
      BY <1>9, <2>2 DEF ReservationInsert
    <3>3. tx' \in [Worker -> TxType]
      <4>1. [tx[w] EXCEPT !.new = r, !.pc = "commit"] \in TxType
        BY TxFields DEF TxType, Pcs
      <4> QED BY <3>1, <4>1, UpdateType
    <3> QED BY <2>0, <3>2, <3>3 DEF TypeOK, Locks
  <2> QED BY <2>1, <2>2
<1>10. ASSUME NEW w \in Worker, FinalizeCommit(w) PROVE TypeOK'
  <2>1. tx[w].new \in Res /\ tx[w].src \in Hold
    BY <1>10, TxFields, SrcType DEF FinalizeCommit
  <2>2. res' \in [Res -> ResRow]
    <3>1. [status |-> "confirmed", stay |-> tx[w].stay, src |-> tx[w].src] \in ResRow
      BY TxFields DEF ResRow, ResStatus
    <3> QED BY <1>10, <3>1 DEF TypeOK, FinalizeCommit
  <2>3. holds' \in [Hold -> HoldRow]
    <3>1. /\ Expired(w) \in [Hold -> HoldRow]
          /\ holds' = [Expired(w) EXCEPT ![tx[w].src].status = "converted",
                                        ![tx[w].src].res = tx[w].new]
      BY <1>10, ExpiredType DEF FinalizeCommit
    <3> HIDE DEF Expired
    <3>2. [Expired(w)[tx[w].src] EXCEPT !.status = "converted", !.res = tx[w].new] \in HoldRow
      BY <2>1, <3>1 DEF HoldRow, HoldStatus
    <3> QED BY <2>1, <3>1, <3>2
  <2>4. tx' \in [Worker -> TxType]
    <3>1. [tx[w] EXCEPT !.pc = "emit", !.expiring = {}] \in TxType
      BY TxFields DEF TxType, Pcs
    <3> QED BY <1>10, <3>1, UpdateType DEF FinalizeCommit
  <2> QED BY <1>10, <2>2, <2>3, <2>4, ReleaseType DEF TypeOK, FinalizeCommit
<1>11. ASSUME NEW w \in Worker, FinalizeEmit(w) PROVE TypeOK'
  <2>1. tx[w].src \in Hold /\ tx[w].new \in Res
    BY <1>11, SrcType, TxFields DEF FinalizeEmit
  <2>2. emitted' \in [Res -> Nat]
    BY <1>11, <2>1 DEF TypeOK, FinalizeEmit
  <2>3. tx' \in [Worker -> TxType]
    BY <1>11, NoTxType DEF TypeOK, FinalizeEmit
  <2>4. acked' \in SUBSET (Hold \cup Intent) /\ told' \in SUBSET Hold
    BY <1>11, <2>1, AnswerType DEF FinalizeEmit
  <2> QED BY <1>11, <2>2, <2>3, <2>4 DEF TypeOK, FinalizeEmit, Locks
<1>12. ASSUME NEW w \in Worker, StoreCheckReservations(w) \/ StoreCheckHolds(w) PROVE TypeOK'
  <2>0. /\ UNCHANGED <<now, pi, paid, told, emitted, crashes>>
        /\ tx[w].src \in Intent
    BY <1>12, SrcType DEF StoreCheckReservations, StoreCheckHolds, StoreRefuse
  <2>1. CASE RollBack(w)
    <3>1. acked' \in SUBSET (Hold \cup Intent)
      BY <1>12, <2>0 DEF TypeOK, StoreCheckReservations, StoreCheckHolds, StoreRefuse
    <3> QED BY <2>0, <2>1, <3>1, RollBackTypeOK DEF TypeOK
  <2>2. CASE ~RollBack(w)
    <3>1. /\ Goto(w, "holds") \/ Goto(w, "insert")
          /\ UNCHANGED <<holds, res, Locks, acked>>
      BY <1>12, <2>2 DEF StoreCheckReservations, StoreCheckHolds, StoreRefuse
    <3> QED BY <2>0, <3>1, GotoType DEF TypeOK, Locks, Pcs
  <2> QED BY <2>1, <2>2
<1>13. ASSUME NEW w \in Worker, StoreCommit(w) PROVE TypeOK'
  <2>1. tx[w].src \in Intent
    BY <1>13, SrcType DEF StoreCommit
  <2>2. [status |-> "confirmed", stay |-> tx[w].stay, src |-> tx[w].src] \in ResRow
    BY TxFields DEF ResRow, ResStatus
  <2> QED BY <1>13, <2>1, <2>2, NoTxType, ReleaseType DEF TypeOK, StoreCommit
<1>14. ASSUME NEW w \in Worker, QuoteRefuse(w) \/ DeadlockVictim(w) PROVE TypeOK'
  BY <1>14, RollBackTypeOK DEF TypeOK, QuoteRefuse, DeadlockVictim
<1>15. ASSUME NEW w \in Worker, Request(w) PROVE TypeOK'
  <2>1. ASSUME NEW s \in Stay, QuoteStart(w, s) PROVE TypeOK'
    <3>1. tx' \in [Worker -> TxType]
      BY <2>1, BeginType DEF QuoteStart, Ops, Pcs
    <3> QED BY <2>1, <3>1 DEF TypeOK, QuoteStart, Locks
  <2>2. ASSUME NEW h \in Hold, NEW s \in Stay, BookStart(w, h, s) PROVE TypeOK'
    <3>1. tx' \in [Worker -> TxType]
      BY <2>2, BeginType DEF BookStart, Ops, Pcs
    <3> QED BY <2>2, <3>1 DEF TypeOK, BookStart, Locks
  <2>3. ASSUME NEW h \in Hold PROVE holds[h].stay \in Stay
    BY DEF TypeOK, HoldRow
  <2>4. ASSUME NEW h \in Hold, ConfirmStart(w, h) PROVE TypeOK'
    <3>1. tx' \in [Worker -> TxType]
      BY <2>3, <2>4, BeginType DEF ConfirmStart, Ops, Pcs, Finalizers
    <3> QED BY <2>4, <3>1 DEF TypeOK, ConfirmStart, Locks
  <2>5. ASSUME NEW h \in Hold, NEW op \in {"webhook", "webhook_direct"},
               WebhookStart(w, h, op)
        PROVE TypeOK'
    <3>1. tx' \in [Worker -> TxType]
      <4>1. CASE UNCHANGED tx
        BY <4>1 DEF TypeOK
      <4>2. CASE Begin(w, op, "row", h, holds[h].stay)
        BY <2>3, <4>2, BeginType DEF Ops, Pcs, Finalizers
      <4> QED BY <2>5, <4>1, <4>2 DEF WebhookStart
    <3>2. acked' \in SUBSET (Hold \cup Intent)
      BY <2>5 DEF TypeOK, WebhookStart
    <3> QED BY <2>5, <3>1, <3>2 DEF TypeOK, WebhookStart, Locks
  <2>6. ASSUME NEW i \in Intent, StoreStart(w, i) PROVE TypeOK'
    <3>1. tx' \in [Worker -> TxType]
      <4>1. CASE UNCHANGED tx
        BY <4>1 DEF TypeOK
      <4>2. CASE Begin(w, "store", "check", i, StayOfIntent[i])
        BY <4>2, BeginType, ConstantsAssumption DEF Ops, Pcs
      <4> QED BY <2>6, <4>1, <4>2 DEF StoreStart
    <3>2. acked' \in SUBSET (Hold \cup Intent)
      BY <2>6 DEF TypeOK, StoreStart
    <3> QED BY <2>6, <3>1, <3>2 DEF TypeOK, StoreStart, Locks
  <2> QED BY <1>15, <2>1, <2>2, <2>4, <2>5, <2>6 DEF Request
<1>16. ASSUME NEW w \in Worker, Crash(w) PROVE TypeOK'
  <2>1. crashes' \in Nat
    BY <1>16 DEF TypeOK, Crash
  <2> QED BY <1>16, <2>1, RollBackTypeOK DEF TypeOK, Crash
<1>17. ASSUME Environment PROVE TypeOK'
  <2>1. ASSUME NEW h \in Hold, GuestPays(h) PROVE TypeOK'
    BY <2>1 DEF TypeOK, GuestPays, Locks
  <2>2. ASSUME NEW i \in Intent, StorefrontPays(i) PROVE TypeOK'
    BY <2>2 DEF TypeOK, StorefrontPays, Locks
  <2>3. ASSUME NEW r \in Res, CancelBooking(r) PROVE TypeOK'
    <3>1. res' \in [Res -> ResRow]
      BY <2>3 DEF TypeOK, CancelBooking, ResRow, ResStatus
    <3> QED BY <2>3, <3>1 DEF TypeOK, CancelBooking, Locks
  <2>4. ASSUME Tick PROVE TypeOK'
    BY <2>4 DEF TypeOK, Tick, Locks
  <2> QED BY <1>17, <2>1, <2>2, <2>3, <2>4 DEF Environment
<1> QED BY <1>0, <1>1, <1>2, <1>3, <1>4, <1>5, <1>6, <1>7, <1>8, <1>9, <1>10,
           <1>11, <1>12, <1>13, <1>14, <1>15, <1>16, <1>17 DEF Next, TxStep
-----------------------------------------------------------------------------
(* Bookkeeping.                                                            *)

\* Every stay is in a property that has an advisory lock.
LEMMA StayProp == ASSUME NEW s \in Stay PROVE s.prop \in Property /\ s.ci \in Nat /\ s.co \in Nat
BY ConstantsAssumption DEF StayType

LEMMA NoTxFields ==
    /\ NoTx.op = "none" /\ NoTx.pc = "idle" /\ NoTx.src = None
    /\ NoTx.new = None /\ NoTx.expiring = {} /\ NoTx.stay = SomeStay
BY DEF NoTx

\* A session at rest is in no critical section and names no row.
LEMMA NoTxIdle == WellFormed(NoTx)
BY NoTxFields, ConstantsAssumption DEF WellFormed, Finalizers

\* None is not an id.
LEMMA NoneIsNoId ==
    None \notin Hold /\ None \notin Res /\ None \notin Worker /\ None \notin Intent
BY ConstantsAssumption

\* The parts of Bookkeeping speak of sessions, rows and locks only.
LEMMA BookkeepingFrame ==
    Bookkeeping /\ UNCHANGED <<tx, advLock, rowLock, holds, res>> => Bookkeeping'
BY DEF Bookkeeping, TxShape, WellFormed, AdvisoryLockOwned, Locked, RowLockOwned,
       OwnsHold, ConvertsUnexpired, HoldIdsFresh, ResIdsFresh, ReservationSources,
       OneReservationPerHold

\* What a rollback does to the session and its locks.
LEMMA Unlocked ==
    ASSUME TypeOK, NEW w \in Worker, ReleaseLocks(w)
    PROVE  /\ \A p \in Property : advLock'[p] = IF advLock[p] = w THEN None ELSE advLock[p]
           /\ \A h \in Hold : rowLock'[h] = IF rowLock[h] = w THEN None ELSE rowLock[h]
BY DEF TypeOK, ReleaseLocks, Unlock

\* A step of one session that leaves the rows alone and takes or gives back
\* only locks nobody else holds disturbs nobody: what is left to show is what
\* the invariant says of that session.
LEMMA SessionStepKeeps ==
    ASSUME TypeOK, Bookkeeping, NEW w \in Worker,
           UNCHANGED <<holds, res>>,
           \A v \in Worker \ {w} : tx'[v] = tx[v],
           \A p \in Property : advLock'[p] = advLock[p] \/ advLock[p] \in {None, w},
           \A h \in Hold : rowLock'[h] = rowLock[h] \/ rowLock[h] \in {None, w},
           tx'[w].op \in Ops,
           WellFormed(tx'[w]),
           Locked(w)' => advLock'[tx'[w].stay.prop] = w,
           OwnsHold(w)' => /\ rowLock'[tx'[w].src] = w
                           /\ holds[tx'[w].src].status = "active",
           \A h \in tx'[w].expiring : rowLock'[h] = w /\ holds[h].status = "active",
           tx'[w].op \in Finalizers /\ tx'[w].pc \in {"insert", "commit"}
               => tx'[w].src \notin tx'[w].expiring,
           tx'[w].op = "book" =>
               /\ holds[tx'[w].src].status = "none"
               /\ \A v \in Worker \ {w} : tx[v].src # tx'[w].src,
           tx'[w].op \in Finalizers =>
               /\ holds[tx'[w].src].status # "none"
               /\ tx'[w].stay = holds[tx'[w].src].stay,
           tx'[w].new # None =>
               /\ \A v \in Worker \ {w} : tx[v].new # tx'[w].new
               /\ tx'[w].pc = "commit" => res[tx'[w].new].status = "none"
               /\ tx'[w].pc = "emit" => res[tx'[w].new].status # "none"
    PROVE  Bookkeeping'
<1>3. TxShape'
  BY DEF Bookkeeping, TxShape
<1>4. AdvisoryLockOwned'
  <2> SUFFICES ASSUME NEW v \in Worker, Locked(v)' PROVE (advLock[tx[v].stay.prop] = v)'
    BY DEF AdvisoryLockOwned
  <2>1. CASE v # w
    <3>1. Locked(v) /\ tx'[v] = tx[v]
      BY <2>1 DEF Locked
    <3> QED BY <2>1, <3>1, TxFields, StayProp, NoneIsNoId DEF Bookkeeping, AdvisoryLockOwned
  <2> QED BY <2>1
<1>5. RowLockOwned'
  <2> SUFFICES ASSUME NEW v \in Worker
               PROVE  /\ OwnsHold(v)' => /\ rowLock'[tx'[v].src] = v
                                         /\ holds'[tx'[v].src].status = "active"
                      /\ \A h \in tx'[v].expiring : /\ rowLock'[h] = v
                                                    /\ holds'[h].status = "active"
    BY DEF RowLockOwned
  <2>2. CASE v # w
    <3>1. OwnsHold(v)' => OwnsHold(v) /\ tx[v].src \in Hold
      BY <2>2 DEF OwnsHold, Bookkeeping, TxShape, WellFormed
    <3> QED BY <2>2, <3>1, TxFields, NoneIsNoId DEF Bookkeeping, RowLockOwned
  <2> QED BY <2>2
<1>6. ConvertsUnexpired'
  BY DEF Bookkeeping, ConvertsUnexpired
<1>7. HoldIdsFresh'
  <2> SUFFICES ASSUME NEW v \in Worker, v # w
               PROVE  /\ tx[v].op = "book" =>
                            /\ holds[tx[v].src].status = "none"
                            /\ \A u \in Worker \ {v} : tx'[u].src # tx[v].src
                      /\ tx[v].op \in Finalizers =>
                            /\ holds[tx[v].src].status # "none"
                            /\ tx[v].stay = holds[tx[v].src].stay
    BY DEF HoldIdsFresh
  <2>1. tx[v].op = "book" => tx'[w].src # tx[v].src
    <3> SUFFICES ASSUME tx[v].op = "book", tx'[w].src = tx[v].src PROVE FALSE
      OBVIOUS
    <3>1. tx[v].src \in Hold /\ holds[tx[v].src].status = "none"
      BY DEF Bookkeeping, HoldIdsFresh, TxShape, WellFormed
    <3>2. tx'[w].op \notin {"none", "quote"} \cup Finalizers
      BY <3>1, NoneIsNoId DEF WellFormed
    <3>3. tx'[w].op # "store"
      BY <3>1, ConstantsAssumption DEF WellFormed
    <3>4. tx'[w].op # "book"
      OBVIOUS
    <3> QED BY <3>2, <3>3, <3>4 DEF Ops
  <2> QED BY <2>1 DEF Bookkeeping, HoldIdsFresh
<1>8. ResIdsFresh'
  BY DEF Bookkeeping, ResIdsFresh
<1>9. ReservationSources' /\ OneReservationPerHold'
  BY DEF Bookkeeping, ReservationSources, OneReservationPerHold
<1> QED BY <1>3, <1>4, <1>5, <1>6, <1>7, <1>8, <1>9 DEF Bookkeeping

\* A rollback leaves the other sessions' locks, rows and ids alone.
LEMMA RollBackKeeps ==
    ASSUME TypeOK, Bookkeeping, NEW w \in Worker, RollBack(w)
    PROVE  Bookkeeping'
<1>1. /\ tx'[w] = NoTx
      /\ \A v \in Worker \ {w} : tx'[v] = tx[v]
      /\ UNCHANGED <<holds, res>>
  BY DEF TypeOK, RollBack
<1>2. /\ \A p \in Property : advLock'[p] = IF advLock[p] = w THEN None ELSE advLock[p]
      /\ \A h \in Hold : rowLock'[h] = IF rowLock[h] = w THEN None ELSE rowLock[h]
  BY Unlocked DEF RollBack
<1>3. /\ ~Locked(w)'
      /\ ~OwnsHold(w)'
      /\ tx'[w].op \notin Finalizers \cup {"book"}
      /\ tx'[w].op \in Ops
  BY <1>1, NoTxFields DEF Locked, OwnsHold, Finalizers, Ops
<1> QED BY <1>1, <1>2, <1>3, NoTxFields, NoTxIdle, SessionStepKeeps

\* A new request starts outside every critical section.
LEMMA BeginKeeps ==
    ASSUME TypeOK, Bookkeeping, NEW w \in Worker, NEW op \in Ops, NEW pc,
           NEW src, NEW s, Begin(w, op, pc, src, s),
           UNCHANGED <<holds, res, advLock, rowLock>>,
           WellFormed([NoTx EXCEPT !.op = op, !.pc = pc, !.src = src, !.stay = s]),
           pc \in {"lock", "row"} \/ op = "store",
           op \in Finalizers => pc = "row" /\ holds[src].status # "none" /\ s = holds[src].stay,
           op = "book" => FreshHold(src)
    PROVE  Bookkeeping'
<1> DEFINE t == [NoTx EXCEPT !.op = op, !.pc = pc, !.src = src, !.stay = s]
<1>1. /\ tx'[w] = t
      /\ \A v \in Worker \ {w} : tx'[v] = tx[v]
  BY DEF TypeOK, Begin
<1>2. /\ t.op = op /\ t.pc = pc /\ t.src = src /\ t.stay = s
      /\ t.new = None /\ t.expiring = {}
  BY DEF NoTx
<1>3. ~Locked(w)' /\ ~OwnsHold(w)'
  BY <1>1, <1>2 DEF Locked, OwnsHold, Finalizers
<1>4. t.op \in Finalizers => t.pc \notin {"insert", "commit"} /\ t.op # "book"
  BY <1>2 DEF Finalizers
<1>5. op = "book" => holds[src].status = "none" /\ \A v \in Worker : tx[v].src # src
  BY DEF FreshHold
<1>6. WellFormed(tx'[w])
  BY <1>1
<1>7. /\ tx'[w].op = op /\ tx'[w].pc = pc /\ tx'[w].src = src /\ tx'[w].stay = s
      /\ tx'[w].new = None /\ tx'[w].expiring = {}
  BY <1>1, <1>2
<1>8. op \in Finalizers => pc \notin {"insert", "commit"} /\ op # "book"
  BY <1>2, <1>4
<1> HIDE DEF t
<1> QED BY <1>1, <1>3, <1>5, <1>6, <1>7, <1>8, SessionStepKeeps

\* The fields of a session that only moves on.
LEMMA GotoFields ==
    ASSUME TypeOK, NEW w \in Worker, NEW pc, Goto(w, pc)
    PROVE  /\ \A v \in Worker \ {w} : tx'[v] = tx[v]
           /\ tx'[w] = [tx[w] EXCEPT !.pc = pc]
           /\ tx'[w].op = tx[w].op /\ tx'[w].pc = pc /\ tx'[w].src = tx[w].src
           /\ tx'[w].stay = tx[w].stay /\ tx'[w].until = tx[w].until
           /\ tx'[w].new = tx[w].new /\ tx'[w].expiring = tx[w].expiring
BY DEF TypeOK, TxType, Goto

\* The same for the steps that also write another field.
LEMMA ExpireStaleFields ==
    ASSUME TypeOK, NEW w \in Worker, ExpireStale(w)
    PROVE  /\ \A v \in Worker \ {w} : tx'[v] = tx[v]
           /\ tx[w].pc = "expire"
           /\ tx'[w].op = tx[w].op
           /\ tx'[w].pc = (IF tx[w].op = "quote" THEN "commit" ELSE "check")
           /\ tx'[w].src = tx[w].src /\ tx'[w].stay = tx[w].stay
           /\ tx'[w].new = tx[w].new /\ tx'[w].expiring = Stale
           /\ UNCHANGED <<holds, res, advLock>>
BY DEF ExpireStale, TypeOK, TxType

LEMMA BookCheckFields ==
    ASSUME TypeOK, NEW w \in Worker, BookCheck(w), ~RollBack(w)
    PROVE  /\ \A v \in Worker \ {w} : tx'[v] = tx[v]
           /\ tx[w].op = "book" /\ tx[w].pc = "check"
           /\ tx'[w].op = "book" /\ tx'[w].pc = "pay" /\ tx'[w].src = tx[w].src
           /\ tx'[w].stay = tx[w].stay
           /\ tx'[w].new = tx[w].new /\ tx'[w].expiring = tx[w].expiring
           /\ Available(tx[w].stay, None)
           /\ UNCHANGED <<holds, res, advLock, rowLock>>
<1>1. /\ tx[w].op = "book" /\ tx[w].pc = "check"
      /\ tx' = [tx EXCEPT ![w] = [@ EXCEPT !.pc = "pay", !.until = now + TTL]]
      /\ Available(tx[w].stay, None)
      /\ UNCHANGED <<holds, res, advLock, rowLock>>
  BY DEF BookCheck, Locks
<1> QED BY <1>1 DEF TypeOK, TxType

LEMMA InsertFields ==
    ASSUME TypeOK, NEW w \in Worker, ReservationInsert(w), ~RollBack(w)
    PROVE  /\ \A v \in Worker \ {w} : tx'[v] = tx[v]
           /\ tx[w].pc = "insert"
           /\ tx'[w].op = tx[w].op /\ tx'[w].pc = "commit" /\ tx'[w].src = tx[w].src
           /\ tx'[w].stay = tx[w].stay /\ tx'[w].expiring = tx[w].expiring
           /\ tx'[w].new \in Res /\ FreshRes(tx'[w].new)
           /\ ~InsertConflict(tx[w].stay)
           /\ \A v \in Worker : ~InsertWaitsOn(w, v)
           /\ UNCHANGED <<holds, res, advLock, rowLock>>
<1>1. PICK r \in Res : /\ FreshRes(r)
                       /\ tx' = [tx EXCEPT ![w] = [@ EXCEPT !.new = r, !.pc = "commit"]]
  BY DEF ReservationInsert
<1>2. /\ tx[w].pc = "insert" /\ UNCHANGED <<holds, res, advLock, rowLock>>
      /\ ~InsertConflict(tx[w].stay)
      /\ \A v \in Worker : ~InsertWaitsOn(w, v)
  BY DEF ReservationInsert, Locks
<1>3. /\ \A v \in Worker \ {w} : tx'[v] = tx[v]
      /\ tx'[w].op = tx[w].op /\ tx'[w].pc = "commit" /\ tx'[w].src = tx[w].src
      /\ tx'[w].stay = tx[w].stay /\ tx'[w].expiring = tx[w].expiring
      /\ tx'[w].new = r
  BY <1>1 DEF TypeOK, TxType
<1> QED BY <1>1, <1>2, <1>3

LEMMA FinalizeCommitFields ==
    ASSUME TypeOK, NEW w \in Worker, FinalizeCommit(w)
    PROVE  /\ \A v \in Worker \ {w} : tx'[v] = tx[v]
           /\ tx[w].op \in Finalizers /\ tx[w].pc = "commit"
           /\ tx'[w].op = tx[w].op /\ tx'[w].pc = "emit" /\ tx'[w].src = tx[w].src
           /\ tx'[w].stay = tx[w].stay
           /\ tx'[w].new = tx[w].new /\ tx'[w].expiring = {}
<1>1. /\ tx[w].op \in Finalizers /\ tx[w].pc = "commit"
      /\ tx' = [tx EXCEPT ![w] = [@ EXCEPT !.pc = "emit", !.expiring = {}]]
  BY DEF FinalizeCommit
<1> QED BY <1>1 DEF TypeOK, TxType

\* A commit changes only rows the session has locked or created, keeps what
\* was converted, and ends its critical section: the other sessions' parts of
\* the invariant survive it.
LEMMA CommitKeeps ==
    ASSUME TypeOK, Bookkeeping, NEW w \in Worker,
           ReleaseLocks(w),
           \A v \in Worker \ {w} : tx'[v] = tx[v],
           WellFormed(tx'[w]),
           tx'[w].expiring = {},
           \/ tx'[w] = NoTx
           \/ /\ tx'[w].op \in Finalizers /\ tx'[w].op = tx[w].op /\ tx'[w].pc = "emit"
              /\ tx'[w].src = tx[w].src /\ tx'[w].stay = tx[w].stay
              /\ tx'[w].new = tx[w].new,
           \A h \in Hold : rowLock[h] # w /\ holds[h].status = "active"
                            => holds'[h] = holds[h],
           \A h \in Hold : holds[h].status # "none"
                            => holds'[h].status # "none" /\ holds'[h].stay = holds[h].stay,
           \A h \in Hold : holds[h].status = "none" /\ h # tx[w].src
                            => holds'[h] = holds[h],
           \A r \in Res : r # tx[w].new => res'[r] = res[r],
           tx[w].new # None => res'[tx[w].new].status # "none",
           ReservationSources', OneReservationPerHold'
    PROVE  Bookkeeping'
<1>1. /\ ~Locked(w)' /\ ~OwnsHold(w)'
      /\ ~(tx'[w].op \in Finalizers /\ tx'[w].pc \in {"insert", "commit"})
      /\ tx'[w].op # "book"
  BY NoTxFields DEF Locked, OwnsHold, Finalizers
<1>2. /\ \A p \in Property : advLock'[p] = IF advLock[p] = w THEN None ELSE advLock[p]
      /\ \A h \in Hold : rowLock'[h] = IF rowLock[h] = w THEN None ELSE rowLock[h]
  BY Unlocked
<1>3. TxShape'
  BY DEF Bookkeeping, TxShape
<1>4. AdvisoryLockOwned'
  <2> SUFFICES ASSUME NEW v \in Worker, Locked(v)' PROVE (advLock[tx[v].stay.prop] = v)'
    BY DEF AdvisoryLockOwned
  <2>1. v # w /\ Locked(v) /\ tx'[v] = tx[v]
    BY <1>1 DEF Locked
  <2> QED BY <1>2, <2>1, TxFields, StayProp DEF Bookkeeping, AdvisoryLockOwned
<1>5. RowLockOwned'
  <2> SUFFICES ASSUME NEW v \in Worker
               PROVE  /\ OwnsHold(v)' => /\ rowLock'[tx'[v].src] = v
                                         /\ holds'[tx'[v].src].status = "active"
                      /\ \A h \in tx'[v].expiring : /\ rowLock'[h] = v
                                                    /\ holds'[h].status = "active"
    BY DEF RowLockOwned
  <2>1. CASE v = w
    BY <1>1, <2>1
  <2>2. CASE v # w
    <3>1. OwnsHold(v)' => OwnsHold(v) /\ tx[v].src \in Hold
      BY <2>2 DEF OwnsHold, Bookkeeping, TxShape, WellFormed
    <3> QED BY <1>2, <2>2, <3>1, TxFields DEF Bookkeeping, RowLockOwned
  <2> QED BY <2>1, <2>2
<1>6. ConvertsUnexpired'
  BY <1>1 DEF Bookkeeping, ConvertsUnexpired
<1>7. HoldIdsFresh'
  <2>1. ASSUME NEW v \in Worker \ {w}, tx[v].op = "book"
        PROVE  /\ holds'[tx[v].src].status = "none"
               /\ \A u \in Worker \ {v} : tx'[u].src # tx[v].src
    <3>1. /\ tx[v].src \in Hold /\ holds[tx[v].src].status = "none"
          /\ \A u \in Worker \ {v} : tx[u].src # tx[v].src
      BY <2>1 DEF Bookkeeping, TxShape, WellFormed, HoldIdsFresh
    <3> QED BY <3>1, NoTxFields, NoneIsNoId
  <2>2. ASSUME NEW v \in Worker, tx'[v].op \in Finalizers
        PROVE  /\ holds'[tx'[v].src].status # "none"
               /\ tx'[v].stay = holds'[tx'[v].src].stay
    <3>1. tx[v].op \in Finalizers /\ tx'[v].src = tx[v].src /\ tx'[v].stay = tx[v].stay
      BY <2>2, NoTxFields DEF Finalizers
    <3>2. /\ tx[v].src \in Hold /\ holds[tx[v].src].status # "none"
          /\ tx[v].stay = holds[tx[v].src].stay
      BY <3>1 DEF Bookkeeping, TxShape, WellFormed, HoldIdsFresh
    <3> QED BY <3>1, <3>2
  <2> QED BY <1>1, <2>1, <2>2 DEF HoldIdsFresh
<1>8. ResIdsFresh'
  <2> SUFFICES ASSUME NEW v \in Worker, tx'[v].new # None
               PROVE  /\ \A u \in Worker \ {v} : tx'[u].new # tx'[v].new
                      /\ tx'[v].pc = "commit" => res'[tx'[v].new].status = "none"
                      /\ tx'[v].pc = "emit" => res'[tx'[v].new].status # "none"
    BY DEF ResIdsFresh
  <2>1. tx'[v].new = tx[v].new
    BY NoTxFields
  <2>2. \A u \in Worker : tx'[u].new = tx[u].new \/ tx'[u].new = None
    BY NoTxFields
  <2>3. tx[v].new \in Res
    BY <2>1, TxFields
  <2>4. \A u \in Worker \ {v} : tx[u].new # tx[v].new
    BY <2>1 DEF Bookkeeping, ResIdsFresh
  <2>5. CASE v = w
    BY <2>1, <2>2, <2>4, <2>5, NoTxFields
  <2>6. CASE v # w
    BY <2>1, <2>2, <2>3, <2>4, <2>6 DEF Bookkeeping, ResIdsFresh
  <2> QED BY <2>5, <2>6
<1> QED BY <1>3, <1>4, <1>5, <1>6, <1>7, <1>8 DEF Bookkeeping

\* The rows the commit of w marks expired were active and locked by it.
LEMMA ExpiredRows ==
    ASSUME TypeOK, Bookkeeping, NEW w \in Worker, NEW h \in Hold
    PROVE  /\ Expired(w)[h].stay = holds[h].stay
           /\ Expired(w)[h].res = holds[h].res
           /\ Expired(w)[h].expires = holds[h].expires
           /\ h \in tx[w].expiring => /\ Expired(w)[h].status = "expired"
                                      /\ rowLock[h] = w /\ holds[h].status = "active"
           /\ h \notin tx[w].expiring => Expired(w)[h] = holds[h]
<1>1. holds[h] \in HoldRow
  BY DEF TypeOK
<1> QED BY <1>1 DEF Expired, HoldRow, Bookkeeping, RowLockOwned

\* Bookkeeping is inductive: the steps of the quote and of the booking.
LEMMA BookingSteps ==
    ASSUME TypeOK, Bookkeeping, NEW w \in Worker,
           \/ AcquireLock(w) \/ ExpireStale(w) \/ QuoteCommit(w)
           \/ BookCheck(w) \/ BookPay(w) \/ BookCommit(w)
    PROVE  Bookkeeping'
<1>0. /\ tx[w].op \in Ops
      /\ WellFormed(tx[w])
      /\ tx[w].stay.prop \in Property
      /\ tx[w].op = "book" => /\ tx[w].src \in Hold
                              /\ holds[tx[w].src].status = "none"
                              /\ \A v \in Worker \ {w} : tx[v].src # tx[w].src
      /\ tx[w].op \in Finalizers =>
              /\ holds[tx[w].src].status # "none"
              /\ tx[w].stay = holds[tx[w].src].stay
  BY TxFields, StayProp DEF Bookkeeping, TxShape, WellFormed, HoldIdsFresh
<1>1. ASSUME AcquireLock(w) PROVE Bookkeeping'
  <2>1. /\ \A v \in Worker \ {w} : tx'[v] = tx[v]
        /\ tx'[w].op = tx[w].op /\ tx'[w].pc = "expire" /\ tx'[w].src = tx[w].src
        /\ tx'[w].stay = tx[w].stay
        /\ tx'[w].new = tx[w].new /\ tx'[w].expiring = tx[w].expiring
        /\ tx[w].pc = "lock"
        /\ advLock[tx[w].stay.prop] = None
        /\ advLock' = [advLock EXCEPT ![tx[w].stay.prop] = w]
        /\ UNCHANGED <<holds, res, rowLock>>
    BY <1>1, GotoFields DEF AcquireLock
  <2>2. WellFormed(tx'[w]) /\ tx'[w].new = None /\ tx'[w].expiring = {}
    BY <1>0, <2>1 DEF WellFormed, Finalizers
  <2>3. \A p \in Property : advLock'[p] = IF p = tx[w].stay.prop THEN w ELSE advLock[p]
    BY <2>1 DEF TypeOK
  <2>4. OwnsHold(w)' => rowLock[tx[w].src] = w /\ holds[tx[w].src].status = "active"
    BY <2>1 DEF OwnsHold, Bookkeeping, RowLockOwned
  <2> QED BY <1>0, <2>1, <2>2, <2>3, <2>4, SessionStepKeeps
<1>2. ASSUME ExpireStale(w) PROVE Bookkeeping'
  <2>1. /\ \A v \in Worker \ {w} : tx'[v] = tx[v]
        /\ tx'[w].op = tx[w].op
        /\ tx'[w].pc = (IF tx[w].op = "quote" THEN "commit" ELSE "check")
        /\ tx'[w].src = tx[w].src
        /\ tx'[w].stay = tx[w].stay
        /\ tx'[w].new = tx[w].new /\ tx'[w].expiring = Stale
        /\ tx[w].pc = "expire"
        /\ UNCHANGED <<holds, res, advLock>>
    BY <1>2, ExpireStaleFields
  <2>2. WellFormed(tx'[w]) /\ tx'[w].new = None
    BY <1>0, <2>1 DEF WellFormed, Finalizers, Ops
  <2>3. Locked(w)' => advLock'[tx'[w].stay.prop] = w
    BY <2>1 DEF Locked, Bookkeeping, AdvisoryLockOwned
  <2>4. \A h \in Hold : rowLock'[h] = IF h \in Stale THEN w ELSE rowLock[h]
    BY <1>2 DEF ExpireStale, TypeOK
  <2>5. \A h \in Stale : rowLock[h] \in {None, w} /\ h \in Hold /\ holds[h].status = "active"
    BY <1>2 DEF ExpireStale, Stale
  <2>6. OwnsHold(w)' => rowLock'[tx[w].src] = w /\ holds[tx[w].src].status = "active"
    BY <1>0, <2>1, <2>4 DEF OwnsHold, Bookkeeping, RowLockOwned, WellFormed
  <2>7. tx'[w].op \in Finalizers => tx'[w].pc = "check"
    BY <2>1 DEF Finalizers
  <2> QED BY <1>0, <2>1, <2>2, <2>3, <2>4, <2>5, <2>6, <2>7, SessionStepKeeps
<1>4. ASSUME BookCheck(w) PROVE Bookkeeping'
  <2>1. CASE RollBack(w)
    BY <2>1, RollBackKeeps
  <2>2. CASE ~RollBack(w)
    <3>1. /\ tx[w].op = "book" /\ tx[w].pc = "check"
          /\ UNCHANGED <<holds, res, advLock, rowLock>>
      BY <1>4, <2>2, BookCheckFields
    <3>2. /\ \A v \in Worker \ {w} : tx'[v] = tx[v]
          /\ tx'[w].op = "book" /\ tx'[w].pc = "pay" /\ tx'[w].src = tx[w].src
          /\ tx'[w].stay = tx[w].stay
          /\ tx'[w].new = tx[w].new /\ tx'[w].expiring = tx[w].expiring
      BY <1>4, <2>2, BookCheckFields
    <3>3. WellFormed(tx'[w]) /\ tx'[w].new = None
      BY <1>0, <3>1, <3>2 DEF WellFormed, Finalizers
    <3>4. advLock[tx[w].stay.prop] = w /\ ~OwnsHold(w)' /\ "book" \notin Finalizers
      BY <3>1, <3>2 DEF Locked, OwnsHold, Finalizers, Bookkeeping, AdvisoryLockOwned
    <3>5. \A h \in tx[w].expiring : rowLock[h] = w /\ holds[h].status = "active"
      BY DEF Bookkeeping, RowLockOwned
    <3> QED BY <1>0, <3>1, <3>2, <3>3, <3>4, <3>5, SessionStepKeeps
  <2> QED BY <2>1, <2>2
<1>5. ASSUME BookPay(w) PROVE Bookkeeping'
  <2>1. CASE RollBack(w)
    BY <2>1, RollBackKeeps
  <2>2. CASE ~RollBack(w)
    <3>1. /\ tx[w].op = "book" /\ tx[w].pc = "pay"
          /\ Goto(w, "commit")
          /\ UNCHANGED <<holds, res, advLock, rowLock>>
      BY <1>5, <2>2 DEF BookPay, Locks
    <3>2. /\ \A v \in Worker \ {w} : tx'[v] = tx[v]
          /\ tx'[w].op = "book" /\ tx'[w].pc = "commit" /\ tx'[w].src = tx[w].src
          /\ tx'[w].stay = tx[w].stay
          /\ tx'[w].new = tx[w].new /\ tx'[w].expiring = tx[w].expiring
      BY <3>1, GotoFields
    <3>3. WellFormed(tx'[w]) /\ tx'[w].new = None
      BY <1>0, <3>1, <3>2 DEF WellFormed, Finalizers
    <3>4. advLock[tx[w].stay.prop] = w /\ ~OwnsHold(w)' /\ "book" \notin Finalizers
      BY <3>1, <3>2 DEF Locked, OwnsHold, Finalizers, Bookkeeping, AdvisoryLockOwned
    <3>5. \A h \in tx[w].expiring : rowLock[h] = w /\ holds[h].status = "active"
      BY DEF Bookkeeping, RowLockOwned
    <3> QED BY <1>0, <3>1, <3>2, <3>3, <3>4, <3>5, SessionStepKeeps
  <2> QED BY <2>1, <2>2
<1>3. ASSUME QuoteCommit(w) PROVE Bookkeeping'
  <2>1. /\ holds' = Expired(w)
        /\ tx'[w] = NoTx
        /\ \A v \in Worker \ {w} : tx'[v] = tx[v]
        /\ ReleaseLocks(w)
        /\ res' = res
        /\ tx[w].new = None
    BY <1>0, <1>3 DEF QuoteCommit, TypeOK, WellFormed, Finalizers
  <2>2. ReservationSources' /\ OneReservationPerHold'
    BY <2>1, ExpiredRows DEF Bookkeeping, ReservationSources, OneReservationPerHold
  <2> QED BY <2>1, <2>2, ExpiredRows, NoTxFields, NoTxIdle, CommitKeeps
<1>6. ASSUME BookCommit(w) PROVE Bookkeeping'
  <2> DEFINE h == tx[w].src
             row == [status |-> "active", stay |-> tx[w].stay,
                     expires |-> tx[w].until, res |-> None]
  <2>1. /\ holds' = [Expired(w) EXCEPT ![h] = row]
        /\ tx'[w] = NoTx
        /\ \A v \in Worker \ {w} : tx'[v] = tx[v]
        /\ ReleaseLocks(w)
        /\ res' = res
        /\ tx[w].new = None
        /\ h \in Hold /\ holds[h].status = "none"
    BY <1>0, <1>6 DEF BookCommit, TypeOK, WellFormed, Finalizers
  <2>2. \A g \in Hold : holds'[g] = IF g = h THEN row ELSE Expired(w)[g]
    BY <2>1 DEF Expired
  <2>3. \A g \in Hold \ {h} : holds'[g] = Expired(w)[g]
    BY <2>2
  <2>4. \A r \in Res : res[r].status # "none" => res[r].src # h
    BY <2>1 DEF Bookkeeping, OneReservationPerHold
  <2>5. ReservationSources' /\ OneReservationPerHold'
    BY <2>1, <2>2, <2>4, ExpiredRows DEF Bookkeeping, ReservationSources, OneReservationPerHold
  <2> QED BY <2>1, <2>2, <2>5, ExpiredRows, NoTxFields, NoTxIdle, CommitKeeps
<1> QED BY <1>1, <1>2, <1>3, <1>4, <1>5, <1>6

\* The steps of a finalizer and of the storefront settlement.
LEMMA FinalizingSteps ==
    ASSUME TypeOK, Bookkeeping, NEW w \in Worker,
           \/ FinalizeRow(w) \/ FinalizeCheck(w) \/ ReservationInsert(w)
           \/ FinalizeCommit(w) \/ FinalizeEmit(w)
           \/ StoreCheckReservations(w) \/ StoreCheckHolds(w) \/ StoreCommit(w)
    PROVE  Bookkeeping'
<1>0. /\ tx[w].op \in Ops
      /\ WellFormed(tx[w])
      /\ tx[w].stay.prop \in Property
      /\ tx[w].op = "book" => /\ tx[w].src \in Hold
                              /\ holds[tx[w].src].status = "none"
                              /\ \A v \in Worker \ {w} : tx[v].src # tx[w].src
      /\ tx[w].op \in Finalizers =>
              /\ tx[w].src \in Hold
              /\ holds[tx[w].src].status # "none"
              /\ tx[w].stay = holds[tx[w].src].stay
  BY TxFields, StayProp DEF Bookkeeping, TxShape, WellFormed, HoldIdsFresh
<1>1. ASSUME FinalizeRow(w) PROVE Bookkeeping'
  <2>1. CASE RollBack(w)
    BY <2>1, RollBackKeeps
  <2>2. CASE ~RollBack(w)
    <3>1. /\ tx[w].pc = "row"
          /\ holds[tx[w].src].status = "active"
          /\ rowLock[tx[w].src] = None
          /\ rowLock' = [rowLock EXCEPT ![tx[w].src] = w]
          /\ Goto(w, "lock")
          /\ UNCHANGED <<holds, res, advLock>>
      BY <1>1, <2>2 DEF FinalizeRow
    <3>2. /\ \A v \in Worker \ {w} : tx'[v] = tx[v]
          /\ tx'[w].op = tx[w].op /\ tx'[w].pc = "lock" /\ tx'[w].src = tx[w].src
          /\ tx'[w].stay = tx[w].stay
          /\ tx'[w].new = tx[w].new /\ tx'[w].expiring = tx[w].expiring
      BY <3>1, GotoFields
    <3>3. tx[w].op \in Finalizers /\ tx[w].op # "book"
      BY <1>0, <3>1 DEF WellFormed, Finalizers
    <3>4. WellFormed(tx'[w]) /\ tx'[w].new = None /\ tx'[w].expiring = {}
      BY <1>0, <3>1, <3>2, <3>3 DEF WellFormed, Finalizers
    <3>5. \A h \in Hold : rowLock'[h] = IF h = tx[w].src THEN w ELSE rowLock[h]
      BY <3>1 DEF TypeOK
    <3>6. ~Locked(w)'
      BY <3>2 DEF Locked
    <3> QED BY <1>0, <3>1, <3>2, <3>3, <3>4, <3>5, <3>6, SessionStepKeeps
  <2> QED BY <2>1, <2>2
<1>2. ASSUME FinalizeCheck(w) PROVE Bookkeeping'
  <2>1. CASE RollBack(w)
    BY <2>1, RollBackKeeps
  <2>2. CASE ~RollBack(w)
    <3>1. /\ tx[w].op \in Finalizers /\ tx[w].pc = "check" /\ tx[w].op # "book"
          /\ tx[w].src \notin tx[w].expiring
          /\ Goto(w, "insert")
          /\ UNCHANGED <<holds, res, advLock, rowLock>>
      BY <1>2, <2>2 DEF FinalizeCheck, Locks, Finalizers
    <3>2. /\ \A v \in Worker \ {w} : tx'[v] = tx[v]
          /\ tx'[w].op = tx[w].op /\ tx'[w].pc = "insert" /\ tx'[w].src = tx[w].src
          /\ tx'[w].stay = tx[w].stay
          /\ tx'[w].new = tx[w].new /\ tx'[w].expiring = tx[w].expiring
      BY <3>1, GotoFields
    <3>3. WellFormed(tx'[w]) /\ tx'[w].new = None
      BY <1>0, <3>1, <3>2 DEF WellFormed, Finalizers
    <3>4. /\ advLock[tx[w].stay.prop] = w
          /\ rowLock[tx[w].src] = w /\ holds[tx[w].src].status = "active"
      BY <3>1 DEF Locked, OwnsHold, Bookkeeping, AdvisoryLockOwned, RowLockOwned
    <3>5. \A h \in tx[w].expiring : rowLock[h] = w /\ holds[h].status = "active"
      BY DEF Bookkeeping, RowLockOwned
    <3> QED BY <1>0, <3>1, <3>2, <3>3, <3>4, <3>5, SessionStepKeeps
  <2> QED BY <2>1, <2>2
<1>3. ASSUME ReservationInsert(w) PROVE Bookkeeping'
  <2>1. CASE RollBack(w)
    BY <2>1, RollBackKeeps
  <2>2. CASE ~RollBack(w)
    <3>2. tx[w].pc = "insert" /\ UNCHANGED <<holds, res, advLock, rowLock>>
      BY <1>3, <2>2, InsertFields
    <3>3. /\ \A v \in Worker \ {w} : tx'[v] = tx[v]
          /\ tx'[w].op = tx[w].op /\ tx'[w].pc = "commit" /\ tx'[w].src = tx[w].src
          /\ tx'[w].stay = tx[w].stay /\ tx'[w].expiring = tx[w].expiring
          /\ tx'[w].new \in Res
      BY <1>3, <2>2, InsertFields
    <3>4. tx[w].op \in Finalizers \cup {"store"} /\ tx[w].op # "book"
      BY <1>0, <3>2 DEF WellFormed, Ops, Finalizers
    <3>5. WellFormed(tx'[w])
      BY <1>0, <3>2, <3>3, <3>4, NoneIsNoId DEF WellFormed, Finalizers
    <3>6. tx[w].op \in Finalizers =>
             /\ advLock[tx[w].stay.prop] = w
             /\ rowLock[tx[w].src] = w /\ holds[tx[w].src].status = "active"
             /\ tx[w].src \notin tx[w].expiring
      BY <3>2 DEF Locked, OwnsHold, Bookkeeping, AdvisoryLockOwned, RowLockOwned,
                  ConvertsUnexpired
    <3>7. tx[w].op = "store" => ~Locked(w)' /\ ~OwnsHold(w)'
      BY <3>3 DEF Locked, OwnsHold, Finalizers
    <3>8. \A h \in tx[w].expiring : rowLock[h] = w /\ holds[h].status = "active"
      BY DEF Bookkeeping, RowLockOwned
    <3>9. /\ res[tx'[w].new].status = "none"
          /\ \A v \in Worker : tx[v].new # tx'[w].new
      BY <1>3, <2>2, InsertFields DEF FreshRes
    <3> QED BY <1>0, <3>2, <3>3, <3>4, <3>5, <3>6, <3>7, <3>8, <3>9, SessionStepKeeps
  <2> QED BY <2>1, <2>2
<1>4. ASSUME FinalizeCommit(w) PROVE Bookkeeping'
  <2> DEFINE h == tx[w].src
             r == tx[w].new
             row == [status |-> "confirmed", stay |-> tx[w].stay, src |-> h]
  <2>1. /\ tx[w].op \in Finalizers /\ tx[w].pc = "commit"
        /\ res' = [res EXCEPT ![r] = row]
        /\ holds' = [Expired(w) EXCEPT ![h].status = "converted", ![h].res = r]
        /\ ReleaseLocks(w)
    BY <1>4 DEF FinalizeCommit
  <2>2. /\ h \in Hold /\ r \in Res /\ r # None
        /\ holds[h].status = "active" /\ rowLock[h] = w
        /\ h \notin tx[w].expiring
        /\ tx[w].stay = holds[h].stay
        /\ res[r].status = "none"
    BY <1>0, <2>1, TxFields DEF WellFormed, OwnsHold, Bookkeeping, RowLockOwned,
                                ConvertsUnexpired, ResIdsFresh
  <2>3. /\ \A v \in Worker \ {w} : tx'[v] = tx[v]
        /\ tx'[w].op = tx[w].op /\ tx'[w].pc = "emit" /\ tx'[w].src = h
        /\ tx'[w].stay = tx[w].stay
        /\ tx'[w].new = r /\ tx'[w].expiring = {}
    BY <1>4, FinalizeCommitFields
  <2>4. WellFormed(tx'[w])
    BY <1>0, <2>1, <2>2, <2>3 DEF WellFormed, Finalizers
  <2>5. \A q \in Res : res'[q] = IF q = r THEN row ELSE res[q]
    BY <2>1 DEF TypeOK
  <2>6. Expired(w) \in [Hold -> HoldRow] /\ Expired(w)[h] = holds[h]
    BY <2>2, ExpiredType, ExpiredRows
  <2>7. /\ \A g \in Hold \ {h} : holds'[g] = Expired(w)[g]
        /\ holds'[h].status = "converted" /\ holds'[h].res = r
        /\ holds'[h].stay = holds[h].stay
    BY <2>1, <2>2, <2>6 DEF HoldRow
  <2>8. \A q \in Res : res[q].status # "none" => res[q].src # h
    BY <2>2 DEF Bookkeeping, OneReservationPerHold
  <2>9. /\ \A g \in Hold \ {h} : /\ holds'[g].status = "converted" => holds'[g] = holds[g]
                                 /\ holds[g].status = "converted" => holds'[g] = holds[g]
                                 /\ holds'[g].stay = holds[g].stay
                                 /\ holds[g].status # "none" => holds'[g].status # "none"
                                 /\ holds[g].status = "none" => holds'[g] = holds[g]
                                 /\ rowLock[g] # w => holds'[g] = holds[g]
    BY <2>7, ExpiredRows
  <2>10. ReservationSources'
    <3>1. \A q \in Res : res'[q].status # "none" => res'[q].src \in Hold \cup Intent
      BY <2>2, <2>5 DEF Bookkeeping, ReservationSources
    <3>2. ASSUME NEW g \in Hold, holds'[g].status = "converted"
          PROVE  /\ holds'[g].res \in Res
                 /\ res'[holds'[g].res].status # "none"
                 /\ res'[holds'[g].res].src = g
                 /\ res'[holds'[g].res].stay = holds'[g].stay
      <4>1. CASE g = h
        BY <2>2, <2>5, <2>7, <4>1
      <4>2. CASE g # h
        <5>1. holds'[g] = holds[g] /\ holds[g].status = "converted"
          BY <2>9, <3>2, <4>2
        <5>2. /\ holds[g].res \in Res /\ holds[g].res # r
              /\ res[holds[g].res].status # "none"
              /\ res[holds[g].res].src = g
              /\ res[holds[g].res].stay = holds[g].stay
          BY <2>2, <5>1 DEF Bookkeeping, ReservationSources
        <5>3. res'[holds[g].res] = res[holds[g].res]
          BY <2>5, <5>2
        <5> QED BY <5>1, <5>2, <5>3
      <4> QED BY <4>1, <4>2
    <3> QED BY <3>1, <3>2 DEF ReservationSources
  <2>11. OneReservationPerHold'
    <3> SUFFICES ASSUME NEW g \in Hold, NEW q \in Res,
                        res'[q].status # "none", res'[q].src = g
                 PROVE  holds'[g].status = "converted" /\ holds'[g].res = q
      BY DEF OneReservationPerHold
    <3>1. CASE q = r
      BY <2>5, <2>7, <3>1
    <3>2. CASE q # r
      <4>1. res[q].status # "none" /\ res[q].src = g /\ g # h
        BY <2>5, <2>8, <3>2
      <4>2. holds[g].status = "converted" /\ holds[g].res = q
        BY <4>1 DEF Bookkeeping, OneReservationPerHold
      <4> QED BY <2>9, <4>1, <4>2
    <3> QED BY <3>1, <3>2
  <2>12. \A q \in Res : q # tx[w].new => res'[q] = res[q]
    BY <2>5
  <2>13. res'[r].status # "none"
    BY <2>2, <2>5
  <2>14. tx[w].new # None => res'[tx[w].new].status # "none"
    BY <2>13
  <2>15. ReleaseLocks(w)
    BY <2>1
  <2>16. /\ tx'[w].op \in Finalizers /\ tx'[w].op = tx[w].op /\ tx'[w].pc = "emit"
         /\ tx'[w].src = tx[w].src /\ tx'[w].stay = tx[w].stay
         /\ tx'[w].new = tx[w].new
    BY <2>1, <2>3
  <2>17. ASSUME NEW g \in Hold, rowLock[g] # w, holds[g].status = "active"
         PROVE  holds'[g] = holds[g]
    <3>1. g # h
      BY <2>2, <2>17
    <3> HIDE DEF h
    <3> QED BY <2>9, <2>17, <3>1
  <2>18. ASSUME NEW g \in Hold, holds[g].status # "none"
         PROVE  holds'[g].status # "none" /\ holds'[g].stay = holds[g].stay
    <3> HIDE DEF h
    <3>1. CASE g = h
      BY <2>7, <3>1
    <3>2. CASE g # h
      BY <2>9, <2>18, <3>2
    <3> QED BY <3>1, <3>2
  <2>19. ASSUME NEW g \in Hold, holds[g].status = "none", g # tx[w].src
         PROVE  holds'[g] = holds[g]
    <3>1. g # h
      BY <2>19
    <3> HIDE DEF h
    <3> QED BY <2>9, <2>19, <3>1
  <2>20. tx'[w].expiring = {} /\ \A v \in Worker \ {w} : tx'[v] = tx[v]
    BY <2>3
  <2> HIDE DEF h, r, row
  <2> QED BY <2>4, <2>10, <2>11, <2>12, <2>14, <2>15, <2>16, <2>17, <2>18, <2>19, <2>20,
             CommitKeeps
<1>5. ASSUME FinalizeEmit(w) PROVE Bookkeeping'
  <2>1. /\ tx'[w] = NoTx
        /\ \A v \in Worker \ {w} : tx'[v] = tx[v]
        /\ UNCHANGED <<holds, res, advLock, rowLock>>
    BY <1>5 DEF FinalizeEmit, TypeOK, Locks
  <2>2. /\ ~Locked(w)' /\ ~OwnsHold(w)'
        /\ tx'[w].op \notin Finalizers \cup {"book"}
        /\ tx'[w].op \in Ops
    BY <2>1, NoTxFields DEF Locked, OwnsHold, Finalizers, Ops
  <2> QED BY <2>1, <2>2, NoTxFields, NoTxIdle, SessionStepKeeps
<1>6. ASSUME StoreCheckReservations(w) \/ StoreCheckHolds(w) PROVE Bookkeeping'
  <2>1. CASE RollBack(w)
    BY <2>1, RollBackKeeps
  <2>2. CASE ~RollBack(w)
    <3>1. /\ tx[w].op = "store" /\ tx[w].pc \in {"check", "holds"}
          /\ Goto(w, "holds") \/ Goto(w, "insert")
          /\ UNCHANGED <<holds, res, advLock, rowLock>>
      BY <1>6, <2>2 DEF StoreCheckReservations, StoreCheckHolds, StoreRefuse, Locks
    <3>2. /\ \A v \in Worker \ {w} : tx'[v] = tx[v]
          /\ tx'[w].op = "store" /\ tx'[w].pc \in {"holds", "insert"}
          /\ tx'[w].src = tx[w].src
          /\ tx'[w].stay = tx[w].stay
          /\ tx'[w].new = tx[w].new /\ tx'[w].expiring = tx[w].expiring
      BY <3>1, GotoFields
    <3>3. WellFormed(tx'[w]) /\ tx'[w].new = None /\ tx'[w].expiring = {}
      BY <1>0, <3>1, <3>2 DEF WellFormed, Finalizers
    <3>4. ~Locked(w)' /\ ~OwnsHold(w)' /\ tx'[w].op \notin Finalizers \cup {"book"}
      BY <3>2 DEF Locked, OwnsHold, Finalizers
    <3> QED BY <1>0, <3>1, <3>2, <3>3, <3>4, SessionStepKeeps
  <2> QED BY <2>1, <2>2
<1>7. ASSUME StoreCommit(w) PROVE Bookkeeping'
  <2> DEFINE i == tx[w].src
             r == tx[w].new
             row == [status |-> "confirmed", stay |-> tx[w].stay, src |-> i]
  <2>1. /\ tx[w].op = "store" /\ tx[w].pc = "commit"
        /\ res' = [res EXCEPT ![r] = row]
        /\ tx'[w] = NoTx
        /\ \A v \in Worker \ {w} : tx'[v] = tx[v]
        /\ ReleaseLocks(w)
        /\ UNCHANGED holds
    BY <1>7 DEF StoreCommit, TypeOK
  <2>2. /\ i \in Intent /\ i \notin Hold
        /\ r \in Res /\ r # None
        /\ res[r].status = "none"
    BY <1>0, <2>1, TxFields, ConstantsAssumption DEF WellFormed, Bookkeeping, ResIdsFresh
  <2>3. \A q \in Res : res'[q] = IF q = r THEN row ELSE res[q]
    BY <2>1 DEF TypeOK
  <2>4. ReservationSources' /\ OneReservationPerHold'
    BY <2>1, <2>2, <2>3 DEF Bookkeeping, ReservationSources, OneReservationPerHold
  <2> QED BY <2>1, <2>2, <2>3, <2>4, NoTxFields, NoTxIdle, CommitKeeps
<1> QED BY <1>1, <1>2, <1>3, <1>4, <1>5, <1>6, <1>7

\* New requests.
LEMMA RequestKeeps ==
    ASSUME TypeOK, Bookkeeping, NEW w \in Worker, Request(w)
    PROVE  Bookkeeping'
<1> DEFINE Shape(op, pc, src, s) ==
      WellFormed([NoTx EXCEPT !.op = op, !.pc = pc, !.src = src, !.stay = s])
<1>1. ASSUME NEW s \in Stay, QuoteStart(w, s) PROVE Bookkeeping'
  <2>1. Shape("quote", "lock", None, s)
    BY NoneIsNoId DEF WellFormed, NoTx, Finalizers
  <2>2. Begin(w, "quote", "lock", None, s) /\ UNCHANGED <<holds, res, advLock, rowLock>>
    BY <1>1 DEF QuoteStart, Locks
  <2>3. "quote" \in Ops /\ "quote" \notin Finalizers
    BY DEF Ops, Finalizers
  <2> QED BY <2>1, <2>2, <2>3, BeginKeeps
<1>2. ASSUME NEW h \in Hold, NEW s \in Stay, BookStart(w, h, s) PROVE Bookkeeping'
  <2>1. Shape("book", "lock", h, s)
    BY NoneIsNoId DEF WellFormed, NoTx, Finalizers
  <2>2. /\ Begin(w, "book", "lock", h, s) /\ FreshHold(h)
        /\ UNCHANGED <<holds, res, advLock, rowLock>>
    BY <1>2 DEF BookStart, Locks
  <2>3. "book" \in Ops /\ "book" \notin Finalizers
    BY DEF Ops, Finalizers
  <2> QED BY <2>1, <2>2, <2>3, BeginKeeps
<1>3. ASSUME NEW h \in Hold, NEW op \in Finalizers, holds[h].status # "none",
             Begin(w, op, "row", h, holds[h].stay),
             UNCHANGED <<holds, res, advLock, rowLock>>
      PROVE  Bookkeeping'
  <2>1. Shape(op, "row", h, holds[h].stay)
    BY NoneIsNoId DEF WellFormed, NoTx, Finalizers
  <2>2. op \in Ops /\ op # "book"
    BY DEF Ops, Finalizers
  <2> QED BY <1>3, <2>1, <2>2, BeginKeeps
<1>4. ASSUME NEW h \in Hold, ConfirmStart(w, h) PROVE Bookkeeping'
  BY <1>3, <1>4 DEF ConfirmStart, Locks, Finalizers
<1>5. ASSUME NEW h \in Hold, NEW op \in {"webhook", "webhook_direct"}, WebhookStart(w, h, op)
      PROVE  Bookkeeping'
  <2>1. UNCHANGED <<holds, res, advLock, rowLock>>
    BY <1>5 DEF WebhookStart, Locks
  <2>2. CASE UNCHANGED tx
    BY <2>1, <2>2, BookkeepingFrame
  <2>3. CASE Begin(w, op, "row", h, holds[h].stay)
    BY <1>3, <1>5, <2>1, <2>3 DEF WebhookStart, Finalizers
  <2> QED BY <1>5, <2>2, <2>3 DEF WebhookStart
<1>6. ASSUME NEW i \in Intent, StoreStart(w, i) PROVE Bookkeeping'
  <2>1. UNCHANGED <<holds, res, advLock, rowLock>>
    BY <1>6 DEF StoreStart, Locks
  <2>2. CASE UNCHANGED tx
    BY <2>1, <2>2, BookkeepingFrame
  <2>3. CASE Begin(w, "store", "check", i, StayOfIntent[i])
    <3>1. Shape("store", "check", i, StayOfIntent[i])
      BY NoneIsNoId DEF WellFormed, NoTx, Finalizers
    <3>2. "store" \in Ops /\ "store" \notin Finalizers
      BY DEF Ops, Finalizers
    <3> QED BY <2>1, <2>3, <3>1, <3>2, BeginKeeps
  <2> QED BY <1>6, <2>2, <2>3 DEF StoreStart
<1> QED BY <1>1, <1>2, <1>4, <1>5, <1>6 DEF Request

\* Cancelling touches the status of one reservation only.
LEMMA CancelKeeps ==
    ASSUME TypeOK, Bookkeeping, NEW r \in Res, CancelBooking(r)
    PROVE  Bookkeeping'
<1>1. /\ UNCHANGED <<tx, holds, advLock, rowLock>>
      /\ res[r].status = "confirmed"
      /\ res' = [res EXCEPT ![r].status = "cancelled"]
  BY DEF CancelBooking, Locks
<1>2. \A q \in Res : /\ res'[q].status = "none" <=> res[q].status = "none"
                     /\ res'[q].src = res[q].src
                     /\ res'[q].stay = res[q].stay
  BY <1>1 DEF TypeOK, ResRow
<1>3. /\ TxShape' /\ AdvisoryLockOwned' /\ RowLockOwned' /\ ConvertsUnexpired'
      /\ HoldIdsFresh'
  BY <1>1 DEF Bookkeeping, TxShape, WellFormed, AdvisoryLockOwned, Locked, RowLockOwned,
              OwnsHold, ConvertsUnexpired, HoldIdsFresh
<1>4. ResIdsFresh'
  BY <1>1, <1>2, TxFields DEF Bookkeeping, ResIdsFresh
<1>5. ReservationSources' /\ OneReservationPerHold'
  BY <1>1, <1>2 DEF Bookkeeping, ReservationSources, OneReservationPerHold
<1> QED BY <1>3, <1>4, <1>5 DEF Bookkeeping

\* Bookkeeping is inductive.
LEMMA BookkeepingStep == TypeOK /\ Bookkeeping /\ [Next]_vars => Bookkeeping'
<1> SUFFICES ASSUME TypeOK, Bookkeeping, [Next]_vars PROVE Bookkeeping'
  OBVIOUS
<1>1. ASSUME UNCHANGED vars PROVE Bookkeeping'
  BY <1>1, BookkeepingFrame DEF vars
<1>2. ASSUME NEW w \in Worker, TxStep(w) PROVE Bookkeeping'
  <2>1. CASE QuoteRefuse(w) \/ DeadlockVictim(w)
    BY <2>1, RollBackKeeps DEF QuoteRefuse, DeadlockVictim
  <2> QED BY <1>2, <2>1, BookingSteps, FinalizingSteps DEF TxStep
<1>3. ASSUME NEW w \in Worker, Crash(w) PROVE Bookkeeping'
  BY <1>3, RollBackKeeps DEF Crash
<1>4. ASSUME Environment PROVE Bookkeeping'
  <2>1. CASE \E r \in Res : CancelBooking(r)
    BY <2>1, CancelKeeps
  <2>2. CASE (\E h \in Hold : GuestPays(h)) \/ (\E i \in Intent : StorefrontPays(i)) \/ Tick
    BY <2>2, BookkeepingFrame DEF GuestPays, StorefrontPays, Tick, Locks
  <2> QED BY <1>4, <2>1, <2>2 DEF Environment
<1> QED BY <1>1, <1>2, <1>3, <1>4, RequestKeeps DEF Next

\* The empty system satisfies the invariant.
LEMMA InitKeeps == Init => TypeOK /\ Bookkeeping
<1> SUFFICES ASSUME Init PROVE TypeOK /\ Bookkeeping
  OBVIOUS
<1>1. TypeOK
  BY SomeStayIsAStay, NoTxType, ConstantsAssumption DEF Init, TypeOK, HoldRow, ResRow, HoldStatus, ResStatus
<1>2. TxShape
  BY NoTxIdle DEF Init, TxShape
<1>3. \A w \in Worker : /\ ~Locked(w) /\ ~OwnsHold(w) /\ tx[w].expiring = {}
                        /\ tx[w].op \notin Finalizers \cup {"book"} /\ tx[w].new = None
  BY NoTxFields DEF Init, Locked, OwnsHold, Finalizers
<1>4. AdvisoryLockOwned /\ RowLockOwned /\ ConvertsUnexpired /\ HoldIdsFresh /\ ResIdsFresh
  BY <1>3 DEF AdvisoryLockOwned, RowLockOwned, ConvertsUnexpired, HoldIdsFresh, ResIdsFresh
<1>5. ReservationSources /\ OneReservationPerHold
  BY DEF Init, ReservationSources, OneReservationPerHold
<1> QED BY <1>1, <1>2, <1>4, <1>5 DEF Bookkeeping

-----------------------------------------------------------------------------
(* What holds of every instance.                                           *)

\* The types of the whole state, and the bookkeeping of locks and ids.
THEOREM BookkeepingInvariant == Spec => [](TypeOK /\ Bookkeeping)
<1>1. TypeOK /\ Bookkeeping /\ [Next]_vars => TypeOK' /\ Bookkeeping'
  BY TypeStep, BookkeepingStep DEF Bookkeeping
<1> QED BY InitKeeps, <1>1, PTL DEF Spec

\* Every reachable state is well typed.
THEOREM TypeCorrect == Spec => []TypeOK
BY BookkeepingInvariant, PTL

\* The client confirmation, the two webhooks, their duplicates, crashes,
\* deadlock victims and the storefront never make a second reservation out of
\* a hold, and the hold points at the one it became.
THEOREM OneReservationPerHoldTheorem == Spec => []OneReservationPerHold
<1>1. Bookkeeping => OneReservationPerHold
  BY DEF Bookkeeping
<1> QED BY BookkeepingInvariant, <1>1, PTL

-----------------------------------------------------------------------------
(* Exclusion constraints: no double booking, storefront included.          *)

\* Overlapping is symmetric.
LEMMA OverlapsSymmetric ==
    ASSUME NEW s \in Stay, NEW t \in Stay, Overlaps(s, t)
    PROVE  Overlaps(t, s)
BY StayProp DEF Overlaps

\* A step that adds no reservation and no pending INSERT keeps them disjoint.
LEMMA InsertsFrame ==
    ASSUME TypeOK, InsertsDisjoint,
           \A r \in Res : res'[r].status \in Occupying
                => res[r].status \in Occupying /\ res'[r].stay = res[r].stay,
           \A v \in Worker : Pending(v)' => Pending(v) /\ tx'[v].stay = tx[v].stay
    PROVE  InsertsDisjoint'
<1>1. NoDoubleBooking'
  BY DEF InsertsDisjoint, NoDoubleBooking
<1>2. \A v \in Worker : Pending(v)' => ~ReservationConflict(tx[v].stay)'
  BY DEF InsertsDisjoint, ReservationConflict
<1>3. \A v, u \in Worker : v # u /\ Pending(v)' /\ Pending(u)' => ~Overlaps(tx'[u].stay, tx'[v].stay)
  BY DEF InsertsDisjoint
<1> QED BY <1>1, <1>2, <1>3 DEF InsertsDisjoint

\* A pending INSERT that becomes a reservation was disjoint from all others.
LEMMA InsertsCommit ==
    ASSUME TypeOK, InsertsDisjoint, NEW w \in Worker, Pending(w),
           NEW src,
           res' = [res EXCEPT ![tx[w].new] = [status |-> "confirmed",
                                              stay |-> tx[w].stay, src |-> src]],
           \A v \in Worker \ {w} : tx'[v] = tx[v],
           ~Pending(w)'
    PROVE  InsertsDisjoint'
<1> DEFINE r == tx[w].new
<1>1. r \in Res
  BY TxFields DEF Pending
<1>2. /\ res'[r].stay = tx[w].stay
      /\ \A q \in Res \ {r} : res'[q] = res[q]
  BY <1>1 DEF TypeOK
<1>3. \A q \in Res : res[q].stay \in Stay
  BY DEF TypeOK, ResRow
<1>4. \A q \in Res \ {r} : res'[q].status \in Occupying
                              => ~Overlaps(res[q].stay, tx[w].stay)
  BY <1>2 DEF InsertsDisjoint, ReservationConflict
<1>5. \A q \in Res \ {r} : res'[q].status \in Occupying
                              => ~Overlaps(tx[w].stay, res[q].stay)
  BY <1>3, <1>4, TxFields, OverlapsSymmetric
<1>6. NoDoubleBooking'
  BY <1>2, <1>4, <1>5 DEF InsertsDisjoint, NoDoubleBooking
<1>7. \A v \in Worker : Pending(v)' => v # w /\ Pending(v) /\ tx'[v] = tx[v]
  BY DEF Pending
<1>8. \A v \in Worker : Pending(v)' => ~ReservationConflict(tx[v].stay)'
  BY <1>2, <1>7 DEF InsertsDisjoint, ReservationConflict
<1>9. \A v, u \in Worker : v # u /\ Pending(v)' /\ Pending(u)' => ~Overlaps(tx'[u].stay, tx'[v].stay)
  BY <1>7 DEF InsertsDisjoint
<1> QED BY <1>6, <1>8, <1>9 DEF InsertsDisjoint

\* With the EXCLUDE constraint every step keeps reservations and INSERTs apart.
LEMMA InsertsStep ==
    ASSUME Exclusion, TypeOK, Bookkeeping, InsertsDisjoint, [Next]_vars
    PROVE  InsertsDisjoint'
<1>1. ASSUME UNCHANGED <<tx, res>> PROVE InsertsDisjoint'
  BY <1>1, InsertsFrame DEF Pending
<1>2. ASSUME NEW w \in Worker, RollBack(w) PROVE InsertsDisjoint'
  <2>1. \A v \in Worker : Pending(v)' => Pending(v) /\ tx'[v].stay = tx[v].stay
    BY <1>2, NoTxFields DEF RollBack, Pending, TypeOK
  <2> QED BY <1>2, <2>1, InsertsFrame DEF RollBack
<1>3. ASSUME NEW w \in Worker, res' = res,
             \A v \in Worker \ {w} : tx'[v] = tx[v],
             tx'[w].new = None
      PROVE  InsertsDisjoint'
  BY <1>3, InsertsFrame DEF Pending
<1>4. ASSUME NEW w \in Worker, NEW op, NEW pc, NEW src, NEW s,
             Begin(w, op, pc, src, s), res' = res
      PROVE  InsertsDisjoint'
  <2>1. (\A v \in Worker \ {w} : tx'[v] = tx[v]) /\ tx'[w].new = None
    BY <1>4 DEF Begin, TypeOK, NoTx
  <2> QED BY <1>3, <1>4, <2>1
<1>5. ASSUME NEW w \in Worker, NEW pc \in Pcs \ {"commit", "emit"},
             Goto(w, pc), res' = res, tx[w].pc \notin {"commit", "emit"}
      PROVE  InsertsDisjoint'
  <2>1. tx[w].new = None
    BY <1>5 DEF Bookkeeping, TxShape, WellFormed
  <2> QED BY <1>3, <1>5, <2>1, GotoFields
<1>6. ASSUME NEW w \in Worker, TxStep(w) PROVE InsertsDisjoint'
  <2>0. CASE RollBack(w)
    BY <1>2, <2>0
  <2>1. CASE AcquireLock(w)
    BY <1>5, <2>1 DEF AcquireLock, Pcs
  <2>2. CASE ExpireStale(w)
    <3>1. tx[w].new = None
      BY <2>2 DEF ExpireStale, Bookkeeping, TxShape, WellFormed
    <3> QED BY <1>3, <2>2, <3>1, ExpireStaleFields
  <2>3. CASE QuoteCommit(w)
    BY <1>3, <2>3, NoTxFields DEF QuoteCommit, TypeOK
  <2>4. CASE BookCheck(w) /\ ~RollBack(w)
    <3>1. tx[w].new = None
      BY <2>4, BookCheckFields DEF Bookkeeping, TxShape, WellFormed
    <3> QED BY <1>3, <2>4, <3>1, BookCheckFields
  <2>5. CASE BookPay(w) /\ ~RollBack(w)
    <3>1. tx[w].new = None
      BY <2>5 DEF BookPay, Bookkeeping, TxShape, WellFormed
    <3>2. Goto(w, "commit") /\ res' = res
      BY <2>5 DEF BookPay
    <3> QED BY <1>3, <3>1, <3>2, GotoFields
  <2>6. CASE BookCommit(w)
    BY <1>3, <2>6, NoTxFields DEF BookCommit, TypeOK
  <2>7. CASE FinalizeRow(w) /\ ~RollBack(w)
    BY <1>5, <2>7 DEF FinalizeRow, Pcs
  <2>8. CASE FinalizeCheck(w) /\ ~RollBack(w)
    BY <1>5, <2>8 DEF FinalizeCheck, Pcs
  <2>9. CASE ReservationInsert(w) /\ ~RollBack(w)
    <3>1. /\ \A v \in Worker \ {w} : tx'[v] = tx[v]
          /\ tx'[w].stay = tx[w].stay
          /\ res' = res
          /\ ~ReservationConflict(tx[w].stay)
          /\ \A v \in Worker : ~InsertWaitsOn(w, v)
      BY <2>9, InsertFields DEF InsertConflict
    <3>2. \A v \in Worker \ {w} : Pending(v) => ~Overlaps(tx[v].stay, tx[w].stay)
      BY <3>1 DEF InsertWaitsOn, Pending
    <3>3. \A v \in Worker \ {w} : Pending(v) => ~Overlaps(tx[w].stay, tx[v].stay)
      BY <3>2, TxFields, OverlapsSymmetric
    <3>4. \A v \in Worker : v # w => (Pending(v)' <=> Pending(v))
      BY <3>1 DEF Pending
    <3>5. NoDoubleBooking' /\ \A v \in Worker : Pending(v)' => ~ReservationConflict(tx[v].stay)'
      BY <3>1, <3>4 DEF InsertsDisjoint, NoDoubleBooking, ReservationConflict
    <3>6. \A v, u \in Worker : v # u /\ Pending(v)' /\ Pending(u)' => ~Overlaps(tx'[u].stay, tx'[v].stay)
      BY <3>1, <3>2, <3>3, <3>4 DEF InsertsDisjoint
    <3> QED BY <3>5, <3>6 DEF InsertsDisjoint
  <2>10. CASE FinalizeCommit(w)
    <3>1. Pending(w) /\ ~Pending(w)'
      BY <2>10, FinalizeCommitFields DEF Pending, Bookkeeping, TxShape, WellFormed
    <3> QED BY <2>10, <3>1, FinalizeCommitFields, InsertsCommit DEF FinalizeCommit
  <2>11. CASE FinalizeEmit(w)
    BY <1>3, <2>11, NoTxFields DEF FinalizeEmit, TypeOK
  <2>12. CASE (StoreCheckReservations(w) \/ StoreCheckHolds(w)) /\ ~RollBack(w)
    BY <1>5, <2>12 DEF StoreCheckReservations, StoreCheckHolds, StoreRefuse, Pcs
  <2>13. CASE StoreCommit(w)
    <3>1. Pending(w)
      BY <2>13 DEF StoreCommit, Pending, Bookkeeping, TxShape, WellFormed
    <3>2. ~Pending(w)' /\ \A v \in Worker \ {w} : tx'[v] = tx[v]
      BY <2>13, NoTxFields DEF StoreCommit, Pending, TypeOK
    <3> QED BY <2>13, <3>1, <3>2, InsertsCommit DEF StoreCommit
  <2>14. CASE QuoteRefuse(w) \/ DeadlockVictim(w)
    BY <1>2, <2>14 DEF QuoteRefuse, DeadlockVictim
  <2> QED BY <1>6, <2>0, <2>1, <2>2, <2>3, <2>4, <2>5, <2>6, <2>7, <2>8, <2>9,
             <2>10, <2>11, <2>12, <2>13, <2>14 DEF TxStep
<1>7. ASSUME NEW w \in Worker, Request(w) PROVE InsertsDisjoint'
  BY <1>1, <1>4, <1>7 DEF Request, QuoteStart, BookStart, ConfirmStart, WebhookStart, StoreStart
<1>8. ASSUME NEW w \in Worker, Crash(w) PROVE InsertsDisjoint'
  BY <1>2, <1>8 DEF Crash
<1>9. ASSUME Environment PROVE InsertsDisjoint'
  <2>1. ASSUME NEW r \in Res, CancelBooking(r) PROVE InsertsDisjoint'
    BY <2>1, InsertsFrame DEF CancelBooking, TypeOK, ResRow, Occupying, Pending
  <2>2. CASE (\E h \in Hold : GuestPays(h)) \/ (\E i \in Intent : StorefrontPays(i)) \/ Tick
    BY <1>1, <2>2 DEF GuestPays, StorefrontPays, Tick
  <2> QED BY <1>9, <2>1, <2>2 DEF Environment
<1>10. ASSUME UNCHANGED vars PROVE InsertsDisjoint'
  BY <1>1, <1>10 DEF vars
<1> QED BY <1>6, <1>7, <1>8, <1>9, <1>10 DEF Next

\* With the EXCLUDE constraint of the migration installed, no interleaving of
\* holds, finalizers and storefront settlements books a night twice.
THEOREM ExclusionPreventsDoubleBooking ==
    ASSUME Exclusion
    PROVE  Spec => []NoDoubleBooking
<1>1. Init => InsertsDisjoint
  BY NoTxFields DEF Init, InsertsDisjoint, NoDoubleBooking, Pending, Occupying
<1>2. InsertsDisjoint /\ (TypeOK /\ Bookkeeping) /\ [Next]_vars => InsertsDisjoint'
  BY InsertsStep
<1>3. InsertsDisjoint => NoDoubleBooking
  BY DEF InsertsDisjoint
<1> QED BY <1>1, <1>2, <1>3, BookkeepingInvariant, PTL DEF Spec

-----------------------------------------------------------------------------
(* Deadlocks.                                                              *)

\* A booking that has not paid yet.
BeforePay(t) == t.op = "book" /\ t.pc \in {"lock", "expire", "check", "pay"}

\* A step of one session that takes or gives back only its own locks: what is
\* left to show is that the session has a reason for each lock it holds.
LEMMA SessionJustified ==
    ASSUME TypeOK, LocksAndIntents, NEW w \in Worker,
           \A v \in Worker \ {w} : tx'[v] = tx[v],
           \A p \in Property : advLock'[p] \in {advLock[p], None, w},
           \A h \in Hold : rowLock'[h] \in {rowLock[h], None, w},
           \A p \in Property : advLock'[p] = w => Locked(w)' /\ tx'[w].stay.prop = p,
           \A h \in Hold : rowLock'[h] = w => \/ OwnsHold(w)' /\ tx'[w].src = h
                                              \/ h \in tx'[w].expiring,
           UNCHANGED pi,
           BeforePay(tx'[w]) => pi[tx'[w].src] = "none"
    PROVE  LocksAndIntents'
<1>1. ASSUME NEW p \in Property, advLock'[p] # None
      PROVE  Locked(advLock[p])' /\ tx'[advLock'[p]].stay.prop = p
  <2>1. CASE advLock'[p] = w
    BY <2>1 DEF Locked
  <2>2. CASE advLock'[p] # w
    <3>1. advLock'[p] = advLock[p] /\ advLock[p] \in Worker \ {w}
      BY <1>1, <2>2 DEF TypeOK
    <3>2. Locked(advLock[p]) /\ tx[advLock[p]].stay.prop = p
      BY <3>1, NoneIsNoId DEF LocksAndIntents, LocksJustified
    <3> QED BY <3>1, <3>2 DEF Locked
  <2> QED BY <2>1, <2>2
<1>2. ASSUME NEW h \in Hold, rowLock'[h] # None
      PROVE  \/ OwnsHold(rowLock[h])' /\ tx'[rowLock'[h]].src = h
             \/ h \in tx'[rowLock'[h]].expiring
  <2>1. CASE rowLock'[h] = w
    BY <2>1 DEF OwnsHold
  <2>2. CASE rowLock'[h] # w
    <3>1. rowLock'[h] = rowLock[h] /\ rowLock[h] \in Worker \ {w}
      BY <1>2, <2>2 DEF TypeOK
    <3>2. \/ OwnsHold(rowLock[h]) /\ tx[rowLock[h]].src = h
          \/ h \in tx[rowLock[h]].expiring
      BY <3>1, NoneIsNoId DEF LocksAndIntents, LocksJustified
    <3> QED BY <3>1, <3>2 DEF OwnsHold
  <2> QED BY <2>1, <2>2
<1>3. UnpaidBookings'
  BY DEF LocksAndIntents, UnpaidBookings, BeforePay
<1> QED BY <1>1, <1>2, <1>3 DEF LocksAndIntents, LocksJustified

\* A session that ends its transaction holds no lock.
LEMMA EndJustified ==
    ASSUME TypeOK, LocksAndIntents, NEW w \in Worker, ReleaseLocks(w),
           \A v \in Worker \ {w} : tx'[v] = tx[v],
           ~BeforePay(tx'[w]), UNCHANGED pi
    PROVE  LocksAndIntents'
BY Unlocked, NoneIsNoId, SessionJustified

LEMMA RollBackJustified ==
    ASSUME TypeOK, LocksAndIntents, NEW w \in Worker, RollBack(w), UNCHANGED pi
    PROVE  LocksAndIntents'
<1>1. \A v \in Worker \ {w} : tx'[v] = tx[v]
  BY DEF TypeOK, RollBack
<1>2. tx'[w] = NoTx
  BY DEF TypeOK, RollBack
<1>3. ~BeforePay(tx'[w])
  BY <1>2, NoTxFields DEF BeforePay
<1> QED BY <1>1, <1>3, EndJustified DEF RollBack

\* A session that keeps its locks keeps its reasons for them.
LEMMA MoveJustified ==
    ASSUME TypeOK, LocksAndIntents, NEW w \in Worker,
           \A v \in Worker \ {w} : tx'[v] = tx[v],
           UNCHANGED <<advLock, rowLock, pi>>,
           Locked(w) => Locked(w)' /\ tx'[w].stay = tx[w].stay,
           OwnsHold(w) => OwnsHold(w)' /\ tx'[w].src = tx[w].src,
           tx[w].expiring \subseteq tx'[w].expiring,
           BeforePay(tx'[w]) => pi[tx'[w].src] = "none"
    PROVE  LocksAndIntents'
<1>1. \A p \in Property : advLock'[p] = w => Locked(w)' /\ tx'[w].stay.prop = p
  BY NoneIsNoId DEF LocksAndIntents, LocksJustified
<1>2. \A h \in Hold : rowLock'[h] = w => \/ OwnsHold(w)' /\ tx'[w].src = h
                                         \/ h \in tx'[w].expiring
  BY NoneIsNoId DEF LocksAndIntents, LocksJustified
<1> QED BY <1>1, <1>2, SessionJustified

\* A session that names no row in its program counter holds no lock.
LEMMA Lockless ==
    ASSUME TypeOK, Bookkeeping, LocksAndIntents, NEW w \in Worker
    PROVE  /\ tx[w].pc = "lock" => \A p \in Property : advLock[p] # w
           /\ tx[w].pc \in {"idle", "row", "holds", "emit"} =>
                 /\ \A p \in Property : advLock[p] # w
                 /\ \A h \in Hold : rowLock[h] # w
           /\ tx[w].pc = "lock" /\ tx[w].op \notin Finalizers => \A h \in Hold : rowLock[h] # w
<1>1. WellFormed(tx[w])
  BY DEF Bookkeeping, TxShape
<1>2. \A p \in Property : advLock[p] = w => Locked(w)
  BY NoneIsNoId DEF LocksAndIntents, LocksJustified
<1>3. \A h \in Hold : rowLock[h] = w => OwnsHold(w) \/ tx[w].expiring # {}
  BY NoneIsNoId DEF LocksAndIntents, LocksJustified
<1> QED BY <1>1, <1>2, <1>3 DEF WellFormed, Locked, OwnsHold

\* The frame: steps that touch no session, no lock and no intent.
LEMMA LocksFrame ==
    LocksAndIntents /\ UNCHANGED <<tx, advLock, rowLock, pi>> => LocksAndIntents'
BY DEF LocksAndIntents, LocksJustified, UnpaidBookings, Locked, OwnsHold

\* A new request has no lock, and a new booking has no intent.
LEMMA BeginJustified ==
    ASSUME TypeOK, Bookkeeping, LocksAndIntents, NEW w \in Worker, NEW op, NEW pc,
           NEW src, NEW s, Begin(w, op, pc, src, s),
           UNCHANGED <<advLock, rowLock, pi>>,
           op = "book" => pi[src] = "none"
    PROVE  LocksAndIntents'
<1>1. /\ tx'[w] = [NoTx EXCEPT !.op = op, !.pc = pc, !.src = src, !.stay = s]
      /\ \A v \in Worker \ {w} : tx'[v] = tx[v]
      /\ tx[w].pc = "idle"
  BY DEF TypeOK, Begin
<1>2. tx'[w].op = op /\ tx'[w].src = src
  BY <1>1 DEF NoTx
<1>3. ~Locked(w) /\ ~OwnsHold(w)
  BY <1>1 DEF Locked, OwnsHold
<1>4. tx[w].expiring = {}
  BY <1>1 DEF Bookkeeping, TxShape, WellFormed
<1>5. BeforePay(tx'[w]) => pi[tx'[w].src] = "none"
  BY <1>2 DEF BeforePay
<1> QED BY <1>1, <1>3, <1>4, <1>5, MoveJustified

\* The steps of the quote and of the booking.
LEMMA BookingJustified ==
    ASSUME TypeOK, Bookkeeping, LocksAndIntents, NEW w \in Worker,
           \/ AcquireLock(w) \/ ExpireStale(w) \/ QuoteCommit(w)
           \/ BookCheck(w) \/ BookPay(w) \/ BookCommit(w)
    PROVE  LocksAndIntents'
<1>0. /\ WellFormed(tx[w])
      /\ tx[w].op \in Ops /\ tx[w].stay \in Stay /\ tx[w].stay.prop \in Property
      /\ BeforePay(tx[w]) => pi[tx[w].src] = "none"
  BY TxFields, StayProp DEF Bookkeeping, TxShape, LocksAndIntents, UnpaidBookings, BeforePay
<1>1. CASE AcquireLock(w)
  <2>1. /\ tx[w].pc = "lock" /\ Goto(w, "expire")
        /\ advLock' = [advLock EXCEPT ![tx[w].stay.prop] = w]
        /\ UNCHANGED <<rowLock, pi>>
    BY <1>1 DEF AcquireLock
  <2>2. /\ tx'[w].op = tx[w].op /\ tx'[w].pc = "expire" /\ tx'[w].src = tx[w].src
        /\ tx'[w].stay = tx[w].stay /\ tx'[w].expiring = tx[w].expiring
        /\ \A v \in Worker \ {w} : tx'[v] = tx[v]
    BY <2>1, GotoFields
  <2>3. Locked(w)'
    BY <1>0, <2>1, <2>2 DEF Locked, WellFormed, Ops
  <2>4. \A p \in Property : /\ advLock'[p] \in {advLock[p], w}
                            /\ advLock'[p] = w => p = tx[w].stay.prop
    BY <2>1, Lockless DEF TypeOK
  <2>5. \A h \in Hold : rowLock[h] = w => \/ OwnsHold(w)' /\ tx'[w].src = h
                                          \/ h \in tx'[w].expiring
    BY <2>2, NoneIsNoId DEF LocksAndIntents, LocksJustified, OwnsHold
  <2>6. BeforePay(tx'[w]) => pi[tx'[w].src] = "none"
    BY <1>0, <2>1, <2>2 DEF BeforePay
  <2> QED BY <2>1, <2>2, <2>3, <2>4, <2>5, <2>6, SessionJustified
<1>2. CASE ExpireStale(w)
  <2>1. /\ \A v \in Worker \ {w} : tx'[v] = tx[v]
        /\ tx[w].pc = "expire"
        /\ tx'[w].op = tx[w].op
        /\ tx'[w].pc = (IF tx[w].op = "quote" THEN "commit" ELSE "check")
        /\ tx'[w].src = tx[w].src /\ tx'[w].stay = tx[w].stay
        /\ tx'[w].expiring = Stale
        /\ UNCHANGED advLock
    BY <1>2, ExpireStaleFields
  <2>2. /\ \A h \in Hold : rowLock'[h] = IF h \in Stale THEN w ELSE rowLock[h]
        /\ UNCHANGED pi
    BY <1>2 DEF ExpireStale
  <2>3. tx[w].expiring = {}
    BY <1>0, <2>1 DEF WellFormed
  <2>4. Locked(w)'
    BY <1>0, <2>1 DEF Locked, WellFormed, Ops, Finalizers
  <2>5. OwnsHold(w) => OwnsHold(w)'
    BY <2>1 DEF OwnsHold, Finalizers
  <2>6. \A p \in Property : advLock[p] = w => tx'[w].stay.prop = p
    BY <2>1, NoneIsNoId DEF LocksAndIntents, LocksJustified
  <2>7. \A h \in Hold : rowLock'[h] = w => \/ OwnsHold(w)' /\ tx'[w].src = h
                                           \/ h \in tx'[w].expiring
    BY <2>1, <2>2, <2>3, <2>5, NoneIsNoId DEF LocksAndIntents, LocksJustified
  <2>8. BeforePay(tx'[w]) => pi[tx'[w].src] = "none"
    BY <1>0, <2>1 DEF BeforePay
  <2> QED BY <2>1, <2>2, <2>4, <2>6, <2>7, <2>8, SessionJustified
<1>3. CASE QuoteCommit(w) \/ BookCommit(w)
  <2>1. tx' = [tx EXCEPT ![w] = NoTx] /\ ReleaseLocks(w) /\ UNCHANGED pi
    BY <1>3 DEF QuoteCommit, BookCommit
  <2>2. tx'[w] = NoTx /\ \A v \in Worker \ {w} : tx'[v] = tx[v]
    BY <2>1 DEF TypeOK
  <2> QED BY <2>1, <2>2, NoTxFields, EndJustified DEF BeforePay
<1>4. CASE BookCheck(w)
  <2>0. UNCHANGED pi
    BY <1>4 DEF BookCheck
  <2>1. CASE RollBack(w)
    BY <2>0, <2>1, RollBackJustified
  <2>2. CASE ~RollBack(w)
    <3>1. /\ \A v \in Worker \ {w} : tx'[v] = tx[v]
          /\ tx[w].op = "book" /\ tx[w].pc = "check"
          /\ tx'[w].op = "book" /\ tx'[w].pc = "pay" /\ tx'[w].src = tx[w].src
          /\ tx'[w].stay = tx[w].stay /\ tx'[w].expiring = tx[w].expiring
          /\ UNCHANGED <<advLock, rowLock>>
      BY <1>4, <2>2, BookCheckFields
    <3>2. Locked(w)' /\ ~OwnsHold(w)
      BY <3>1 DEF Locked, OwnsHold, Finalizers
    <3>3. BeforePay(tx'[w]) => pi[tx'[w].src] = "none"
      BY <1>0, <3>1 DEF BeforePay
    <3> QED BY <2>0, <3>1, <3>2, <3>3, MoveJustified
  <2> QED BY <2>1, <2>2
<1>5. CASE BookPay(w)
  <2>1. CASE RollBack(w) /\ UNCHANGED pi
    BY <2>1, RollBackJustified
  <2>2. CASE ~(RollBack(w) /\ UNCHANGED pi)
    <3>1. /\ tx[w].op = "book" /\ tx[w].pc = "pay" /\ Goto(w, "commit")
          /\ pi' = [pi EXCEPT ![tx[w].src] = "created"]
          /\ UNCHANGED <<advLock, rowLock>>
      BY <1>5, <2>2 DEF BookPay, Locks
    <3>2. /\ tx'[w].op = "book" /\ tx'[w].pc = "commit" /\ tx'[w].src = tx[w].src
          /\ tx'[w].stay = tx[w].stay /\ tx'[w].expiring = tx[w].expiring
          /\ \A v \in Worker \ {w} : tx'[v] = tx[v]
      BY <3>1, GotoFields
    <3>3. LocksJustified'
      <4>1. \A v \in Worker : /\ Locked(v)' <=> Locked(v)
                              /\ OwnsHold(v)' <=> OwnsHold(v)
                              /\ tx'[v].src = tx[v].src /\ tx'[v].stay = tx[v].stay
                              /\ tx'[v].expiring = tx[v].expiring
        BY <3>1, <3>2 DEF Locked, OwnsHold, Finalizers
      <4> QED BY <3>1, <4>1 DEF LocksAndIntents, LocksJustified, TypeOK
    <3>4. UnpaidBookings'
      <4> SUFFICES ASSUME NEW v \in Worker, BeforePay(tx'[v]) PROVE pi'[tx'[v].src] = "none"
        BY DEF UnpaidBookings, BeforePay
      <4>1. v # w /\ tx'[v] = tx[v]
        BY <3>2 DEF BeforePay
      <4>2. tx[v].src # tx[w].src
        BY <3>1, <4>1 DEF Bookkeeping, HoldIdsFresh
      <4>3. pi[tx[v].src] = "none" /\ tx[v].src \in Hold
        BY <4>1 DEF LocksAndIntents, UnpaidBookings, BeforePay, Bookkeeping, TxShape, WellFormed
      <4> QED BY <3>1, <4>1, <4>2, <4>3 DEF TypeOK
    <3> QED BY <3>3, <3>4 DEF LocksAndIntents
  <2> QED BY <2>1, <2>2
<1> QED BY <1>1, <1>2, <1>3, <1>4, <1>5

\* The steps of the finalizers and of the storefront.
LEMMA FinalizingJustified ==
    ASSUME TypeOK, Bookkeeping, LocksAndIntents, NEW w \in Worker,
           \/ FinalizeRow(w) \/ FinalizeCheck(w) \/ ReservationInsert(w)
           \/ FinalizeCommit(w) \/ FinalizeEmit(w) \/ StoreCheckReservations(w)
           \/ StoreCheckHolds(w) \/ StoreCommit(w) \/ QuoteRefuse(w) \/ DeadlockVictim(w)
    PROVE  LocksAndIntents'
<1>0. /\ WellFormed(tx[w]) /\ UNCHANGED pi
      /\ Locked(w) => tx[w].op # "store"
      /\ OwnsHold(w) => tx[w].op # "store"
  <2>1. CASE FinalizeRow(w) \/ FinalizeCheck(w) \/ FinalizeCommit(w) \/ FinalizeEmit(w)
    BY <2>1 DEF FinalizeRow, FinalizeCheck, FinalizeCommit, FinalizeEmit, Bookkeeping,
                TxShape, Locked, OwnsHold, Finalizers
  <2>2. CASE \/ StoreCheckReservations(w) \/ StoreCheckHolds(w) \/ StoreCommit(w)
             \/ ReservationInsert(w) \/ QuoteRefuse(w) \/ DeadlockVictim(w)
    BY <2>2 DEF StoreCheckReservations, StoreCheckHolds, StoreCommit, ReservationInsert,
                QuoteRefuse, DeadlockVictim, Bookkeeping, TxShape, Locked, OwnsHold, Finalizers
  <2> QED BY <2>1, <2>2
<1>1. CASE RollBack(w)
  BY <1>0, <1>1, RollBackJustified
<1>2. CASE FinalizeRow(w) /\ ~RollBack(w)
  <2>1. /\ tx[w].pc = "row" /\ Goto(w, "lock")
        /\ rowLock' = [rowLock EXCEPT ![tx[w].src] = w]
        /\ UNCHANGED advLock
    BY <1>2 DEF FinalizeRow
  <2>2. /\ tx[w].op \in Finalizers /\ tx[w].src \in Hold
    BY <1>0, <2>1 DEF WellFormed
  <2>3. /\ tx'[w].op = tx[w].op /\ tx'[w].pc = "lock" /\ tx'[w].src = tx[w].src
        /\ \A v \in Worker \ {w} : tx'[v] = tx[v]
    BY <2>1, GotoFields
  <2>4. OwnsHold(w)' /\ ~BeforePay(tx'[w])
    BY <2>2, <2>3 DEF OwnsHold, BeforePay, Finalizers
  <2>5. /\ \A p \in Property : advLock[p] # w
        /\ \A h \in Hold : rowLock[h] # w
    BY <2>1, Lockless
  <2>6. \A h \in Hold : rowLock'[h] = IF h = tx[w].src THEN w ELSE rowLock[h]
    BY <2>1 DEF TypeOK
  <2> QED BY <1>0, <2>1, <2>3, <2>4, <2>5, <2>6, SessionJustified
<1>3. CASE FinalizeCheck(w) /\ ~RollBack(w)
  <2>1. /\ tx[w].op \in Finalizers /\ tx[w].pc = "check" /\ Goto(w, "insert")
        /\ UNCHANGED <<advLock, rowLock>>
    BY <1>3 DEF FinalizeCheck, Locks
  <2>2. /\ tx'[w].op = tx[w].op /\ tx'[w].pc = "insert" /\ tx'[w].src = tx[w].src
        /\ tx'[w].stay = tx[w].stay /\ tx'[w].expiring = tx[w].expiring
        /\ \A v \in Worker \ {w} : tx'[v] = tx[v]
    BY <2>1, GotoFields
  <2>3. Locked(w)' /\ OwnsHold(w)' /\ ~BeforePay(tx'[w])
    BY <2>1, <2>2 DEF Locked, OwnsHold, BeforePay, Finalizers
  <2> QED BY <1>0, <2>1, <2>2, <2>3, MoveJustified
<1>4. CASE ReservationInsert(w) /\ ~RollBack(w)
  <2>1. /\ \A v \in Worker \ {w} : tx'[v] = tx[v]
        /\ tx[w].pc = "insert"
        /\ tx'[w].op = tx[w].op /\ tx'[w].pc = "commit" /\ tx'[w].src = tx[w].src
        /\ tx'[w].stay = tx[w].stay /\ tx'[w].expiring = tx[w].expiring
        /\ UNCHANGED <<advLock, rowLock>>
    BY <1>4, InsertFields
  <2>2. /\ Locked(w) => Locked(w)'
        /\ OwnsHold(w) => OwnsHold(w)'
        /\ ~BeforePay(tx'[w])
    BY <2>1 DEF Locked, OwnsHold, BeforePay
  <2> QED BY <1>0, <2>1, <2>2, MoveJustified
<1>5. CASE FinalizeCommit(w) \/ StoreCommit(w)
  <2>1. \A v \in Worker \ {w} : tx'[v] = tx[v]
    BY <1>5, FinalizeCommitFields DEF StoreCommit, TypeOK
  <2>2. ~BeforePay(tx'[w])
    <3>1. CASE FinalizeCommit(w)
      BY <3>1, FinalizeCommitFields DEF BeforePay
    <3>2. CASE StoreCommit(w)
      BY <3>2, NoTxFields DEF StoreCommit, TypeOK, BeforePay
    <3> QED BY <1>5, <3>1, <3>2
  <2>3. ReleaseLocks(w)
    BY <1>5 DEF FinalizeCommit, StoreCommit
  <2> QED BY <1>0, <2>1, <2>2, <2>3, EndJustified
<1>6. CASE FinalizeEmit(w)
  <2>1. /\ tx[w].pc = "emit" /\ tx' = [tx EXCEPT ![w] = NoTx]
        /\ UNCHANGED <<advLock, rowLock>>
    BY <1>6 DEF FinalizeEmit, Locks
  <2>2. tx'[w] = NoTx /\ \A v \in Worker \ {w} : tx'[v] = tx[v]
    BY <2>1 DEF TypeOK
  <2>3. ~Locked(w) /\ ~OwnsHold(w) /\ tx[w].expiring = {}
    BY <1>0, <2>1 DEF Locked, OwnsHold, WellFormed
  <2>4. ~BeforePay(tx'[w])
    BY <2>2, NoTxFields DEF BeforePay
  <2> QED BY <1>0, <2>1, <2>2, <2>3, <2>4, MoveJustified
<1>7. CASE (StoreCheckReservations(w) \/ StoreCheckHolds(w)) /\ ~RollBack(w)
  <2>1. /\ tx[w].op = "store" /\ (Goto(w, "holds") \/ Goto(w, "insert"))
        /\ UNCHANGED <<advLock, rowLock>>
    BY <1>7 DEF StoreCheckReservations, StoreCheckHolds, StoreRefuse, Locks
  <2>2. /\ tx'[w].op = "store" /\ tx'[w].expiring = tx[w].expiring
        /\ \A v \in Worker \ {w} : tx'[v] = tx[v]
    BY <2>1, GotoFields
  <2>3. ~BeforePay(tx'[w])
    BY <2>2 DEF BeforePay
  <2> QED BY <1>0, <2>1, <2>2, <2>3, MoveJustified
<1>8. QuoteRefuse(w) \/ DeadlockVictim(w) => RollBack(w)
  BY DEF QuoteRefuse, DeadlockVictim
<1> QED BY <1>1, <1>2, <1>3, <1>4, <1>5, <1>6, <1>7, <1>8

\* New requests.
LEMMA RequestJustified ==
    ASSUME TypeOK, Bookkeeping, LocksAndIntents, NEW w \in Worker, Request(w)
    PROVE  LocksAndIntents'
<1>0. UNCHANGED <<advLock, rowLock, pi>>
  BY DEF Request, QuoteStart, BookStart, ConfirmStart, WebhookStart, StoreStart, Locks
<1>1. CASE UNCHANGED tx
  BY <1>0, <1>1, LocksFrame
<1>2. ASSUME NEW h \in Hold, NEW s \in Stay, BookStart(w, h, s) PROVE LocksAndIntents'
  BY <1>0, <1>2, BeginJustified DEF BookStart
<1>3. ASSUME NEW op, NEW pc, NEW src, NEW s, Begin(w, op, pc, src, s), op # "book"
      PROVE  LocksAndIntents'
  BY <1>0, <1>3, BeginJustified
<1>4. ASSUME ~UNCHANGED tx, \A h \in Hold, s \in Stay : ~BookStart(w, h, s)
      PROVE  \E op, pc, src, s : Begin(w, op, pc, src, s) /\ op # "book"
  <2>1. CASE \E s \in Stay : QuoteStart(w, s)
    BY <2>1 DEF QuoteStart
  <2>2. CASE \E h \in Hold : ConfirmStart(w, h)
    BY <2>2 DEF ConfirmStart
  <2>3. CASE \E h \in Hold, op \in {"webhook", "webhook_direct"} : WebhookStart(w, h, op)
    BY <1>4, <2>3 DEF WebhookStart
  <2>4. CASE \E i \in Intent : StoreStart(w, i)
    BY <1>4, <2>4 DEF StoreStart
  <2> QED BY <1>4, <2>1, <2>2, <2>3, <2>4 DEF Request
<1> QED BY <1>1, <1>2, <1>3, <1>4

\* The reasons for locks and the state of the intents are inductive.
LEMMA LocksStep == TypeOK /\ Bookkeeping /\ LocksAndIntents /\ [Next]_vars => LocksAndIntents'
<1> SUFFICES ASSUME TypeOK, Bookkeeping, LocksAndIntents, [Next]_vars
             PROVE  LocksAndIntents'
  OBVIOUS
<1>1. ASSUME UNCHANGED vars PROVE LocksAndIntents'
  BY <1>1, LocksFrame DEF vars
<1>2. ASSUME NEW w \in Worker, TxStep(w) PROVE LocksAndIntents'
  BY <1>2, BookingJustified, FinalizingJustified DEF TxStep
<1>3. ASSUME NEW w \in Worker, Crash(w) PROVE LocksAndIntents'
  BY <1>3, RollBackJustified DEF Crash
<1>4. ASSUME NEW h \in Hold, GuestPays(h) PROVE LocksAndIntents'
  <2>1. /\ holds[h].status # "none" /\ pi' = [pi EXCEPT ![h] = "succeeded"]
        /\ UNCHANGED <<tx, advLock, rowLock>>
    BY <1>4 DEF GuestPays, Locks
  <2>2. LocksJustified'
    BY <2>1 DEF LocksAndIntents, LocksJustified, Locked, OwnsHold
  <2>3. \A v \in Worker : tx[v].op = "book" => tx[v].src # h /\ tx[v].src \in Hold
    BY <2>1 DEF Bookkeeping, HoldIdsFresh, TxShape, WellFormed
  <2>4. UnpaidBookings'
    BY <2>1, <2>3 DEF LocksAndIntents, UnpaidBookings, TypeOK
  <2> QED BY <2>2, <2>4 DEF LocksAndIntents
<1>5. ASSUME \/ \E i \in Intent : StorefrontPays(i)
             \/ \E r \in Res : CancelBooking(r)
             \/ Tick
      PROVE  LocksAndIntents'
  BY <1>5, LocksFrame DEF StorefrontPays, CancelBooking, Tick, Locks
<1> QED BY <1>1, <1>2, <1>3, <1>4, <1>5, RequestJustified DEF Next, Environment

LEMMA LocksInit == Init => LocksAndIntents
BY NoTxFields, NoneIsNoId DEF Init, LocksAndIntents, LocksJustified, UnpaidBookings

\* A session that others wait for and that itself waits: it is a finalizer
\* waiting for the advisory lock, or it is sweeping stale holds under it.
LEMMA CycleShape ==
    ASSUME TypeOK, Bookkeeping, LocksAndIntents, NEW w \in Worker, OnCycle(w)
    PROVE  \/ tx[w].pc = "expire"
           \/ tx[w].pc = "lock" /\ tx[w].op \in Finalizers
<1>1. PICK C \in SUBSET Worker : /\ w \in C
                                 /\ \A v \in C : /\ \E u \in C : WaitsOn(v, u)
                                                 /\ \E u \in C : WaitsOn(u, v)
  BY DEF OnCycle
<1>2. \A v \in C : tx[v].pc \in {"lock", "row", "expire", "insert"}
  BY <1>1 DEF WaitsOn
<1>3. \A v \in C : tx[v].pc # "insert"
  <2> SUFFICES ASSUME NEW v \in C, tx[v].pc = "insert" PROVE FALSE
    OBVIOUS
  <2>1. PICK u \in C : WaitsOn(v, u)
    BY <1>1
  <2>2. tx[u].pc = "commit"
    BY <2>1 DEF WaitsOn, InsertWaitsOn
  <2> QED BY <1>2, <2>2
<1>4. PICK u \in C : WaitsOn(u, w)
  BY <1>1
<1>5. (\E p \in Property : advLock[p] = w) \/ (\E h \in Hold : rowLock[h] = w)
  <2>1. u \in Worker /\ tx[u].stay.prop \in Property
    BY <1>1, TxFields, StayProp
  <2>2. tx[u].pc = "row" => tx[u].src \in Hold
    BY <2>1, SrcType DEF Bookkeeping
  <2>3. Stale \subseteq Hold
    BY DEF Stale
  <2> QED BY <1>3, <1>4, <2>1, <2>2, <2>3 DEF WaitsOn
<1>6. tx[w].pc \in {"lock", "row", "expire"}
  BY <1>1, <1>2, <1>3
<1> QED BY <1>5, <1>6, Lockless

\* A deadlock victim has inserted nothing, has no PaymentIntent to its name
\* if it is a booking, and leaves its hold active if it is a finalizer.
LEMMA VictimsLoseNothing ==
    TypeOK /\ Bookkeeping /\ LocksAndIntents => DeadlocksCostNothing
<1> SUFFICES ASSUME TypeOK, Bookkeeping, LocksAndIntents, NEW w \in Worker, OnCycle(w)
             PROVE  /\ tx[w].new = None
                    /\ tx[w].op = "book" => pi[tx[w].src] = "none"
                    /\ tx[w].op \in Finalizers => holds[tx[w].src].status = "active"
  BY DEF DeadlocksCostNothing
<1>1. tx[w].pc = "expire" \/ (tx[w].pc = "lock" /\ tx[w].op \in Finalizers)
  BY CycleShape
<1>2. tx[w].new = None
  BY <1>1 DEF Bookkeeping, TxShape, WellFormed
<1>3. tx[w].op = "book" => pi[tx[w].src] = "none"
  BY <1>1 DEF LocksAndIntents, UnpaidBookings, Finalizers
<1>4. tx[w].op \in Finalizers => holds[tx[w].src].status = "active"
  BY <1>1 DEF Bookkeeping, RowLockOwned, OwnsHold
<1> QED BY <1>2, <1>3, <1>4

\* The lock-order inversion between booking and finalizing costs nothing but
\* the aborted request itself: no charge without a hold, no reservation lost.
THEOREM DeadlocksAreHarmless == Spec => []DeadlocksCostNothing
<1>1. Spec => [](TypeOK /\ Bookkeeping /\ LocksAndIntents)
  <2>1. Init => TypeOK /\ Bookkeeping /\ LocksAndIntents
    BY InitKeeps, LocksInit
  <2>2. TypeOK /\ Bookkeeping /\ LocksAndIntents /\ [Next]_vars
          => (TypeOK /\ Bookkeeping /\ LocksAndIntents)'
    BY TypeStep, BookkeepingStep, LocksStep DEF Bookkeeping
  <2> QED BY <2>1, <2>2, PTL DEF Spec
<1> QED BY <1>1, VictimsLoseNothing, PTL

=============================================================================
