-------------------------- MODULE DirectBookingInv --------------------------
(***************************************************************************)
(* The inductive invariant behind the safety properties of DirectBooking,  *)
(* in named parts.  TLC checks it on the small instances; the proofs are   *)
(* in DirectBookingProofs.                                                 *)
(***************************************************************************)
EXTENDS DirectBooking

\* A session inside the critical section of its property.
Locked(w) == /\ tx[w].op \in {"quote", "book"} \cup Finalizers
             /\ tx[w].pc \in {"expire", "check", "insert", "pay", "commit"}

\* A finalizer that has read its hold FOR UPDATE and not yet finished.
OwnsHold(w) == /\ tx[w].op \in Finalizers
               /\ tx[w].pc \in {"lock", "expire", "check", "insert", "commit"}

\* What the program counter says about the rest of a transaction record.
WellFormed(t) ==
    /\ t.op = "none" <=> t.pc = "idle"
    /\ t.op \in Finalizers \cup {"book"} => t.src \in Hold
    /\ t.op = "store" => /\ t.src \in Intent
                         /\ t.pc \in {"check", "holds", "insert", "commit"}
    /\ t.op \in {"none", "quote"} => t.src = None
    /\ t.op = "quote" => t.pc \in {"lock", "expire", "commit"}
    /\ t.op = "book" => t.pc \in {"lock", "expire", "check", "pay", "commit"}
    /\ t.pc \in {"row", "emit"} => t.op \in Finalizers
    /\ t.pc = "pay" => t.op = "book"
    /\ t.pc = "holds" => t.op = "store"
    /\ t.new # None <=> /\ t.op \in Finalizers \cup {"store"}
                        /\ t.pc \in {"commit", "emit"}
    /\ t.expiring # {} => /\ t.op \in {"quote", "book"} \cup Finalizers
                          /\ t.pc \in {"check", "insert", "pay", "commit"}

TxShape == \A w \in Worker : WellFormed(tx[w])

\* The advisory lock of a property has at most one owner: the session whose
\* transaction is inside the section.
AdvisoryLockOwned ==
    \A w \in Worker : Locked(w) => advLock[tx[w].stay.prop] = w

\* A lock has a reason: the advisory lock of a property is held by a session
\* inside its section, a row lock by the finalizer of the hold or by the
\* session that marked the row expired.  Nobody leaves with a lock.
LocksJustified ==
    /\ \A p \in Property : advLock[p] # None =>
          Locked(advLock[p]) /\ tx[advLock[p]].stay.prop = p
    /\ \A h \in Hold : rowLock[h] # None =>
          \/ OwnsHold(rowLock[h]) /\ tx[rowLock[h]].src = h
          \/ h \in tx[rowLock[h]].expiring

\* Before it pays, a booking has no PaymentIntent.
UnpaidBookings ==
    \A w \in Worker :
        tx[w].op = "book" /\ tx[w].pc \in {"lock", "expire", "check", "pay"}
            => pi[tx[w].src] = "none"

LocksAndIntents == LocksJustified /\ UnpaidBookings

\* A row a transaction has read FOR UPDATE or marked expired is locked by it
\* and is still active in the database.
RowLockOwned ==
    \A w \in Worker :
        /\ OwnsHold(w) => /\ rowLock[tx[w].src] = w
                          /\ holds[tx[w].src].status = "active"
        /\ \A h \in tx[w].expiring : /\ rowLock[h] = w
                                     /\ holds[h].status = "active"

\* Past the availability check a finalizer's own hold is not one it expired.
ConvertsUnexpired ==
    \A w \in Worker :
        tx[w].op \in Finalizers /\ tx[w].pc \in {"insert", "commit"}
            => tx[w].src \notin tx[w].expiring

\* A hold id is used by one booking only until its row is committed; after
\* that everybody who names the hold knows its stay.
HoldIdsFresh ==
    \A w \in Worker :
        /\ tx[w].op = "book" =>
              /\ holds[tx[w].src].status = "none"
              /\ \A v \in Worker \ {w} : tx[v].src # tx[w].src
        /\ tx[w].op \in Finalizers =>
              /\ holds[tx[w].src].status # "none"
              /\ tx[w].stay = holds[tx[w].src].stay

\* A reservation id is used by one transaction only.
ResIdsFresh ==
    \A w \in Worker : tx[w].new # None =>
        /\ \A v \in Worker \ {w} : tx[v].new # tx[w].new
        /\ tx[w].pc = "commit" => res[tx[w].new].status = "none"
        /\ tx[w].pc = "emit" => res[tx[w].new].status # "none"

\* A reservation comes from a payment, and a converted hold has its own.
ReservationSources ==
    /\ \A r \in Res : res[r].status # "none" => res[r].src \in Hold \cup Intent
    /\ \A h \in Hold : holds[h].status = "converted" =>
          /\ holds[h].res \in Res
          /\ res[holds[h].res].status # "none"
          /\ res[holds[h].res].src = h
          /\ res[holds[h].res].stay = holds[h].stay

\* The rows a transaction has marked expired are past their expiry.
SweptAreOver ==
    \A w \in Worker : \A h \in tx[w].expiring : holds[h].expires < now

Bookkeeping ==
    /\ TxShape
    /\ AdvisoryLockOwned
    /\ RowLockOwned
    /\ ConvertsUnexpired
    /\ HoldIdsFresh
    /\ ResIdsFresh
    /\ ReservationSources
    /\ OneReservationPerHold

\* Between its commit and its event a conversion has not been announced, and
\* the row it is about to announce is its own.
ToAnnounce ==
    \A w \in Worker : tx[w].pc = "emit" =>
        /\ res[tx[w].new].src = tx[w].src
        /\ emitted[tx[w].new] = 0

\* What the outside has been told follows the rows.
OutsideFollows == AnsweredMeansBooked /\ EventsFollowBookings /\ ToAnnounce

\* What a hold claims: its nights while it stands or as a reservation.
Stands(h) == HoldStands(h) \/ ReservationStands(h)

\* A session about to insert its hold.
Placing(w) == tx[w].op = "book" /\ tx[w].pc \in {"pay", "commit"}

\* Standing claims are disjoint, and a hold about to be committed overlaps
\* none of them.
ClaimsDisjoint ==
    /\ \A h, g \in Hold :
          h # g /\ Stands(h) /\ Stands(g) => ~Overlaps(holds[h].stay, holds[g].stay)
    /\ \A w \in Worker, g \in Hold :
          Placing(w) /\ Stands(g) => ~Overlaps(holds[g].stay, tx[w].stay)

\* With the EXCLUDE constraint: reservations and pending INSERTs are disjoint.
Pending(w) == tx[w].pc = "commit" /\ tx[w].new # None

InsertsDisjoint ==
    /\ NoDoubleBooking
    /\ \A w \in Worker : Pending(w) => ~ReservationConflict(tx[w].stay)
    /\ \A w, v \in Worker : w # v /\ Pending(w) /\ Pending(v)
                                => ~Overlaps(tx[v].stay, tx[w].stay)

=============================================================================
