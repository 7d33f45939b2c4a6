--------------------------- MODULE StayInventory ---------------------------
(***************************************************************************)
(* What the checkout promises, without transactions, locks or clocks: a    *)
(* claim on a stay is placed only where no other claim stands, a booking   *)
(* only ever comes out of a standing hold, and nights come back when a     *)
(* hold lapses or a booking is cancelled.                                  *)
(***************************************************************************)
EXTENDS Stays

CONSTANTS Claim, Stay

VARIABLE claim      \* the state and the stay of each claim

ClaimState == {"free", "held", "booked", "gone"}

Standing(c) == claim[c].state \in {"held", "booked"}

ClaimInit ==
    /\ claim \in [Claim -> [state: {"free"}, stay: Stay]]

\* A guest gets a hold: only where no other claim stands.
Place(c, s) ==
    /\ claim[c].state = "free"
    /\ \A d \in Claim : Standing(d) => ~Overlaps(claim[d].stay, s)
    /\ claim' = [claim EXCEPT ![c] = [state |-> "held", stay |-> s]]

\* A hold that was over before the guest ever saw it.
Lapse(c, s) ==
    /\ claim[c].state = "free"
    /\ claim' = [claim EXCEPT ![c] = [state |-> "gone", stay |-> s]]

\* The hold becomes a reservation for the same stay.
Book(c) ==
    /\ claim[c].state = "held"
    /\ claim' = [claim EXCEPT ![c].state = "booked"]

\* Holds run out together when time passes; a booking is cancelled alone.
Release(C) ==
    /\ C # {}
    /\ \A c \in C : Standing(c)
    /\ claim' = [c \in Claim |-> IF c \in C
                                 THEN [claim[c] EXCEPT !.state = "gone"]
                                 ELSE claim[c]]

ClaimNext ==
    \/ \E c \in Claim, s \in Stay : Place(c, s) \/ Lapse(c, s)
    \/ \E c \in Claim : Book(c)
    \/ \E C \in SUBSET Claim : Release(C)

InventorySpec == ClaimInit /\ [][ClaimNext]_claim

\* No two standing claims overlap: nothing is promised twice.
NothingPromisedTwice ==
    \A c, d \in Claim :
        c # d /\ Standing(c) /\ Standing(d)
            => ~Overlaps(claim[c].stay, claim[d].stay)

=============================================================================
