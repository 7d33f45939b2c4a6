-------------------------- MODULE MCDirectBooking --------------------------
(***************************************************************************)
(* Small instances of DirectBooking for TLC.                               *)
(***************************************************************************)
EXTENDS DirectBookingInv, TLC

CONSTANTS h1, h2, r1, r2, r3, w1, w2, i1, pA

\* Two overlapping stays of one property that differ by one night.
MCStay == {[prop |-> pA, ci |-> 1, co |-> 3], [prop |-> pA, ci |-> 2, co |-> 4]}

MCStayOfIntent == [i \in Intent |-> [prop |-> pA, ci |-> 2, co |-> 4]]

Symmetry == Permutations(Hold) \cup Permutations(Res) \cup Permutations(Worker)

=============================================================================
