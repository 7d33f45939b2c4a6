--------------------------- MODULE MCOwnerPayouts ---------------------------
(***************************************************************************)
(* Small instances of OwnerPayouts for TLC.                                *)
(***************************************************************************)
EXTENDS OwnerPayouts, TLC

CONSTANTS s1, s2, w1, w2, r1, r2, d1

\* Two stays that end on following days, or with a day between them.
DayAfterDay == s1 :> 0 @@ s2 :> 1
DayBetween == s1 :> 0 @@ s2 :> 2

TwoAndThree == s1 :> 2 @@ s2 :> 3

UpToTen == 0..10

\* Workers and ledger rows are interchangeable.
PayoutSymmetry == Permutations(Worker) \cup Permutations(Row)

=============================================================================
