------------------------- MODULE MCOwnerStatements -------------------------
(***************************************************************************)
(* Small instances of OwnerStatements for TLC.                             *)
(***************************************************************************)
EXTENDS OwnerStatements, TLC

CONSTANTS w1, w2, c1

\* A month without income, then one with: the second may open with a debt.
LeanThenGood == <<0, 2>>

\* Workers are interchangeable.
WorkerSymmetry == Permutations(Worker)

=============================================================================
