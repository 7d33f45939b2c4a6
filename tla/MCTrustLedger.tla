--------------------------- MODULE MCTrustLedger ---------------------------
(***************************************************************************)
(* Small instances of TrustLedger for TLC.                                 *)
(***************************************************************************)
EXTENDS TrustLedger, TLC

Symmetry == Permutations(Worker) \cup Permutations(Invoice)
=============================================================================
