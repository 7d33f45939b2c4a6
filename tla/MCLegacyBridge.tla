--------------------------- MODULE MCLegacyBridge ---------------------------
(***************************************************************************)
(* Small instances of LegacyBridge for TLC.                                *)
(***************************************************************************)
EXTENDS LegacyBridge

\* A storefront reservation, one that is not, and a row of deferred_api_writes.
CONSTANTS s1, b1, q1

=============================================================================
