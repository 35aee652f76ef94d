--------------------------- MODULE MCRenewBackoff ---------------------------
(* The instances of RenewBackoff that TLC checks.                           *)
EXTENDS RenewBackoff

CONSTANTS j1, j2, j3
=============================================================================
