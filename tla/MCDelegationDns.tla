--------------------------- MODULE MCDelegationDns ---------------------------
(* The instances of DelegationDns that TLC checks.                          *)
EXTENDS DelegationDns

CONSTANTS j1, j2, j3
=============================================================================
