---------------------------- MODULE MCAcmeAccount ----------------------------
(* The instances of AcmeAccount that TLC checks.                            *)
EXTENDS AcmeAccount, TLC

CONSTANTS j1, j2, j3, k1, k2, k3, ca1, ca2
=============================================================================
