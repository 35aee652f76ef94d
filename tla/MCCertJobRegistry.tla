------------------------- MODULE MCCertJobRegistry -------------------------
(***************************************************************************)
(* Three operations, two of them on the same domain.                       *)
(***************************************************************************)
EXTENDS CertJobRegistry

CONSTANTS d1, d2, o1, o2, o3

MCDomains  == {d1, d2}
MCOps      == {o1, o2, o3}
MCDomainOf == [o \in MCOps |-> IF o = o3 THEN d2 ELSE d1]
=============================================================================
