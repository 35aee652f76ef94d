-------------------------- MODULE MCCertLifecycle --------------------------
(***************************************************************************)
(* Small instances of CertLifecycle: one or two domains, one to three      *)
(* operations.                                                             *)
(***************************************************************************)
EXTENDS CertLifecycle, TLC

CONSTANTS d1, d2, o1, o2, o3

OneDomain  == {d1}
TwoDomains == {d1, d2}
OneOp      == {o1}
TwoOps     == {o1, o2}
ThreeOps   == {o1, o2, o3}

\* All operations on d1, or the first on d1 and the others on d2.
SameDomain == [o \in Ops |-> d1]
Spread     == [o \in Ops |-> IF o = o1 THEN d1 ELSE d2]

Nobody   == {}
Issues   == {"issue"}
Renews   == {"renew"}
Renewals == {"renew", "auto"}
AllKinds == {"issue", "renew", "auto"}

Unissued == {"pending", "verified", "error"}
Issued   == {"active"}
AnyRow   == {"pending", "active"}

\* Operations on the same domain are interchangeable.
OpSymmetry == Permutations(Ops)
=============================================================================
