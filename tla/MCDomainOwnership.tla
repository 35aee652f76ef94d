-------------------------- MODULE MCDomainOwnership --------------------------
(* The instances of DomainOwnership that TLC checks.                        *)
EXTENDS DomainOwnership, TLC

CONSTANTS u1, u2, u3, r1, r2, r3

ReqSymmetry == Permutations(Reqs)
BothSymmetry == Permutations(Reqs) \union Permutations(Users)
=============================================================================
