------------------------------ MODULE MCShutdown ------------------------------
(***************************************************************************)
(* The instance of Shutdown that TLC checks: two operations of one domain. *)
(***************************************************************************)
EXTENDS Shutdown, TLC

CONSTANTS d1, o1, o2

OneDomain      == {d1}
TwoOps         == {o1, o2}
SameDomain     == [o \in Ops |-> d1]
Nobody         == {}
IssuesAndScans == {"issue", "auto"}
Verified       == {"verified"}
=============================================================================
