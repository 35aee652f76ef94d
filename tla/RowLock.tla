------------------------------- MODULE RowLock -------------------------------
(***************************************************************************)
(* What the status generating is for: a lock of each domain that is kept   *)
(* in its row.  It is taken only while the row does not show it, only the  *)
(* operation that holds it clears it, and a holder that fails to clear it, *)
(* or dies with the server, leaves it locked.                              *)
(***************************************************************************)
CONSTANTS
    Domains,
    Ops,
    DomainOf    \* the domain of an operation

VARIABLES
    locked,     \* the domains whose rows show the lock
    holders     \* the operations that work under a lock

lockVars == <<locked, holders>>

Init ==
    /\ locked \subseteq Domains
    /\ holders = {}

Take(o) ==
    /\ DomainOf[o] \notin locked
    /\ locked' = locked \union {DomainOf[o]}
    /\ holders' = holders \union {o}

Clear(o) ==
    /\ o \in holders
    /\ locked' = locked \ {DomainOf[o]}
    /\ holders' = holders \ {o}

Abandon(o) ==
    /\ o \in holders
    /\ holders' = holders \ {o}
    /\ UNCHANGED locked

Crash ==
    /\ holders' = {}
    /\ UNCHANGED locked

Next == Crash \/ \E o \in Ops : Take(o) \/ Clear(o) \/ Abandon(o)

Spec == Init /\ [][Next]_lockVars
=============================================================================
