------------------------------ MODULE SlotPool ------------------------------
(***************************************************************************)
(* What the global certificate-job semaphore promises, without saying how: *)
(* a pool of Cap slots.  A client takes a slot only while fewer than Cap   *)
(* are taken, a client that gives its slot back is the one that held it,   *)
(* and a restart of the server empties the pool.                           *)
(***************************************************************************)
EXTENDS Naturals, FiniteSets

CONSTANTS
    Clients,    \* everyone who may ever take a slot
    Cap         \* renewal.max_concurrent_jobs

VARIABLE holders    \* the clients that hold a slot

Init == holders = {}

Acquire(c) ==
    /\ c \notin holders
    /\ Cardinality(holders) < Cap
    /\ holders' = holders \union {c}

Release(c) ==
    /\ c \in holders
    /\ holders' = holders \ {c}

Restart == holders' = {}

Next == Restart \/ \E c \in Clients : Acquire(c) \/ Release(c)

Spec == Init /\ [][Next]_holders
=============================================================================
