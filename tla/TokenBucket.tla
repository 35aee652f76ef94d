----------------------------- MODULE TokenBucket -----------------------------
(***************************************************************************)
(* What a rate limiter promises each of its keys: Burst tokens at once,    *)
(* and one more every Cost minutes.  Credit is counted in minutes.         *)
(***************************************************************************)
EXTENDS Naturals

CONSTANTS Keys, Burst, Cost

VARIABLE credit

Full == Burst * Cost

Init == credit = [k \in Keys |-> Full]

Take(k) ==
    /\ credit[k] >= Cost
    /\ credit' = [credit EXCEPT ![k] = @ - Cost]

\* A minute.
Earn == credit' = [k \in Keys |-> IF credit[k] < Full THEN credit[k] + 1 ELSE Full]

Next == Earn \/ \E k \in Keys : Take(k)

Spec == Init /\ [][Next]_credit
=============================================================================
