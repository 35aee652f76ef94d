----------------------------- MODULE AccountBook -----------------------------
(***************************************************************************)
(* What the server promises about the ACME account of a user, whichever    *)
(* jobs load, create, register and restart: one key, chosen once and never *)
(* replaced; accounts that the CAs have for that key only; and a           *)
(* registration at hand that is one of these accounts, or none.            *)
(***************************************************************************)
CONSTANTS
    CAs,
    Keys,
    Null

VARIABLES
    key,        \* the user's key, or Null
    accounts,   \* the accounts CAs have for keys of the user
    stored      \* the registration in the database, or Null

bookVars == <<key, accounts, stored>>

AccountsOf(k) == {[ca |-> c, key |-> k] : c \in CAs}

Init ==
    /\ key \in Keys \union {Null}
    /\ accounts \subseteq IF key = Null THEN {} ELSE AccountsOf(key)
    /\ stored \in accounts \union {Null}

Choose ==
    /\ key = Null
    /\ key' \in Keys
    /\ UNCHANGED <<accounts, stored>>

Register ==
    /\ key # Null
    /\ \E a \in AccountsOf(key) : accounts' = accounts \union {a}
    /\ UNCHANGED <<key, stored>>

Store ==
    /\ stored' \in accounts
    /\ UNCHANGED <<key, accounts>>

\* The server uses another CA now, or does not know where it registered.
Forget ==
    /\ stored' = Null
    /\ UNCHANGED <<key, accounts>>

Next == Choose \/ Register \/ Store \/ Forget

Spec == Init /\ [][Next]_bookVars
=============================================================================
