----------------------------- MODULE AcmeAccount -----------------------------
(***************************************************************************)
(* The ACME account of one user (services/lego.go): a key that is created  *)
(* once, and its registration at the CA of acme.ca_url.  Every job of the  *)
(* user loads the row, drops a registration made at another CA, registers  *)
(* when there is none and then orders; nothing makes two jobs take turns.  *)
(* The CA, which registers a key once however often it is asked, is        *)
(* external.  Names Bug... are mistakes the properties must detect.        *)
(***************************************************************************)
EXTENDS Naturals

CONSTANTS
    Jobs,
    Keys,           \* the keys that may be generated
    CAs,            \* values of acme.ca_url
    LegacyRow,      \* there may be a row of the time before ca_url was stored
    TranslateError, \* the gorm option under which ErrDuplicatedKey is returned
    Faulty,         \* the jobs whose calls and statements may fail
    MaxRestarts,    \* bound: restarts of the server
    Null

\* A registration: of which key, at which CA.
Registrations == [ca : CAs, key : Keys]

Rows == [key : Keys, reg : Registrations \union {Null}, ca : CAs \union {Null}]

ASSUME AccountAssumption ==
    /\ LegacyRow \in BOOLEAN /\ TranslateError \in BOOLEAN
    /\ Faulty \subseteq Jobs
    /\ MaxRestarts \in Nat
    /\ Null \notin Keys \union CAs \union Registrations \union Rows

VARIABLES
    row,        \* acme_accounts: key, ca_url, and the registration as the pair of
                \* the CA and the key it was made with
    accounts,   \* the accounts CAs have for keys of this user
    caURL,      \* effectiveCAURL()
    pc,
    seen,       \* the row a job has read
    user,       \* the acmeUser of a job: key and registration
    kid,        \* its client has the account's URL
    restarts

jobVars == <<pc, seen, user, kid>>
vars == <<row, accounts, caURL, jobVars, restarts>>

NoUser == [key |-> Null, reg |-> Null]

\* Before the user's first certificate, or after an upgrade.
Init ==
    /\ caURL \in CAs
    /\ \/ row = Null /\ accounts = {}
       \/ /\ LegacyRow
          /\ \E k \in Keys, c \in CAs : LET reg == [ca |-> c, key |-> k] IN
                 row = [key |-> k, reg |-> reg, ca |-> Null] /\ accounts = {reg}
    /\ pc = [j \in Jobs |-> "idle"]
    /\ seen = [j \in Jobs |-> Null]
    /\ user = [j \in Jobs |-> NoUser]
    /\ kid = [j \in Jobs |-> FALSE]
    /\ restarts = 0

Goto(j, from, to) ==
    /\ pc[j] = from
    /\ pc' = [pc EXCEPT ![j] = to]

OnlyPc == UNCHANGED <<row, accounts, caURL, seen, user, kid, restarts>>

\* The job ends here, with a certificate or an error.
Ends(j) ==
    /\ pc' = [pc EXCEPT ![j] = "idle"]
    /\ seen' = [seen EXCEPT ![j] = Null]
    /\ user' = [user EXCEPT ![j] = NoUser]
    /\ kid' = [kid EXCEPT ![j] = FALSE]

ObtainCertificate(j) ==
    /\ Goto(j, "idle", "load")
    /\ OnlyPc

-----------------------------------------------------------------------------
(* loadOrCreateAcmeAccount *)

\* Only a row without ca_url counts.
BugStaleAt(r) == r.ca = Null /\ r.reg # Null

\* invalidateRegistrationIfCAChanged: a registration of an unknown CA, or a
\* ca_url that is not the current one.
StaleAt(r) == IF r.ca = Null THEN r.reg # Null ELSE r.ca # caURL

LoadAcmeAccount(j) ==
    /\ row # Null
    /\ Goto(j, "load", IF StaleAt(row) THEN "invalidate" ELSE "client")
    /\ seen' = [seen EXCEPT ![j] = IF StaleAt(row) THEN row ELSE Null]
    /\ user' = [user EXCEPT ![j] = [key |-> row.key,
                                    reg |-> IF StaleAt(row) THEN Null ELSE row.reg]]
    /\ UNCHANGED <<row, accounts, caURL, kid, restarts>>

AccountNotFound(j) ==
    /\ row = Null
    /\ Goto(j, "load", "create")
    /\ OnlyPc

\* A legacy row is taken to be of the current CA.
BugCleared(r, read) ==
    IF read.ca = Null THEN [r EXCEPT !.ca = caURL] ELSE [r EXCEPT !.reg = Null, !.ca = Null]

\* The update by id, by the row as it was read: a legacy row loses its
\* registration, another its ca_url as well.
Cleared(r, read) ==
    IF read.ca = Null THEN [r EXCEPT !.reg = Null] ELSE [r EXCEPT !.reg = Null, !.ca = Null]

Invalidate(j) ==
    /\ Goto(j, "invalidate", "client")
    /\ row' = Cleared(row, seen[j])
    /\ seen' = [seen EXCEPT ![j] = Null]
    /\ UNCHANGED <<accounts, caURL, user, kid, restarts>>

\* Keys are random.
Fresh(k) ==
    /\ row # Null => k # row.key
    /\ \A a \in accounts : k # a.key
    /\ \A j \in Jobs : k # user[j].key

\* A job whose insert fails goes on with the key it has generated.
BugCreateAcmeAccount(j) ==
    /\ Goto(j, "create", "client")
    /\ \E k \in Keys :
           /\ Fresh(k)
           /\ row' = IF row = Null THEN [key |-> k, reg |-> Null, ca |-> Null] ELSE row
           /\ user' = [user EXCEPT ![j] = [key |-> k, reg |-> Null]]
    /\ UNCHANGED <<accounts, caURL, seen, kid, restarts>>

\* user_id is unique: one insert succeeds.
CreateAcmeAccount(j) ==
    /\ row = Null
    /\ Goto(j, "create", "client")
    /\ \E k \in Keys :
           /\ Fresh(k)
           /\ row' = [key |-> k, reg |-> Null, ca |-> Null]
           /\ user' = [user EXCEPT ![j] = [key |-> k, reg |-> Null]]
    /\ UNCHANGED <<accounts, caURL, seen, kid, restarts>>

\* The duplicate is recognised only where gorm translates the driver's error.
CreateConflicts(j) ==
    /\ row # Null
    /\ pc[j] = "create"
    /\ IF TranslateError THEN Goto(j, "create", "load") /\ UNCHANGED <<seen, user, kid>>
       ELSE Ends(j)
    /\ UNCHANGED <<row, accounts, caURL, restarts>>

-----------------------------------------------------------------------------
(* newLegoClient and ensureRegistered *)

\* Lego takes the account's URL from the user when the client is made.
NewLegoClient(j) ==
    /\ Goto(j, "client", IF user[j].reg # Null THEN "order" ELSE "reload")
    /\ kid' = [kid EXCEPT ![j] = user[j].reg # Null]
    /\ UNCHANGED <<row, accounts, caURL, seen, user, restarts>>

\* loadAcmeRegistration finds what another job has saved; the client, made
\* before, does not hear of it.  The row, current when the job loaded it or made
\* so, is not stale again (a step that found it so would be missing here, and
\* the job would be stuck).
FoundRegistration(j) ==
    /\ \E from \in {"reload", "retry"} : Goto(j, from, "order")
    /\ ~StaleAt(row) /\ row.reg # Null
    /\ user' = [user EXCEPT ![j].reg = row.reg]
    /\ UNCHANGED <<row, accounts, caURL, seen, kid, restarts>>

FoundNone(j) ==
    /\ Goto(j, "reload", "register")
    /\ ~StaleAt(row) /\ row.reg = Null
    /\ OnlyPc

\* After an error there is nothing else to try.
RetryFindsNone(j) ==
    /\ pc[j] = "retry"
    /\ ~StaleAt(row) /\ row.reg = Null
    /\ Ends(j)
    /\ UNCHANGED <<row, accounts, caURL, restarts>>

Account(j) == [ca |-> caURL, key |-> user[j].key]

Register(j) ==
    /\ Goto(j, "register", "save")
    /\ accounts' = accounts \union {Account(j)}
    /\ user' = [user EXCEPT ![j].reg = Account(j)]
    /\ kid' = [kid EXCEPT ![j] = TRUE]
    /\ UNCHANGED <<row, caURL, seen, restarts>>

\* An error, whatever the CA has done.
RegisterFails(j) ==
    /\ j \in Faulty
    /\ Goto(j, "register", "retry")
    /\ accounts' \in {accounts, accounts \union {Account(j)}}
    /\ UNCHANGED <<row, caURL, seen, user, kid, restarts>>

\* ca_url is left to the next load.
BugSaveAcmeRegistration(j) ==
    /\ Goto(j, "save", "order")
    /\ row' = [row EXCEPT !.reg = user[j].reg]
    /\ UNCHANGED <<accounts, caURL, seen, user, kid, restarts>>

SaveAcmeRegistration(j) ==
    /\ Goto(j, "save", "order")
    /\ row' = [row EXCEPT !.reg = user[j].reg, !.ca = caURL]
    /\ UNCHANGED <<accounts, caURL, seen, user, kid, restarts>>

SaveFails(j) ==
    /\ j \in Faulty
    /\ Goto(j, "save", "retry")
    /\ OnlyPc

\* obtainWithContext or renewWithContext has returned.
Ordered(j) ==
    /\ pc[j] = "order"
    /\ Ends(j)
    /\ UNCHANGED <<row, accounts, caURL, restarts>>

\* requireACMEActive, a statement or the directory of the CA says no.
Fails(j) ==
    /\ j \in Faulty
    /\ pc[j] \in {"load", "invalidate", "create", "client", "reload", "retry"}
    /\ Ends(j)
    /\ UNCHANGED <<row, accounts, caURL, restarts>>

JobStep(j) ==
    \/ LoadAcmeAccount(j) \/ AccountNotFound(j) \/ CreateAcmeAccount(j) \/ CreateConflicts(j)
    \/ Invalidate(j) \/ NewLegoClient(j)
    \/ FoundRegistration(j) \/ FoundNone(j) \/ RetryFindsNone(j)
    \/ Register(j) \/ RegisterFails(j) \/ SaveAcmeRegistration(j) \/ SaveFails(j)
    \/ Ordered(j) \/ Fails(j)

\* The server is started again, with another acme.ca_url perhaps.
Restart ==
    /\ restarts < MaxRestarts
    /\ restarts' = restarts + 1
    /\ caURL' \in CAs
    /\ pc' = [j \in Jobs |-> "idle"]
    /\ seen' = [j \in Jobs |-> Null]
    /\ user' = [j \in Jobs |-> NoUser]
    /\ kid' = [j \in Jobs |-> FALSE]
    /\ UNCHANGED <<row, accounts>>

Next ==
    \/ \E j \in Jobs : ObtainCertificate(j) \/ JobStep(j)
    \/ Restart

Spec == Init /\ [][Next]_vars

\* The domains of the user are renewed, and goroutines go on.  The calls of jobs
\* that may fail end too, one way or the other.
Fairness == \A j \in Jobs : WF_vars(ObtainCertificate(j)) /\ WF_vars(JobStep(j))

FairSpec == Spec /\ Fairness

-----------------------------------------------------------------------------
(* Properties *)

PCs ==
    {"idle", "load", "invalidate", "create", "client", "reload", "register", "retry",
     "save", "order"}

\* The types; whoever makes a client has loaded or created a key.
TypeOK ==
    /\ row \in Rows \union {Null}
    /\ accounts \subseteq Registrations
    /\ caURL \in CAs
    /\ pc \in [Jobs -> PCs]
    /\ seen \in [Jobs -> Rows \union {Null}]
    /\ user \in [Jobs -> [key : Keys \union {Null}, reg : Registrations \union {Null}]]
    /\ \A j \in Jobs : pc[j] \in {"client", "reload", "register", "save", "order"}
           => user[j].key \in Keys
    /\ kid \in [Jobs -> BOOLEAN]
    /\ restarts \in 0..MaxRestarts

StoredKey == IF row = Null THEN Null ELSE row.key

StoredRegistration == IF row = Null THEN Null ELSE row.reg

Book == INSTANCE AccountBook WITH key <- StoredKey, stored <- StoredRegistration

\* However many jobs of the user start together, and whatever fails, there is one
\* key, the CAs have accounts for no other, and what is stored is an account.
AccountSpec == Book!Spec

\* However many jobs of the user start together, and whatever fails, the user has
\* one account at a CA, and its key is the one that is stored.
OneAccount == \A a \in accounts : row # Null /\ a.key = row.key

\* A job orders with the stored key and an account the current CA has for it:
\* never with a registration made at another CA, or with another job's key.
OrdersWithAccount ==
    \A j \in Jobs : pc[j] = "order"
        => /\ row # Null /\ user[j].key = row.key
           /\ user[j].reg = Account(j) /\ user[j].reg \in accounts

\* A stored registration was made at the CA of the stored ca_url, although jobs
\* that read the row earlier still clear one or both: what a later start trusts.
StoredFits ==
    row # Null /\ row.ca # Null /\ row.reg # Null
        => row.reg = [ca |-> row.ca, key |-> row.key] /\ row.reg \in accounts

\* When no more restarts come and some jobs do not fail, the registration at the
\* current CA ends up in the row and stays: jobs do not go on registering and
\* clearing each other's registration.
RegistrationSettles == <>[](row # Null /\ row.reg # Null /\ row.ca = caURL)

\* A registration that is saved is not lost again while the CA stays the same.
RegistrationKept ==
    [][row # Null /\ row.reg # Null /\ row.ca = caURL => row'.reg # Null \/ caURL' # caURL]_vars

\* errors.Is(err, gorm.ErrDuplicatedKey) "return loadAcmeAccount(userID)": of two
\* jobs that create the account, the second goes on with the first one's.
CreatorsShare ==
    [][\A j \in Jobs \ Faulty : pc[j] = "create" => pc'[j] # "idle" \/ restarts' # restarts]_vars

\* The client of a job that orders knows the account's URL.
ClientKnowsAccount == \A j \in Jobs : pc[j] = "order" => kid[j]
=============================================================================
