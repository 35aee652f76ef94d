--------------------------- MODULE AcmeAccountProofs ---------------------------
(***************************************************************************)
(* The ACME account of a user, for any number of jobs, keys, CAs and       *)
(* restarts, with and without a legacy row, and whatever fails.            *)
(***************************************************************************)
EXTENDS AcmeAccount, TLAPS

\* The jobs that have the stored key, and those to which the row was current.
Holding == {"invalidate", "client", "reload", "register", "retry", "save", "order"}
Current == Holding \ {"invalidate"}

HoldsStoredKey ==
    \A j \in Jobs : pc[j] \in Holding => row # Null /\ user[j].key = row.key

\* A row that was current once in this process is not stale again; that is why
\* loadAcmeRegistration never has anything to invalidate.
NotStaleAgain == \A j \in Jobs : pc[j] \in Current => ~StaleAt(row)

\* What a late invalidation finds.
Invalidating ==
    \A j \in Jobs : pc[j] = "invalidate"
        => /\ user[j].reg = Null
           /\ seen[j] \in Rows
           /\ seen[j].ca = Null => row.ca \in {Null, caURL}

\* A registration in a job's hands is an account at the current CA.
RegistrationHeld ==
    \A j \in Jobs :
        /\ pc[j] \in {"save", "order"} => user[j].reg # Null
        /\ pc[j] \in {"client", "save", "order"} /\ user[j].reg # Null
               => user[j].reg = Account(j) /\ user[j].reg \in accounts

IInv ==
    /\ TypeOK /\ HoldsStoredKey /\ NotStaleAgain /\ Invalidating /\ RegistrationHeld
    /\ OneAccount /\ StoredFits

\* A current row with a registration is one of the current CA.
LEMMA CurrentRegistration ==
    ASSUME row # Null, ~StaleAt(row), row.reg # Null, StoredFits, TypeOK
    PROVE  row.reg = [ca |-> caURL, key |-> row.key] /\ row.reg \in accounts
BY AccountAssumption DEF StaleAt, StoredFits, TypeOK

LEMMA AccountInvariant == Spec => []IInv
<1> USE AccountAssumption
<1>1. Init => IInv
  <2> SUFFICES ASSUME Init PROVE IInv
    OBVIOUS
  <2>1. kid \in [Jobs -> BOOLEAN]
    BY Zenon DEF Init
  <2>2. TypeOK
    BY <2>1 DEF Init, TypeOK, PCs, NoUser, Rows, Registrations
  <2> QED BY <2>2 DEF Init, IInv, HoldsStoredKey, NotStaleAgain, Invalidating, RegistrationHeld,
          OneAccount, StoredFits, Holding, Current, Rows, Registrations
<1>2. IInv /\ [Next]_vars => IInv'
  <2> SUFFICES ASSUME IInv, [Next]_vars PROVE IInv'
    OBVIOUS
  <2> USE DEF IInv, TypeOK, PCs, HoldsStoredKey, NotStaleAgain, Invalidating, RegistrationHeld,
          OneAccount, StoredFits, Holding, Current, Rows, Registrations, StaleAt, Account,
          NoUser, Goto, OnlyPc
  <2>1. ASSUME NEW j \in Jobs, ObtainCertificate(j) PROVE IInv'
    BY <2>1 DEF ObtainCertificate
  <2>2. ASSUME NEW j \in Jobs, JobStep(j) PROVE IInv'
    <3>1. CASE LoadAcmeAccount(j)
      <4>1. CASE StaleAt(row)
        BY <3>1, <4>1 DEF LoadAcmeAccount
      <4>2. CASE ~StaleAt(row)
        <5>1. row.reg # Null => row.reg = [ca |-> caURL, key |-> row.key] /\ row.reg \in accounts
          BY <3>1, <4>2, CurrentRegistration DEF LoadAcmeAccount
        <5> QED BY <3>1, <4>2, <5>1 DEF LoadAcmeAccount
      <4> QED BY <4>1, <4>2
    <3>2. CASE AccountNotFound(j)
      BY <3>2 DEF AccountNotFound
    <3>3. CASE CreateAcmeAccount(j)
      <4>1. PICK k \in Keys :
               /\ row' = [key |-> k, reg |-> Null, ca |-> Null]
               /\ user' = [user EXCEPT ![j] = [key |-> k, reg |-> Null]]
        BY <3>3 DEF CreateAcmeAccount
      <4>2. row' \in Rows /\ row' # Null /\ ~StaleAt(row')
        BY <4>1
      <4>3. accounts = {} /\ \A i \in Jobs : pc[i] \notin Holding
        BY <3>3 DEF CreateAcmeAccount
      <4>4. TypeOK'
        BY <3>3, <4>1, <4>2 DEF CreateAcmeAccount
      <4>5. (HoldsStoredKey /\ NotStaleAgain)'
        BY <3>3, <4>1, <4>2, <4>3 DEF CreateAcmeAccount
      <4>6. (Invalidating /\ RegistrationHeld)'
        BY <3>3, <4>1, <4>3 DEF CreateAcmeAccount
      <4>7. (OneAccount /\ StoredFits)'
        BY <3>3, <4>1, <4>2, <4>3 DEF CreateAcmeAccount
      <4> QED BY <4>4, <4>5, <4>6, <4>7
    <3>4. CASE CreateConflicts(j)
      <4>1. CASE TranslateError
        <5>1. pc' = [pc EXCEPT ![j] = "load"]
              /\ UNCHANGED <<seen, user, kid, row, accounts, caURL, restarts>>
          BY <3>4, <4>1 DEF CreateConflicts
        <5>2. (TypeOK /\ HoldsStoredKey /\ NotStaleAgain)'
          BY <5>1
        <5>3. (Invalidating /\ RegistrationHeld)'
          BY <5>1
        <5>4. (OneAccount /\ StoredFits)'
          BY <5>1
        <5> QED BY <5>2, <5>3, <5>4
      <4>2. CASE ~TranslateError
        <5>1. kid' \in [Jobs -> BOOLEAN]
          BY <3>4, <4>2, Zenon DEF CreateConflicts, Ends
        <5>2. pc' = [pc EXCEPT ![j] = "idle"] /\ user' = [user EXCEPT ![j] = NoUser]
              /\ seen' = [seen EXCEPT ![j] = Null]
              /\ UNCHANGED <<row, accounts, caURL, restarts>>
          BY <3>4, <4>2 DEF CreateConflicts, Ends
        <5> QED BY <5>1, <5>2
      <4> QED BY <4>1, <4>2
    <3>5. CASE Invalidate(j)
      <4>1. row \in Rows /\ row # Null /\ seen[j] \in Rows
        BY <3>5 DEF Invalidate
      <4>2. row' = [key |-> row.key, reg |-> Null, ca |-> IF seen[j].ca = Null THEN row.ca ELSE Null]
        BY <3>5, <4>1 DEF Invalidate, Cleared
      <4>3. row' \in Rows /\ row' # Null /\ row'.key = row.key
        BY <4>1, <4>2
      <4>4. ~StaleAt(row')
        BY <3>5, <4>1, <4>2 DEF Invalidate
      <4>5. TypeOK'
        BY <3>5, <4>3 DEF Invalidate
      <4>6. (HoldsStoredKey /\ NotStaleAgain)'
        BY <3>5, <4>1, <4>2, <4>3, <4>4 DEF Invalidate
      <4>7. (Invalidating /\ RegistrationHeld)'
        BY <3>5, <4>1, <4>2 DEF Invalidate
      <4>8. (OneAccount /\ StoredFits)'
        BY <3>5, <4>1, <4>2, <4>3 DEF Invalidate
      <4> QED BY <4>5, <4>6, <4>7, <4>8
    <3>6. CASE NewLegoClient(j)
      BY <3>6 DEF NewLegoClient
    <3>7. CASE FoundRegistration(j)
      <4>1. row.reg = [ca |-> caURL, key |-> row.key] /\ row.reg \in accounts
        BY <3>7, CurrentRegistration DEF FoundRegistration
      <4> QED BY <3>7, <4>1 DEF FoundRegistration
    <3>8. CASE FoundNone(j)
      BY <3>8 DEF FoundNone
    <3>9. CASE RetryFindsNone(j)
      BY <3>9 DEF RetryFindsNone, Ends
    <3>10. CASE Register(j)
      BY <3>10 DEF Register
    <3>11. CASE RegisterFails(j)
      BY <3>11 DEF RegisterFails
    <3>12. CASE SaveAcmeRegistration(j)
      <4>1. row # Null /\ user[j].key = row.key /\ user[j].reg = Account(j) /\ user[j].reg \in accounts
        BY <3>12 DEF SaveAcmeRegistration
      <4>2. row' = [key |-> row.key, reg |-> Account(j), ca |-> caURL]
        BY <3>12, <4>1 DEF SaveAcmeRegistration
      <4>3. row' \in Rows /\ row' # Null /\ ~StaleAt(row')
        BY <4>1, <4>2
      <4> QED BY <3>12, <4>1, <4>2, <4>3 DEF SaveAcmeRegistration
    <3>13. CASE SaveFails(j)
      BY <3>13 DEF SaveFails
    <3>14. CASE Ordered(j)
      BY <3>14 DEF Ordered, Ends
    <3>15. CASE Fails(j)
      BY <3>15 DEF Fails, Ends
    <3> QED BY <2>2, <3>1, <3>2, <3>3, <3>4, <3>5, <3>6, <3>7, <3>8, <3>9, <3>10, <3>11, <3>12,
            <3>13, <3>14, <3>15 DEF JobStep
  <2>3. CASE Restart
    <3>1. kid' \in [Jobs -> BOOLEAN]
      BY <2>3, Zenon DEF Restart
    <3> QED BY <2>3, <3>1 DEF Restart
  <2>4. CASE UNCHANGED vars
    BY <2>4 DEF vars, jobVars
  <2> QED BY <2>1, <2>2, <2>3, <2>4 DEF Next
<1> QED BY <1>1, <1>2, PTL DEF Spec

\* Type correctness: in particular a job makes its client with a key.
THEOREM AccountTypeCorrect == Spec => []TypeOK
<1>1. IInv => TypeOK
  BY DEF IInv
<1> QED BY <1>1, AccountInvariant, PTL

\* A user has one account at a CA, with the stored key, however many jobs load,
\* create and register at once.
THEOREM UserHasOneAccount == Spec => []OneAccount
<1>1. IInv => OneAccount
  BY DEF IInv
<1> QED BY <1>1, AccountInvariant, PTL

\* Every order is placed with the stored key and an account of the current CA.
THEOREM OrdersAreBacked == Spec => []OrdersWithAccount
<1>1. IInv => OrdersWithAccount
  BY DEF IInv, HoldsStoredKey, RegistrationHeld, Holding, OrdersWithAccount
<1> QED BY <1>1, AccountInvariant, PTL

\* The stored registration and ca_url belong together, whatever late
\* invalidations clear.
THEOREM StoredRegistrationFits == Spec => []StoredFits
<1>1. IInv => StoredFits
  BY DEF IInv
<1> QED BY <1>1, AccountInvariant, PTL

-----------------------------------------------------------------------------
(* The refinement of AccountBook                                             *)

\* A registration that is stored is an account of the stored key.
StoredIsAccount == row # Null /\ row.reg # Null => row.reg \in accounts

BookInv == IInv /\ StoredIsAccount

\* Only the legacy row has no ca_url, and its account was made long ago.
LEMMA BookInvariant == Spec => []BookInv
<1> USE AccountAssumption
<1>1. Init => StoredIsAccount
  BY DEF Init, StoredIsAccount, Registrations
<1>2. IInv /\ StoredIsAccount /\ [Next]_vars => StoredIsAccount'
  <2> SUFFICES ASSUME IInv, StoredIsAccount, [Next]_vars PROVE StoredIsAccount'
    OBVIOUS
  <2> USE DEF IInv, TypeOK, StoredIsAccount, OnlyPc, Rows, Registrations
  <2>1. ASSUME NEW j \in Jobs, ObtainCertificate(j) PROVE StoredIsAccount'
    BY <2>1 DEF ObtainCertificate
  <2>2. ASSUME NEW j \in Jobs, JobStep(j) PROVE StoredIsAccount'
    <3>1. CASE Invalidate(j)
      BY <3>1 DEF Invalidate, Cleared, Goto
    <3>2. CASE CreateAcmeAccount(j)
      BY <3>2 DEF CreateAcmeAccount
    <3>3. CASE SaveAcmeRegistration(j)
      BY <3>3 DEF SaveAcmeRegistration, RegistrationHeld, Goto
    <3>4. CASE Register(j) \/ RegisterFails(j)
      BY <3>4 DEF Register, RegisterFails
    <3>5. CASE \/ LoadAcmeAccount(j) \/ AccountNotFound(j) \/ CreateConflicts(j) \/ NewLegoClient(j)
               \/ FoundRegistration(j) \/ FoundNone(j) \/ RetryFindsNone(j) \/ SaveFails(j)
               \/ Ordered(j) \/ Fails(j)
      BY <3>5 DEF LoadAcmeAccount, AccountNotFound, CreateConflicts, NewLegoClient,
           FoundRegistration, FoundNone, RetryFindsNone, SaveFails, Ordered, Fails
    <3> QED BY <2>2, <3>1, <3>2, <3>3, <3>4, <3>5 DEF JobStep
  <2>3. CASE Restart
    BY <2>3 DEF Restart
  <2>4. CASE UNCHANGED vars
    BY <2>4 DEF vars
  <2> QED BY <2>1, <2>2, <2>3, <2>4 DEF Next
<1> QED BY <1>1, <1>2, AccountInvariant, PTL DEF Spec, BookInv

LEMMA JobBookStep ==
    ASSUME BookInv, NEW j \in Jobs, JobStep(j)
    PROVE  Book!Next \/ UNCHANGED Book!bookVars
<1> USE AccountAssumption DEF BookInv, IInv, TypeOK, StoredKey, StoredRegistration, Rows,
        Registrations, Book!bookVars
<1>1. CASE Invalidate(j)
  <2>1. row \in Rows /\ row # Null
    BY <1>1 DEF Invalidate, HoldsStoredKey, Holding, Goto
  <2>2. row' # Null /\ row'.key = row.key /\ row'.reg = Null /\ accounts' = accounts
    BY <1>1, <2>1 DEF Invalidate, Cleared
  <2>3. Book!Forget
    BY <2>1, <2>2 DEF Book!Forget
  <2> QED BY <2>3 DEF Book!Next
<1>2. CASE CreateAcmeAccount(j)
  <2>1. PICK k \in Keys : row' = [key |-> k, reg |-> Null, ca |-> Null]
    BY <1>2 DEF CreateAcmeAccount
  <2>2. row = Null /\ row' # Null /\ accounts' = accounts
    BY <1>2, <2>1 DEF CreateAcmeAccount
  <2>3. Book!Choose
    BY <2>1, <2>2 DEF Book!Choose
  <2> QED BY <2>3 DEF Book!Next
<1>3. CASE SaveAcmeRegistration(j)
  <2>1. row \in Rows /\ row # Null /\ user[j].reg \in accounts
    BY <1>3 DEF SaveAcmeRegistration, HoldsStoredKey, RegistrationHeld, Holding, Goto
  <2>2. row' = [row EXCEPT !.reg = user[j].reg, !.ca = caURL] /\ accounts' = accounts
    BY <1>3 DEF SaveAcmeRegistration
  <2>3. row' # Null /\ row'.key = row.key /\ row'.reg = user[j].reg
    BY <2>1, <2>2
  <2>4. Book!Store
    BY <2>1, <2>2, <2>3 DEF Book!Store
  <2> QED BY <2>4 DEF Book!Next
<1>4. CASE Register(j) \/ RegisterFails(j)
  <2>1. row # Null /\ user[j].key = row.key /\ row' = row
    BY <1>4 DEF Register, RegisterFails, HoldsStoredKey, Holding, Goto
  <2>2. StoredKey # Null /\ Account(j) \in Book!AccountsOf(StoredKey)
    BY <2>1 DEF Account, Book!AccountsOf
  <2>3. accounts' = accounts \/ accounts' = accounts \union {Account(j)}
    BY <1>4 DEF Register, RegisterFails
  <2>4. CASE accounts' = accounts
    BY <2>1, <2>4
  <2>5. CASE accounts' = accounts \union {Account(j)}
    <3>1. Book!Register
      BY <2>1, <2>2, <2>5 DEF Book!Register
    <3> QED BY <3>1 DEF Book!Next
  <2> QED BY <2>3, <2>4, <2>5
<1>5. CASE \/ LoadAcmeAccount(j) \/ AccountNotFound(j) \/ CreateConflicts(j) \/ NewLegoClient(j)
           \/ FoundRegistration(j) \/ FoundNone(j) \/ RetryFindsNone(j) \/ SaveFails(j)
           \/ Ordered(j) \/ Fails(j)
  BY <1>5 DEF LoadAcmeAccount, AccountNotFound, CreateConflicts, NewLegoClient,
       FoundRegistration, FoundNone, RetryFindsNone, SaveFails, Ordered, Fails, OnlyPc
<1> QED BY JobStep(j), <1>1, <1>2, <1>3, <1>4, <1>5 DEF JobStep

\* The jobs of a user, for any number of them, of CAs and of restarts, keep the
\* account book: one key, accounts of that key, and a stored one among them.
THEOREM AccountsImplementBook == Spec => AccountSpec
<1>1. BookInv /\ Init => Book!Init
  BY AccountAssumption
  DEF BookInv, IInv, TypeOK, StoredIsAccount, OneAccount, Book!Init, Book!AccountsOf, StoredKey,
      StoredRegistration, Rows, Registrations
<1>2. BookInv /\ [Next]_vars => [Book!Next]_(Book!bookVars)
  <2> SUFFICES ASSUME BookInv, [Next]_vars PROVE Book!Next \/ UNCHANGED Book!bookVars
    OBVIOUS
  <2>1. CASE \E j \in Jobs : ObtainCertificate(j)
    BY <2>1 DEF ObtainCertificate, OnlyPc, StoredKey, StoredRegistration, Book!bookVars
  <2>2. CASE \E j \in Jobs : JobStep(j)
    BY <2>2, JobBookStep
  <2>3. CASE Restart \/ UNCHANGED vars
    BY <2>3 DEF Restart, vars, StoredKey, StoredRegistration, Book!bookVars
  <2> QED BY <2>1, <2>2, <2>3 DEF Next
<1> QED BY <1>1, <1>2, BookInvariant, PTL DEF Spec, AccountSpec, Book!Spec
=============================================================================
