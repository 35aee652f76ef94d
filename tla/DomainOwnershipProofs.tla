------------------------ MODULE DomainOwnershipProofs ------------------------
(***************************************************************************)
(* Who owns a domain name, for any number of users, requests and rows.     *)
(***************************************************************************)
EXTENDS DomainOwnership, TLAPS

\* The places at which a request has the id of a row.
AtRow ==
    {"unclaimed", "claimTarget", "claimVerify", "claimCert", "claimCas", "restore", "purgeCert",
     "purgeRow", "setTarget", "deleteCert", "deleteRow", "update", "recheck", "mark", "lockRead",
     "lockCas"}

\* Types by table; ids are given out once, so that what is beyond the last one is
\* untouched.
RowsOK ==
    /\ row \in [Ids -> Rows] /\ created \in 0..MaxRows
    /\ \A i \in Ids : created < i => row[i] = NoRow
CertsOK == cert \in [Ids -> Users \union {Null}] /\ \A i \in Ids : created < i => cert[i] = Null
JobsOK == job \in [Ids -> Users \union {Null}] /\ \A i \in Ids : created < i => job[i] = Null
ResetOK == reset \in [Ids -> Statuses \union {Null}]
ReqsOK ==
    /\ req \in [Reqs -> Requests]
    /\ \A r \in Reqs : req[r].pc \in AtRow => req[r].at \in 1..created

TypeInv == RowsOK /\ CertsOK /\ JobsOK /\ ResetOK /\ ReqsOK

USE OwnershipAssumption DEF Ids

-----------------------------------------------------------------------------
(* What the steps of a request have in common *)

\* Request r has moved to place `to`, with row i.
GoesOn(r, to, i) ==
    /\ req' \in [Reqs -> Requests]
    /\ \A q \in Reqs : q # r => req'[q] = req[q]
    /\ req'[r].pc = to
    /\ to # "idle" => req'[r].at = i /\ req'[r].by = req[r].by

LEMMA MovedRequest ==
    ASSUME NEW q \in Requests, NEW to \in PCs
    PROVE  /\ Moved(q, to) \in Requests /\ Moved(q, to).pc = to
           /\ to # "idle" => Moved(q, to).at = q.at /\ Moved(q, to).by = q.by
           /\ to \in UseSeen => Moved(q, to).seen = q.seen
<1>1. NoRow \in Rows
  BY DEF NoRow, Rows, Statuses
<1>2. Idle \in Requests /\ Idle.pc = "idle"
  BY <1>1 DEF Idle, Requests, PCs
<1>3. CASE to = "idle"
  BY <1>2, <1>3 DEF Moved, UseSeen
<1>4. CASE to # "idle"
  <2> DEFINE s == IF to \in UseSeen THEN q.seen ELSE NoRow
  <2>1. s \in Rows
    BY <1>1 DEF Requests
  <2>2. Moved(q, to) = [q EXCEPT !.pc = to, !.seen = s]
    BY <1>4 DEF Moved
  <2> QED BY <1>4, <2>1, <2>2 DEF Requests
<1> QED BY <1>3, <1>4

LEMMA GotoMoves ==
    ASSUME ReqsOK, NEW r \in Reqs, NEW from \in PCs, NEW to \in PCs, Goto(r, from, to)
    PROVE  /\ req[r].pc = from /\ GoesOn(r, to, req[r].at)
           /\ to \in UseSeen => req'[r].seen = req[r].seen
BY MovedRequest DEF Goto, ReqsOK, GoesOn

LEMMA ReadMoves ==
    ASSUME RowsOK, ReqsOK, NEW r \in Reqs, NEW from \in PCs, NEW to \in PCs, NEW i \in Ids,
           ReadGoto(r, from, to, i)
    PROVE  /\ req[r].pc = from /\ GoesOn(r, to, i)
           /\ to \in UseSeen => req'[r].seen = row[i]
<1> DEFINE read == [req[r] EXCEPT !.at = i, !.seen = row[i]]
<1>1. read \in Requests /\ read.at = i /\ read.by = req[r].by /\ read.seen = row[i]
  BY DEF RowsOK, ReqsOK, Requests
<1>2. req' = [req EXCEPT ![r] = Moved(read, to)] /\ req[r].pc = from
  BY DEF ReadGoto
<1> HIDE DEF read
<1> QED BY <1>1, <1>2, MovedRequest DEF ReqsOK, GoesOn

LEMMA MovedKeeps ==
    ASSUME ReqsOK, NEW r \in Reqs, NEW to \in PCs, NEW i, GoesOn(r, to, i),
           to \in AtRow => i \in 1..created, created' = created
    PROVE  ReqsOK'
BY DEF GoesOn, ReqsOK, AtRow

LEMMA GotoKeeps ==
    ASSUME ReqsOK, NEW r \in Reqs, NEW from \in PCs, NEW to \in PCs, Goto(r, from, to),
           to \in AtRow => from \in AtRow, created' = created
    PROVE  ReqsOK'
BY GotoMoves, MovedKeeps DEF ReqsOK

LEMMA ReadKeeps ==
    ASSUME RowsOK, ReqsOK, NEW r \in Reqs, NEW from \in PCs, NEW to \in PCs, NEW i \in Ids,
           ReadGoto(r, from, to, i), row[i].state # "absent", created' = created
    PROVE  ReqsOK'
<1>1. i \in 1..created
  BY DEF RowsOK, NoRow
<1> QED BY <1>1, ReadMoves, MovedKeeps

LEMMA UpdateKeeps ==
    ASSUME RowsOK, NEW i \in Ids, NEW new \in Rows, Update(i, new), created' = created
    PROVE  /\ RowsOK'
           /\ \A k \in Ids : k # i \/ ~Live(i) => row'[k] = row[k]
           /\ Live(i) => row'[i] = [new EXCEPT !.aged = FALSE]
<1>1. [new EXCEPT !.aged = FALSE] \in Rows
  BY DEF Rows
<1>2. row' \in [Ids -> Rows]
  BY <1>1 DEF Update, RowsOK
<1>3. Live(i) => i <= created
  BY DEF RowsOK, Live, NoRow
<1> QED BY <1>2, <1>3 DEF Update, RowsOK

LEMMA AtIds == ASSUME RowsOK, ReqsOK, NEW r \in Reqs, req[r].pc \in AtRow PROVE req[r].at \in Ids
BY DEF RowsOK, ReqsOK

-----------------------------------------------------------------------------
LEMMA RequestSteps ==
    ASSUME TypeInv, NEW r \in Reqs,
           \/ AddDomain(r) \/ NotFound(r) \/ DeleteDomain(r)
           \/ UpdateDomain(r) \/ IssueCertificate(r)
    PROVE  ReqsOK'
<1> USE DEF TypeInv, AtRow, PCs, NoTable, OnlyRow, OnlyCert
<1>0. ASSUME created' = created,
             \E from, to \in PCs : Goto(r, from, to) /\ (to \in AtRow => from \in AtRow)
      PROVE  ReqsOK'
  <2> HIDE DEF PCs, AtRow
  <2> QED BY <1>0, GotoKeeps
<1>1. CASE \/ FindMissing(r) \/ IsUnclaimed(r) \/ ClaimVerify(r) \/ ClaimCert(r)
  BY <1>0, <1>1 DEF FindMissing, IsUnclaimed, ClaimVerify, ClaimCert
<1>2. CASE \/ ClaimTarget(r) \/ ClaimCas(r) \/ Restore(r) \/ PurgeCert(r) \/ PurgeRow(r)
  BY <1>0, <1>2 DEF ClaimTarget, ClaimCas, Restore, PurgeCert, PurgeRow
<1>3. CASE InsertConflict(r) \/ SetTarget(r) \/ SetTargetFails(r)
  BY <1>0, <1>3 DEF InsertConflict, SetTarget, SetTargetFails
<1>4. CASE NotFound(r) \/ DeleteCert(r) \/ DeleteRow(r) \/ UpdateRow(r)
  BY <1>0, <1>4 DEF NotFound, DeleteCert, DeleteRow, UpdateRow
<1>5. CASE Recheck(r) \/ Mark(r) \/ LockCas(r)
  BY <1>0, <1>5 DEF Recheck, Mark, LockCas
<1>6. CASE FindExisting(r)
  <2>1. PICK i \in Ids, to \in PCs :
            row[i].state # "absent" /\ ReadGoto(r, "find", to, i) /\ created' = created
    BY <1>6 DEF FindExisting, Named
  <2>2. "find" \in PCs
    OBVIOUS
  <2> HIDE DEF PCs, AtRow
  <2> QED BY <2>1, <2>2, ReadKeeps
<1>7. CASE DeleteLoad(r) \/ UpdateLoad(r)
  BY <1>7, ReadKeeps DEF DeleteLoad, UpdateLoad, Owned, Live
<1>8. CASE IssueLoad(r)
  BY <1>8, ReadKeeps DEF IssueLoad, Owned, Live
<1>9. CASE LockRead(r)
  <2>1. req[r].pc = "lockRead"
    BY <1>9 DEF LockRead, ReadGoto
  <2>2. req[r].at \in Ids /\ req[r].at \in 1..created
    BY <2>1, AtIds DEF ReqsOK
  <2>3. created' = created
    BY <1>9 DEF LockRead
  <2>4. PICK to \in PCs : ReadGoto(r, "lockRead", to, req[r].at)
    BY <1>9 DEF LockRead
  <2>5. "lockRead" \in PCs
    OBVIOUS
  <2> HIDE DEF PCs, AtRow
  <2> QED BY <2>2, <2>3, <2>4, <2>5, ReadMoves, MovedKeeps
<1>10. CASE Insert(r)
  <2>1. created' = created + 1 /\ created \in 0..MaxRows /\ created + 1 \in Ids
    BY <1>10 DEF Insert, RowsOK
  <2>2. req' = [req EXCEPT ![r] = [@ EXCEPT !.pc = "setTarget", !.at = created + 1]]
    <3>1. req \in [Reqs -> Requests]
      BY DEF ReqsOK
    <3> HIDE DEF PCs, AtRow, TypeInv
    <3> QED BY <1>10, <3>1 DEF Insert, Requests
  <2>3. [req[r] EXCEPT !.pc = "setTarget", !.at = created + 1] \in Requests
    <3>1. req[r] \in Requests
      BY DEF ReqsOK
    <3> HIDE DEF AtRow, TypeInv
    <3> QED BY <2>1, <3>1, "setTarget" \in PCs DEF Requests
  <2>4. req' \in [Reqs -> Requests]
    BY <2>2, <2>3 DEF ReqsOK
  <2>5. \A q \in Reqs : req'[q].pc \in AtRow => req'[q].at \in 1..created'
    BY <2>1, <2>2 DEF ReqsOK, Requests
  <2> QED BY <2>4, <2>5 DEF ReqsOK
<1> QED BY <1>1, <1>2, <1>3, <1>4, <1>5, <1>6, <1>7, <1>8, <1>9, <1>10
        DEF AddDomain, DeleteDomain, UpdateDomain, IssueCertificate

\* What a request does to the tables.
LEMMA RequestTables ==
    ASSUME TypeInv, NEW r \in Reqs,
           \/ AddDomain(r) \/ NotFound(r) \/ DeleteDomain(r)
           \/ UpdateDomain(r) \/ IssueCertificate(r)
    PROVE  RowsOK' /\ CertsOK' /\ JobsOK' /\ ResetOK'
<1> USE DEF TypeInv
<1>1. CASE UNCHANGED <<row, created, cert, job, reset>>
  BY <1>1 DEF RowsOK, CertsOK, JobsOK, ResetOK
<1>2. CASE FindMissing(r) \/ FindExisting(r) \/ IsUnclaimed(r) \/ ClaimVerify(r) \/ ClaimCert(r)
  BY <1>1, <1>2 DEF FindMissing, FindExisting, IsUnclaimed, ClaimVerify, ClaimCert, NoTable
<1>3. CASE \/ InsertConflict(r) \/ NotFound(r) \/ DeleteLoad(r) \/ UpdateLoad(r)
           \/ IssueLoad(r) \/ Recheck(r) \/ LockRead(r)
  BY <1>1, <1>3 DEF InsertConflict, NotFound, DeleteLoad, UpdateLoad, IssueLoad, Recheck, LockRead,
                    NoTable
<1>4. CASE UNCHANGED <<created, cert, job, reset>> /\ RowsOK'
  BY <1>4 DEF CertsOK, JobsOK, ResetOK
<1> DEFINE i == req[r].at
<1>5. req[r].pc \in AtRow => i \in Ids /\ i <= created /\ row[i] \in Rows
  BY AtIds DEF RowsOK, ReqsOK
<1> HIDE DEF i
<1>6. CASE ClaimTarget(r)
  <2>1. i \in Ids /\ [row[i] EXCEPT !.target = TRUE] \in Rows
    BY <1>5, <1>6 DEF ClaimTarget, Goto, AtRow, Rows
  <2>2. RowsOK'
    BY <1>6, <2>1, UpdateKeeps DEF ClaimTarget, OnlyRow, RowsOK, i
  <2> QED BY <1>4, <1>6, <2>2 DEF ClaimTarget, OnlyRow
<1>7. CASE ClaimCas(r)
  <2>1. i \in Ids /\ [row[i] EXCEPT !.owner = req[r].by, !.status = "verified", !.proven = TRUE] \in Rows
    BY <1>5, <1>7 DEF ClaimCas, Goto, AtRow, Rows, Statuses, ReqsOK, Requests
  <2>2. RowsOK'
    BY <1>7, <2>1, UpdateKeeps DEF ClaimCas, OnlyRow, RowsOK, i
  <2> QED BY <1>4, <1>7, <2>2 DEF ClaimCas, OnlyRow
<1>8. CASE Restore(r)
  <2>1. i \in Ids /\ i <= created /\ Restored(row[i]) \in Rows
    BY <1>5, <1>8 DEF Restore, Restored, Goto, AtRow, Rows, Statuses
  <2>2. RowsOK'
    BY <1>8, <2>1 DEF Restore, OnlyRow, RowsOK, i
  <2> QED BY <1>4, <1>8, <2>2 DEF Restore, OnlyRow
<1>9. CASE PurgeCert(r) \/ DeleteCert(r)
  <2>1. CertsOK'
    BY <1>9 DEF PurgeCert, DeleteCert, OnlyCert, CertsOK
  <2> QED BY <1>9, <2>1 DEF PurgeCert, DeleteCert, OnlyCert, RowsOK, JobsOK, ResetOK
<1>10. CASE PurgeRow(r)
  <2>1. RowsOK'
    BY <1>10 DEF PurgeRow, OnlyRow, RowsOK, Rows, NoRow, Statuses
  <2> QED BY <1>4, <1>10, <2>1 DEF PurgeRow, OnlyRow
<1>11. CASE Insert(r)
  <2>1. created' = created + 1 /\ created + 1 \in Ids
    BY <1>11 DEF Insert, RowsOK
  <2>2. row' = [row EXCEPT ![created + 1] = [NoRow EXCEPT !.state = "live", !.owner = req[r].by]]
    BY <1>11 DEF Insert
  <2>3. [NoRow EXCEPT !.state = "live", !.owner = req[r].by] \in Rows
    BY DEF Rows, NoRow, Statuses, ReqsOK, Requests
  <2>4. RowsOK'
    BY <2>1, <2>2, <2>3 DEF RowsOK
  <2> QED BY <1>11, <2>1, <2>4 DEF Insert, CertsOK, JobsOK, ResetOK, RowsOK
<1>12. CASE SetTarget(r)
  <2>1. i \in Ids /\ [row[i] EXCEPT !.target = TRUE] \in Rows
    BY <1>5, <1>12 DEF SetTarget, Goto, AtRow, Rows
  <2>2. RowsOK'
    BY <1>12, <2>1, UpdateKeeps DEF SetTarget, OnlyRow, i
  <2> QED BY <1>4, <1>12, <2>2 DEF SetTarget, OnlyRow
<1>13. CASE SetTargetFails(r) \/ DeleteRow(r)
  <2>1. i \in Ids /\ i <= created /\ [row[i] EXCEPT !.state = "deleted"] \in Rows
    BY <1>5, <1>13 DEF SetTargetFails, DeleteRow, Goto, AtRow, Rows
  <2>2. RowsOK'
    BY <1>13, <2>1 DEF SetTargetFails, DeleteRow, OnlyRow, RowsOK, i
  <2> QED BY <1>4, <1>13, <2>2 DEF SetTargetFails, DeleteRow, OnlyRow
<1>14. CASE UpdateRow(r)
  <2>1. i \in Ids /\ row[i] \in Rows
    BY <1>5, <1>14 DEF UpdateRow, Goto, AtRow
  <2>2. RowsOK'
    BY <1>14, <2>1, UpdateKeeps DEF UpdateRow, OnlyRow, i
  <2> QED BY <1>4, <1>14, <2>2 DEF UpdateRow, OnlyRow
<1>15. CASE Mark(r)
  <2>1. i \in Ids /\ [row[i] EXCEPT !.status = "verified", !.proven = TRUE] \in Rows
    BY <1>5, <1>15 DEF Mark, Goto, AtRow, Rows, Statuses
  <2>2. RowsOK'
    BY <1>15, <2>1, UpdateKeeps DEF Mark, OnlyRow, i
  <2> QED BY <1>4, <1>15, <2>2 DEF Mark, OnlyRow
<1>16. CASE LockCas(r)
  <2>1. i \in Ids /\ i <= created /\ [row[i] EXCEPT !.status = "generating"] \in Rows
    BY <1>5, <1>16 DEF LockCas, Goto, AtRow, Rows, Statuses
  <2>2. RowsOK'
    BY <1>16, <2>1, UpdateKeeps DEF LockCas, RowsOK, i
  <2>3. req[r].seen.owner \in Users \union {Null}
    BY DEF ReqsOK, Requests, Rows
  <2>4. JobsOK'
    BY <1>16, <2>1, <2>3 DEF LockCas, JobsOK, RowsOK, i
  <2> QED BY <1>16, <2>2, <2>4 DEF LockCas, CertsOK, ResetOK
<1> QED BY <1>2, <1>3, <1>6, <1>7, <1>8, <1>9, <1>10, <1>11, <1>12, <1>13, <1>14, <1>15, <1>16
        DEF AddDomain, DeleteDomain, UpdateDomain, IssueCertificate

\* ... and a certificate operation.
LEMMA OperationTables ==
    ASSUME TypeInv, NEW i \in Ids,
           \/ VerifyCname(i) \/ JobSave(i) \/ JobFails(i)
           \/ RollbackReads(i) \/ ResetWrites(i) \/ Ages(i)
    PROVE  TypeInv'
<1> USE DEF TypeInv
<1>1. ReqsOK' /\ created' = created
  <2>1. KeepReqs
    BY DEF VerifyCname, JobSave, JobFails, RollbackReads, ResetWrites, Ages
  <2> QED BY <2>1 DEF KeepReqs, ReqsOK
<1>2. row[i] \in Rows
  BY DEF RowsOK
<1>3. RowsOK'
  <2>1. CASE VerifyCname(i)
    BY <1>1, <1>2, <2>1, UpdateKeeps, [row[i] EXCEPT !.status = "verified", !.proven = TRUE] \in Rows
       DEF VerifyCname, Rows, Statuses
  <2>2. CASE JobSave(i)
    BY <1>1, <1>2, <2>2, UpdateKeeps, [row[i] EXCEPT !.status = "active"] \in Rows
       DEF JobSave, Rows, Statuses
  <2>3. CASE JobFails(i) \/ RollbackReads(i)
    BY <1>1, <2>3 DEF JobFails, RollbackReads, RowsOK
  <2>4. CASE ResetWrites(i)
    <3>1. reset[i] \in Statuses
      BY <2>4 DEF ResetWrites, ResetOK
    <3>2. [row[i] EXCEPT !.status = reset[i]] \in Rows
      BY <1>2, <3>1 DEF Rows
    <3> QED BY <1>1, <2>4, <3>2, UpdateKeeps DEF ResetWrites
  <2>5. CASE Ages(i)
    <3>1. i <= created
      BY <2>5 DEF Ages, Live, RowsOK, NoRow
    <3>2. [row[i] EXCEPT !.aged = TRUE] \in Rows
      BY <1>2 DEF Rows
    <3>3. row' = [row EXCEPT ![i] = [@ EXCEPT !.aged = TRUE]]
      BY <2>5 DEF Ages
    <3> QED BY <1>1, <3>1, <3>2, <3>3 DEF RowsOK
  <2> QED BY <2>1, <2>2, <2>3, <2>4, <2>5
<1>4. CertsOK' /\ JobsOK'
  <2>1. CASE VerifyCname(i) \/ JobFails(i) \/ Ages(i)
    BY <1>1, <2>1 DEF VerifyCname, JobFails, Ages, CertsOK, JobsOK
  <2>2. CASE JobSave(i)
    BY <1>1, <2>2 DEF JobSave, CertsOK, JobsOK, RowsOK
  <2>3. CASE RollbackReads(i) \/ ResetWrites(i)
    BY <1>1, <2>3 DEF RollbackReads, ResetWrites, CertsOK, JobsOK
  <2> QED BY <2>1, <2>2, <2>3
<1>5. ResetOK'
  BY DEF VerifyCname, JobSave, JobFails, RollbackReads, ResetWrites, Ages, RolledBack, ResetOK, Statuses
<1> QED BY <1>1, <1>3, <1>4, <1>5

LEMMA TypeInvariant == Spec => []TypeInv
<1>1. Init => TypeInv
  BY DEF Init, TypeInv, RowsOK, CertsOK, JobsOK, ResetOK, ReqsOK, Rows, NoRow, Idle, Requests,
         Statuses, PCs, AtRow
<1>2. TypeInv /\ [Next]_vars => TypeInv'
  <2> SUFFICES ASSUME TypeInv, [Next]_vars PROVE TypeInv'
    OBVIOUS
  <2>1. ASSUME NEW r \in Reqs, NEW u \in Users, NEW k \in {"add", "delete", "update", "issue"},
               Arrive(r, u, k)
        PROVE  TypeInv'
    <3>1. PICK at \in {"find", "loadDelete", "loadUpdate", "loadIssue"} :
              req' = [req EXCEPT ![r] = [Idle EXCEPT !.by = u, !.pc = at]]
      BY <2>1 DEF Arrive
    <3>2. [Idle EXCEPT !.by = u, !.pc = at] \in Requests
      BY DEF Idle, NoRow, Requests, Rows, Statuses, PCs
    <3>3. [Idle EXCEPT !.by = u, !.pc = at].pc \notin AtRow
      BY DEF Idle, AtRow
    <3>4. UNCHANGED <<row, created, cert, job, reset>>
      BY <2>1 DEF Arrive, NoTable
    <3>5. ReqsOK'
      <4> DEFINE new == [Idle EXCEPT !.by = u, !.pc = at]
      <4> HIDE DEF new
      <4> QED BY <3>1, <3>2, <3>3, <3>4 DEF TypeInv, ReqsOK, new
    <3> QED BY <3>4, <3>5 DEF TypeInv, RowsOK, CertsOK, JobsOK, ResetOK
  <2>2. ASSUME NEW r \in Reqs,
               \/ AddDomain(r) \/ NotFound(r) \/ DeleteDomain(r)
               \/ UpdateDomain(r) \/ IssueCertificate(r)
        PROVE  TypeInv'
    BY <2>2, RequestSteps, RequestTables DEF TypeInv
  <2>3. ASSUME NEW i \in Ids,
               \/ VerifyCname(i) \/ JobSave(i) \/ JobFails(i)
               \/ RollbackReads(i) \/ ResetWrites(i) \/ Ages(i)
        PROVE  TypeInv'
    BY <2>3, OperationTables
  <2>4. CASE Crash
    BY <2>4 DEF Crash, Idle, TypeInv, RowsOK, CertsOK, JobsOK, ResetOK, ReqsOK, Requests,
                NoRow, Rows, Statuses, PCs, AtRow
  <2>5. CASE UNCHANGED vars
    BY <2>5 DEF vars, TypeInv, RowsOK, CertsOK, JobsOK, ResetOK, ReqsOK
  <2> QED BY <2>1, <2>2, <2>3, <2>4, <2>5 DEF Next
<1> QED BY <1>1, <1>2, PTL DEF Spec

\* The tables and requests keep their types for every number of users, requests
\* and rows, and every choice of what occurs: requests that overtake each other
\* never meet an id the database has not given out.
THEOREM OwnershipTypeCorrect == Spec => []TypeOK
<1>1. TypeInv => TypeOK
  BY DEF TypeInv, TypeOK, RowsOK, CertsOK, JobsOK, ResetOK, ReqsOK
<1> QED BY <1>1, TypeInvariant, PTL

-----------------------------------------------------------------------------
(* Without claims, a row keeps its owner *)

NoClaims == \A r \in Reqs : req[r].pc \notin {"claimCert", "claimCas"}

\* Whoever a certificate is for, stored or on its way, owns the row: by id, while
\* there is a row of that id, deleted or not.
OwnersKept ==
    /\ \A i \in Ids : row[i].state # "absent"
           => cert[i] \in {Null, row[i].owner} /\ job[i] \in {Null, row[i].owner}
    /\ \A r \in Reqs : req[r].pc = "lockCas" /\ row[req[r].at].state # "absent"
           => req[r].seen.owner = row[req[r].at].owner

\* No owner changes.
SameOwners ==
    \A i \in Ids : row'[i].state # "absent"
        => row[i].state # "absent" /\ row'[i].owner = row[i].owner

LEMMA UpdateOwners ==
    ASSUME RowsOK, NEW i \in Ids, NEW new \in Rows, Update(i, new), created' = created,
           new.owner = row[i].owner
    PROVE  SameOwners
<1>1. \A k \in Ids : k # i \/ ~Live(i) => row'[k] = row[k]
  BY UpdateKeeps
<1>2. Live(i) => row'[i].owner = new.owner /\ row[i].state # "absent"
  <2>1. Live(i) => row'[i] = [new EXCEPT !.aged = FALSE]
    BY UpdateKeeps
  <2>2. [new EXCEPT !.aged = FALSE].owner = new.owner
    BY DEF Rows
  <2> QED BY <2>1, <2>2 DEF Live
<1> QED BY <1>1, <1>2 DEF SameOwners

LEMMA RowsKeepOwners ==
    ASSUME TypeInv, NoClaims, NEW r \in Reqs, ~Insert(r),
           \/ AddDomain(r) \/ NotFound(r) \/ DeleteDomain(r)
           \/ UpdateDomain(r) \/ IssueCertificate(r)
    PROVE  SameOwners
<1> USE DEF TypeInv
<1> DEFINE i == req[r].at
<1>1. CASE UNCHANGED row
  BY <1>1 DEF SameOwners
<1>2. CASE \/ FindMissing(r) \/ FindExisting(r) \/ IsUnclaimed(r) \/ ClaimVerify(r) \/ ClaimCert(r)
           \/ InsertConflict(r) \/ NotFound(r) \/ DeleteLoad(r) \/ UpdateLoad(r) \/ DeleteCert(r)
           \/ IssueLoad(r) \/ Recheck(r) \/ LockRead(r) \/ PurgeCert(r)
  BY <1>1, <1>2 DEF FindMissing, FindExisting, IsUnclaimed, ClaimVerify, ClaimCert, InsertConflict,
     NotFound, DeleteLoad, UpdateLoad, DeleteCert, IssueLoad, Recheck, LockRead, PurgeCert,
     NoTable, OnlyCert
<1>3. CASE \/ ClaimTarget(r) \/ SetTarget(r) \/ UpdateRow(r) \/ Mark(r) \/ LockCas(r)
           \/ Restore(r) \/ PurgeRow(r) \/ SetTargetFails(r) \/ DeleteRow(r)
  <2>1. i \in Ids /\ row[i] \in Rows
    BY <1>3, AtIds DEF ClaimTarget, SetTarget, UpdateRow, Mark, LockCas, Restore, PurgeRow,
       SetTargetFails, DeleteRow, Goto, AtRow, RowsOK
  <2> HIDE DEF i
  <2>2. ASSUME NEW x \in Rows
        PROVE  LET target == [x EXCEPT !.target = TRUE]
                   marked == [x EXCEPT !.status = "verified", !.proven = TRUE]
                   locked == [x EXCEPT !.status = "generating"]
               IN  /\ target \in Rows /\ target.owner = x.owner
                   /\ marked \in Rows /\ marked.owner = x.owner
                   /\ locked \in Rows /\ locked.owner = x.owner
    BY DEF Rows, Statuses
  <2>3. CASE ClaimTarget(r) \/ SetTarget(r)
    BY <1>1, <2>1, <2>2, <2>3, UpdateOwners DEF ClaimTarget, SetTarget, OnlyRow, i
  <2>4. CASE UpdateRow(r) \/ Mark(r)
    BY <2>1, <2>2, <2>4, UpdateOwners DEF UpdateRow, Mark, OnlyRow, i
  <2>5. CASE LockCas(r)
    BY <1>1, <2>1, <2>2, <2>5, UpdateOwners DEF LockCas, i
  <2>6. CASE Restore(r)
    BY <2>1, <2>6 DEF Restore, Restored, SameOwners, RowsOK, Rows, i
  <2>7. CASE PurgeRow(r)
    BY <2>1, <2>7 DEF PurgeRow, NoRow, SameOwners, RowsOK, i
  <2>8. CASE SetTargetFails(r) \/ DeleteRow(r)
    BY <1>1, <2>1, <2>8 DEF SetTargetFails, DeleteRow, Live, SameOwners, RowsOK, Rows, i
  <2> QED BY <1>3, <2>3, <2>4, <2>5, <2>6, <2>7, <2>8
<1>4. CASE ClaimCas(r)
  BY <1>4 DEF ClaimCas, Goto, NoClaims
<1> QED BY <1>2, <1>3, <1>4 DEF AddDomain, DeleteDomain, UpdateDomain, IssueCertificate

\* Nobody begins a claim, and what a lock is compared with was just read.
LEMMA NoClaimBegins ==
    ASSUME TypeInv, NoClaims, "claim" \notin Events, NEW r \in Reqs,
           \/ AddDomain(r) \/ NotFound(r) \/ DeleteDomain(r)
           \/ UpdateDomain(r) \/ IssueCertificate(r)
    PROVE  /\ \A q \in Reqs : q # r => req'[q] = req[q]
           /\ req'[r].pc \notin {"claimCert", "claimCas"}
           /\ req'[r].pc = "lockCas" => LockRead(r)
<1> USE DEF TypeInv, PCs, GoesOn
<1>0. ASSUME \E from \in PCs, to \in PCs \ {"claimCert", "claimCas", "lockCas"} :
                 \/ Goto(r, from, to)
                 \/ \E i \in Ids : ReadGoto(r, from, to, i)
      PROVE  /\ \A q \in Reqs : q # r => req'[q] = req[q]
             /\ req'[r].pc \notin {"claimCert", "claimCas", "lockCas"}
  <2> HIDE DEF PCs
  <2> QED BY <1>0, GotoMoves, ReadMoves
<1>1. CASE \/ FindMissing(r) \/ IsUnclaimed(r) \/ ClaimVerify(r)
  BY <1>1, <1>0 DEF FindMissing, IsUnclaimed, ClaimVerify
<1>2. CASE ClaimCert(r) \/ ClaimCas(r)
  BY <1>2 DEF ClaimCert, ClaimCas, Goto, NoClaims
<1>3. CASE \/ ClaimTarget(r) \/ Restore(r) \/ PurgeCert(r) \/ PurgeRow(r)
           \/ InsertConflict(r) \/ SetTarget(r) \/ SetTargetFails(r)
  BY <1>3, <1>0 DEF ClaimTarget, Restore, PurgeCert, PurgeRow, InsertConflict, SetTarget,
     SetTargetFails
<1>4. CASE NotFound(r)
  BY <1>0, <1>4 DEF NotFound
<1>5. CASE FindExisting(r)
  BY <1>0, <1>5 DEF FindExisting, Named
<1>6. CASE DeleteLoad(r) \/ UpdateLoad(r)
  BY <1>0, <1>6 DEF DeleteLoad, UpdateLoad
<1>7. CASE IssueLoad(r)
  BY <1>0, <1>7 DEF IssueLoad
<1>8. CASE DeleteCert(r) \/ DeleteRow(r) \/ UpdateRow(r)
  BY <1>0, <1>8 DEF DeleteCert, DeleteRow, UpdateRow
<1>9. CASE Recheck(r)
  BY <1>0, <1>9 DEF Recheck
<1>10. CASE Mark(r) \/ LockCas(r)
  BY <1>0, <1>10 DEF Mark, LockCas
<1>11. CASE LockRead(r)
  <2>1. req[r].at \in Ids /\ "lockRead" \in PCs
    BY <1>11, AtIds DEF LockRead, ReadGoto, AtRow
  <2>2. PICK to \in {"lockCas", "idle"} : ReadGoto(r, "lockRead", to, req[r].at)
    BY <1>11 DEF LockRead
  <2>3. to \in PCs
    OBVIOUS
  <2> HIDE DEF PCs
  <2> QED BY <1>11, <2>1, <2>2, <2>3, ReadMoves
<1>12. CASE Insert(r)
  BY <1>12 DEF Insert, ReqsOK, Requests
<1> QED BY <1>1, <1>2, <1>3, <1>4, <1>5, <1>6, <1>7, <1>8, <1>9, <1>10, <1>11, <1>12
        DEF AddDomain, DeleteDomain, UpdateDomain, IssueCertificate

\* A request takes a certificate away at most, and a lock is for the owner.
LEMMA RequestCertsAndJobs ==
    ASSUME TypeInv, OwnersKept, NEW r \in Reqs,
           \/ AddDomain(r) \/ NotFound(r) \/ DeleteDomain(r)
           \/ UpdateDomain(r) \/ IssueCertificate(r)
    PROVE  /\ \A i \in Ids : cert'[i] \in {Null, cert[i]}
           /\ \A i \in Ids : row[i].state # "absent" => job'[i] \in {Null, job[i], row[i].owner}
<1>1. CASE UNCHANGED <<cert, job>>
  BY <1>1
<1>2. CASE \/ FindMissing(r) \/ FindExisting(r) \/ IsUnclaimed(r) \/ ClaimTarget(r) \/ ClaimVerify(r)
           \/ ClaimCert(r) \/ ClaimCas(r) \/ Restore(r) \/ PurgeRow(r) \/ Insert(r)
  BY <1>1, <1>2 DEF FindMissing, FindExisting, IsUnclaimed, ClaimTarget, ClaimVerify, ClaimCert,
     ClaimCas, Restore, PurgeRow, Insert, NoTable, OnlyRow
<1>3. CASE \/ InsertConflict(r) \/ SetTarget(r) \/ SetTargetFails(r) \/ NotFound(r) \/ DeleteLoad(r)
           \/ DeleteRow(r) \/ UpdateDomain(r) \/ IssueLoad(r) \/ Recheck(r) \/ Mark(r) \/ LockRead(r)
  BY <1>1, <1>3 DEF InsertConflict, SetTarget, SetTargetFails, NotFound, DeleteLoad, DeleteRow,
     UpdateDomain, UpdateLoad, UpdateRow, IssueLoad, Recheck, Mark, LockRead, NoTable, OnlyRow
<1>4. CASE PurgeCert(r) \/ DeleteCert(r)
  BY <1>4 DEF PurgeCert, DeleteCert, OnlyCert, TypeInv, CertsOK
<1>5. CASE LockCas(r)
  BY <1>5 DEF LockCas, Goto, Live, OwnersKept, TypeInv, JobsOK
<1> QED BY <1>2, <1>3, <1>4, <1>5 DEF AddDomain, DeleteDomain, IssueCertificate

\* The updates of certificate operations set the status or the proof.
LEMMA OperationsKeepOwners ==
    ASSUME TypeInv, NEW i \in Ids,
           \/ VerifyCname(i) \/ JobSave(i) \/ JobFails(i)
           \/ RollbackReads(i) \/ ResetWrites(i) \/ Ages(i)
    PROVE  SameOwners
<1>1. row[i] \in Rows /\ RowsOK /\ created' = created
  BY DEF TypeInv, RowsOK, VerifyCname, JobSave, JobFails, RollbackReads, ResetWrites, Ages, KeepReqs
<1>2. ASSUME NEW st \in Statuses
      PROVE  [row[i] EXCEPT !.status = st] \in Rows /\ [row[i] EXCEPT !.status = st].owner = row[i].owner
  BY <1>1 DEF Rows
<1>3. CASE VerifyCname(i)
  <2> DEFINE proved == [row[i] EXCEPT !.status = "verified", !.proven = TRUE]
  <2>1. proved \in Rows /\ proved.owner = row[i].owner
    BY <1>1 DEF Rows, Statuses
  <2>2. Update(i, proved)
    BY <1>3 DEF VerifyCname
  <2> HIDE DEF proved
  <2> QED BY <1>1, <2>1, <2>2, UpdateOwners
<1>4. CASE JobSave(i)
  <2> DEFINE issued == [row[i] EXCEPT !.status = "active"]
  <2>1. "active" \in Statuses
    BY DEF Statuses
  <2>2. issued \in Rows /\ issued.owner = row[i].owner
    BY <1>2, <2>1
  <2>3. Update(i, issued)
    BY <1>4 DEF JobSave
  <2> HIDE DEF issued
  <2> QED BY <1>1, <2>2, <2>3, UpdateOwners
<1>5. CASE JobFails(i) \/ RollbackReads(i)
  BY <1>5 DEF JobFails, RollbackReads, SameOwners
<1>6. CASE ResetWrites(i)
  <2>1. reset[i] \in Statuses
    BY <1>6 DEF ResetWrites, TypeInv, ResetOK
  <2> DEFINE released == [row[i] EXCEPT !.status = reset[i]]
  <2>2. released \in Rows /\ released.owner = row[i].owner
    BY <1>2, <2>1
  <2>3. Update(i, released)
    BY <1>6 DEF ResetWrites
  <2> HIDE DEF released
  <2> QED BY <1>1, <2>2, <2>3, UpdateOwners
<1>7. CASE Ages(i)
  BY <1>7 DEF Ages, SameOwners, TypeInv, RowsOK, Rows
<1> QED BY <1>3, <1>4, <1>5, <1>6, <1>7

OwnersInv == TypeInv /\ NoClaims /\ OwnersKept

LEMMA OwnersInvariant == ASSUME "claim" \notin Events PROVE Spec => []OwnersInv
<1>1. Init => NoClaims /\ OwnersKept
  BY DEF Init, Idle, NoRow, NoClaims, OwnersKept
<1>2. TypeInv /\ TypeInv' /\ NoClaims /\ OwnersKept /\ [Next]_vars => NoClaims' /\ OwnersKept'
  <2> SUFFICES ASSUME TypeInv, TypeInv', NoClaims, OwnersKept, [Next]_vars
               PROVE  NoClaims' /\ OwnersKept'
    OBVIOUS
  <2>1. ASSUME NEW r \in Reqs, NEW u \in Users, NEW k \in {"add", "delete", "update", "issue"},
               Arrive(r, u, k)
        PROVE  NoClaims' /\ OwnersKept'
    BY <2>1 DEF Arrive, Idle, NoTable, NoClaims, OwnersKept, TypeInv, ReqsOK
  <2>2. ASSUME NEW r \in Reqs,
               \/ AddDomain(r) \/ NotFound(r) \/ DeleteDomain(r)
               \/ UpdateDomain(r) \/ IssueCertificate(r)
        PROVE  NoClaims' /\ OwnersKept'
    <3>1. /\ NoClaims'
          /\ \A q \in Reqs : req'[q].pc = "lockCas" => req'[q] = req[q] \/ (q = r /\ LockRead(r))
      BY <2>2, NoClaimBegins DEF NoClaims
    <3>2. CASE Insert(r)
      <4>1. /\ created + 1 \in Ids /\ cert' = cert /\ job' = job
            /\ \A i \in Ids : row[i].state = "absent"
            /\ \A i \in Ids : i # created + 1 => row'[i] = row[i]
        BY <3>2 DEF Insert, Named, TypeInv, RowsOK
      <4>2. cert[created + 1] = Null /\ job[created + 1] = Null
        BY <4>1 DEF TypeInv, RowsOK, CertsOK, JobsOK
      <4>3. \A q \in Reqs : req'[q].pc = "lockCas" => req'[q] = req[q]
        BY <3>1, <3>2 DEF LockRead, ReadGoto, Insert
      <4>4. \A q \in Reqs : req[q].pc = "lockCas" => req[q].at \in Ids /\ req[q].at # created + 1
        BY DEF TypeInv, ReqsOK, AtRow, RowsOK
      <4> QED BY <3>1, <4>1, <4>2, <4>3, <4>4 DEF OwnersKept
    <3>3. CASE ~Insert(r)
      <4>1. SameOwners
        BY <2>2, <3>3, RowsKeepOwners
      <4>2. /\ \A i \in Ids : cert'[i] \in {Null, cert[i]}
            /\ \A i \in Ids : row[i].state # "absent" => job'[i] \in {Null, job[i], row[i].owner}
        BY <2>2, <3>3, RequestCertsAndJobs
      <4>4. \A q \in Reqs : req'[q].pc = "lockCas" /\ row'[req'[q].at].state # "absent"
               => req'[q].seen.owner = row'[req'[q].at].owner
        <5> TAKE q \in Reqs
        <5>1. CASE req'[q] = req[q]
          <6>1. req[q].pc = "lockCas" => req[q].at \in Ids
            BY AtIds DEF TypeInv, AtRow
          <6> QED BY <4>1, <5>1, <6>1 DEF OwnersKept, SameOwners
        <5>2. CASE q = r /\ LockRead(r)
          <6>1. req[r].at \in Ids /\ row' = row
            BY <5>2, AtIds DEF LockRead, ReadGoto, AtRow, TypeInv, NoTable
          <6>2. PICK to \in {"lockCas", "idle"} : ReadGoto(r, "lockRead", to, req[r].at)
            BY <5>2 DEF LockRead
          <6>3. to \in PCs /\ "lockRead" \in PCs /\ RowsOK /\ ReqsOK
            BY DEF PCs, TypeInv
          <6>4. GoesOn(r, to, req[r].at) /\ (to \in UseSeen => req'[r].seen = row[req[r].at])
            BY <6>1, <6>2, <6>3, ReadMoves
          <6>5. req'[r].pc = "lockCas" => req'[r].at = req[r].at /\ req'[r].seen = row[req[r].at]
            BY <6>4 DEF GoesOn, UseSeen
          <6> QED BY <5>2, <6>1, <6>5
        <5> QED BY <3>1, <5>1, <5>2
      <4> QED BY <3>1, <4>1, <4>2, <4>4 DEF OwnersKept, SameOwners
    <3> QED BY <3>2, <3>3
  <2>3. ASSUME NEW i \in Ids,
               \/ VerifyCname(i) \/ JobSave(i) \/ JobFails(i)
               \/ RollbackReads(i) \/ ResetWrites(i) \/ Ages(i)
        PROVE  NoClaims' /\ OwnersKept'
    <3>1. req' = req
      BY <2>3 DEF VerifyCname, JobSave, JobFails, RollbackReads, ResetWrites, Ages, KeepReqs
    <3>2. SameOwners
      BY <2>3, OperationsKeepOwners
    <3>3. /\ cert'[i] \in {cert[i], job[i]} /\ job'[i] \in {Null, job[i]}
          /\ \A k \in Ids : k # i => cert'[k] = cert[k] /\ job'[k] = job[k]
      BY <2>3 DEF VerifyCname, JobSave, JobFails, RollbackReads, ResetWrites, Ages, TypeInv,
         CertsOK, JobsOK
    <3>4. \A q \in Reqs : req[q].pc = "lockCas" => req[q].at \in Ids
      BY AtIds DEF TypeInv, AtRow
    <3> QED BY <3>1, <3>2, <3>3, <3>4 DEF NoClaims, OwnersKept, SameOwners
  <2>4. CASE Crash
    BY <2>4 DEF Crash, Idle, NoClaims, OwnersKept, TypeInv, ReqsOK, JobsOK
  <2>5. CASE UNCHANGED vars
    BY <2>5 DEF vars, NoClaims, OwnersKept
  <2> QED BY <2>1, <2>2, <2>3, <2>4, <2>5 DEF Next
<1> QED BY <1>1, <1>2, TypeInvariant, PTL DEF Spec, OwnersInv

\* Where names are not claimed: the certificate of a live domain is its owner's, for
\* every number of users, requests and rows, although jobs outlive the deletion, the
\* restoration and the removal of the row they were locked for.
THEOREM CertificatesStayWithOwners == ASSUME "claim" \notin Events PROVE Spec => []CertOfOwner
<1>1. OwnersInv => CertOfOwner
  BY DEF OwnersInv, OwnersKept, CertOfOwner, Live
<1> QED BY <1>1, OwnersInvariant, PTL

-----------------------------------------------------------------------------
(* Without claims, a proof has its target whatever is deleted or fails *)

\* A request that may prove a name goes by a row that has its target, or is no more.
ProofsBacked ==
    /\ \A i \in Ids : row[i].proven => row[i].target
    /\ \A r \in Reqs : req[r].pc \in {"recheck", "mark"} /\ row[req[r].at].state # "absent"
           => row[req[r].at].target

\* A row that stays keeps its target, deleted or not, and a proof needs one.
TargetsKept ==
    \A i \in Ids :
        /\ row'[i].state # "absent" => row[i].state # "absent" /\ (row[i].target => row'[i].target)
        /\ row'[i].proven => row'[i].target

LEMMA UpdateTargets ==
    ASSUME RowsOK, ProofsBacked, NEW i \in Ids, NEW new \in Rows, Update(i, new),
           created' = created, row[i].target => new.target, Live(i) /\ new.proven => new.target
    PROVE  TargetsKept
<1>1. \A k \in Ids : k # i \/ ~Live(i) => row'[k] = row[k]
  BY UpdateKeeps
<1>2. Live(i) => row'[i] = [new EXCEPT !.aged = FALSE]
  BY UpdateKeeps
<1>3. /\ [new EXCEPT !.aged = FALSE].target = new.target
      /\ [new EXCEPT !.aged = FALSE].proven = new.proven
  BY DEF Rows
<1>4. Live(i) => row[i].state # "absent"
  BY DEF Live
<1> SUFFICES ASSUME NEW k \in Ids
             PROVE  /\ row'[k].state # "absent"
                          => row[k].state # "absent" /\ (row[k].target => row'[k].target)
                    /\ row'[k].proven => row'[k].target
  BY DEF TargetsKept
<1>5. CASE row'[k] = row[k]
  BY <1>5 DEF ProofsBacked
<1>6. CASE k = i /\ Live(i)
  BY <1>2, <1>3, <1>4, <1>6
<1> QED BY <1>1, <1>5, <1>6

LEMMA RequestTargets ==
    ASSUME TypeInv, NoClaims, ProofsBacked, NEW r \in Reqs, ~Insert(r),
           \/ AddDomain(r) \/ NotFound(r) \/ DeleteDomain(r)
           \/ UpdateDomain(r) \/ IssueCertificate(r)
    PROVE  TargetsKept
<1> USE DEF TypeInv
<1> DEFINE i == req[r].at
<1>1. CASE UNCHANGED row
  BY <1>1 DEF TargetsKept, ProofsBacked
<1>2. CASE \/ FindMissing(r) \/ FindExisting(r) \/ IsUnclaimed(r) \/ ClaimVerify(r) \/ ClaimCert(r)
           \/ InsertConflict(r) \/ NotFound(r) \/ DeleteLoad(r) \/ UpdateLoad(r) \/ DeleteCert(r)
           \/ IssueLoad(r) \/ Recheck(r) \/ LockRead(r) \/ PurgeCert(r)
  BY <1>1, <1>2 DEF FindMissing, FindExisting, IsUnclaimed, ClaimVerify, ClaimCert, InsertConflict,
     NotFound, DeleteLoad, UpdateLoad, DeleteCert, IssueLoad, Recheck, LockRead, PurgeCert,
     NoTable, OnlyCert
<1>3. CASE \/ ClaimTarget(r) \/ SetTarget(r) \/ UpdateRow(r) \/ Mark(r) \/ LockCas(r)
           \/ Restore(r) \/ PurgeRow(r) \/ SetTargetFails(r) \/ DeleteRow(r)
  <2>1. i \in Ids /\ row[i] \in Rows
    BY <1>3, AtIds DEF ClaimTarget, SetTarget, UpdateRow, Mark, LockCas, Restore, PurgeRow,
       SetTargetFails, DeleteRow, Goto, AtRow, RowsOK
  <2>2. row[i].proven => row[i].target
    BY <2>1 DEF ProofsBacked
  <2> HIDE DEF i
  <2>3. ASSUME NEW x \in Rows
        PROVE  LET target == [x EXCEPT !.target = TRUE]
                   marked == [x EXCEPT !.status = "verified", !.proven = TRUE]
                   locked == [x EXCEPT !.status = "generating"]
               IN  /\ target \in Rows /\ target.target
                   /\ marked \in Rows /\ marked.target = x.target
                   /\ locked \in Rows /\ locked.target = x.target /\ locked.proven = x.proven
    BY DEF Rows, Statuses
  <2>4. CASE ClaimTarget(r) \/ SetTarget(r)
    BY <1>1, <2>1, <2>3, <2>4, UpdateTargets DEF ClaimTarget, SetTarget, OnlyRow, i
  <2>5. CASE UpdateRow(r)
    BY <2>1, <2>2, <2>5, UpdateTargets DEF UpdateRow, OnlyRow, i
  <2>6. CASE Mark(r)
    <3>1. Live(i) => row[i].target
      BY <2>6 DEF Mark, Goto, Live, ProofsBacked, i
    <3> QED BY <2>1, <2>3, <2>6, <3>1, UpdateTargets DEF Mark, OnlyRow, i
  <2>7. CASE LockCas(r)
    BY <1>1, <2>1, <2>2, <2>3, <2>7, UpdateTargets DEF LockCas, i
  <2>8. CASE Restore(r)
    BY <1>1, <2>1, <2>8 DEF Restore, Restored, TargetsKept, ProofsBacked, RowsOK, Rows, i
  <2>9. CASE PurgeRow(r)
    BY <2>1, <2>9 DEF PurgeRow, NoRow, TargetsKept, ProofsBacked, RowsOK, i
  <2>10. CASE SetTargetFails(r) \/ DeleteRow(r)
    BY <1>1, <2>1, <2>2, <2>10 DEF SetTargetFails, DeleteRow, Live, TargetsKept, ProofsBacked,
       RowsOK, Rows, i
  <2> QED BY <1>3, <2>4, <2>5, <2>6, <2>7, <2>8, <2>9, <2>10
<1>4. CASE ClaimCas(r)
  BY <1>4 DEF ClaimCas, Goto, NoClaims
<1> QED BY <1>2, <1>3, <1>4 DEF AddDomain, DeleteDomain, UpdateDomain, IssueCertificate

\* A request comes to prove a name by a row it read with its target.
LEMMA RequestProves ==
    ASSUME TypeInv, NEW r \in Reqs,
           \/ AddDomain(r) \/ NotFound(r) \/ DeleteDomain(r)
           \/ UpdateDomain(r) \/ IssueCertificate(r)
    PROVE  req'[r].pc \in {"recheck", "mark"}
             => \/ IssueLoad(r) /\ row' = row /\ req'[r].at \in Ids /\ row[req'[r].at].target
                \/ req[r].pc = "recheck" /\ row' = row /\ req'[r].at = req[r].at
<1> USE DEF TypeInv, GoesOn
<1>0. ASSUME \E from \in PCs, to \in PCs \ {"recheck", "mark"} :
                 \/ Goto(r, from, to)
                 \/ \E i \in Ids : ReadGoto(r, from, to, i)
      PROVE  req'[r].pc \notin {"recheck", "mark"}
  <2> HIDE DEF PCs
  <2> QED BY <1>0, GotoMoves, ReadMoves
<1> USE DEF PCs
<1>1. CASE \/ FindMissing(r) \/ IsUnclaimed(r) \/ ClaimVerify(r) \/ ClaimCert(r) \/ ClaimCas(r)
  BY <1>1, <1>0 DEF FindMissing, IsUnclaimed, ClaimVerify, ClaimCert, ClaimCas
<1>2. CASE \/ ClaimTarget(r) \/ Restore(r) \/ PurgeCert(r) \/ PurgeRow(r)
           \/ InsertConflict(r) \/ SetTarget(r) \/ SetTargetFails(r)
  BY <1>2, <1>0 DEF ClaimTarget, Restore, PurgeCert, PurgeRow, InsertConflict, SetTarget,
     SetTargetFails
<1>3. CASE NotFound(r)
  BY <1>0, <1>3 DEF NotFound
<1>4. CASE FindExisting(r)
  BY <1>0, <1>4 DEF FindExisting, Named
<1>5. CASE DeleteLoad(r) \/ UpdateLoad(r)
  BY <1>0, <1>5 DEF DeleteLoad, UpdateLoad
<1>6. CASE DeleteCert(r) \/ DeleteRow(r) \/ UpdateRow(r)
  BY <1>0, <1>6 DEF DeleteCert, DeleteRow, UpdateRow
<1>7. CASE Mark(r) \/ LockCas(r)
  BY <1>0, <1>7 DEF Mark, LockCas
<1>8. CASE LockRead(r)
  <2>1. req[r].at \in Ids
    BY <1>8, AtIds DEF LockRead, ReadGoto, AtRow
  <2> QED BY <1>0, <1>8, <2>1 DEF LockRead
<1>9. CASE Insert(r)
  BY <1>9 DEF Insert, ReqsOK, Requests
<1>10. CASE IssueLoad(r)
  <2>1. PICK i \in Ids, to \in {"idle", "recheck"} :
            ReadGoto(r, "loadIssue", to, i) /\ (to = "recheck" => row[i].target)
    BY <1>10 DEF IssueLoad
  <2>2. row' = row
    BY <1>10 DEF IssueLoad, NoTable
  <2>3. to \in PCs /\ "loadIssue" \in PCs
    OBVIOUS
  <2> HIDE DEF PCs
  <2>4. GoesOn(r, to, i)
    BY <2>1, <2>3, ReadMoves
  <2> QED BY <1>10, <2>1, <2>2, <2>4
<1>11. CASE Recheck(r)
  <2>1. PICK to \in {"idle", "lockRead", "mark"} : Goto(r, "recheck", to)
    BY <1>11 DEF Recheck
  <2>2. row' = row
    BY <1>11 DEF Recheck, NoTable
  <2>3. to \in PCs /\ "recheck" \in PCs
    OBVIOUS
  <2> HIDE DEF PCs
  <2>4. req[r].pc = "recheck" /\ GoesOn(r, to, req[r].at)
    BY <2>1, <2>3, GotoMoves
  <2> QED BY <2>2, <2>4
<1> QED BY <1>1, <1>2, <1>3, <1>4, <1>5, <1>6, <1>7, <1>8, <1>9, <1>10, <1>11
        DEF AddDomain, DeleteDomain, UpdateDomain, IssueCertificate

LEMMA OperationTargets ==
    ASSUME TypeInv, ProofsBacked, NEW i \in Ids,
           \/ VerifyCname(i) \/ JobSave(i) \/ JobFails(i)
           \/ RollbackReads(i) \/ ResetWrites(i) \/ Ages(i)
    PROVE  TargetsKept
<1>1. RowsOK /\ row[i] \in Rows /\ created' = created /\ (row[i].proven => row[i].target)
  BY DEF TypeInv, RowsOK, ProofsBacked, VerifyCname, JobSave, JobFails, RollbackReads, ResetWrites,
     Ages, KeepReqs
<1>2. ASSUME NEW st \in Statuses
      PROVE  LET new == [row[i] EXCEPT !.status = st]
             IN  new \in Rows /\ new.target = row[i].target /\ new.proven = row[i].proven
  BY <1>1 DEF Rows
<1>3. CASE VerifyCname(i)
  <2> DEFINE proved == [row[i] EXCEPT !.status = "verified", !.proven = TRUE]
  <2>1. proved \in Rows /\ proved.target = row[i].target
    BY <1>1 DEF Rows, Statuses
  <2>2. Update(i, proved) /\ row[i].target
    BY <1>3 DEF VerifyCname
  <2> HIDE DEF proved
  <2> QED BY <1>1, <2>1, <2>2, UpdateTargets
<1>4. CASE JobSave(i) \/ ResetWrites(i)
  <2>1. PICK st \in Statuses : Update(i, [row[i] EXCEPT !.status = st])
    BY <1>4 DEF JobSave, ResetWrites, TypeInv, ResetOK, Statuses
  <2> DEFINE new == [row[i] EXCEPT !.status = st]
  <2>2. new \in Rows /\ new.target = row[i].target /\ new.proven = row[i].proven
    BY <1>2
  <2>3. Update(i, new)
    BY <2>1
  <2> HIDE DEF new
  <2> QED BY <1>1, <2>2, <2>3, UpdateTargets
<1>5. CASE JobFails(i) \/ RollbackReads(i)
  BY <1>5 DEF JobFails, RollbackReads, TargetsKept, ProofsBacked
<1>6. CASE Ages(i)
  <2>1. row' = [row EXCEPT ![i] = [row[i] EXCEPT !.aged = TRUE]]
    BY <1>6 DEF Ages
  <2>2. LET new == [row[i] EXCEPT !.aged = TRUE]
        IN  new.state = row[i].state /\ new.target = row[i].target /\ new.proven = row[i].proven
    BY <1>1 DEF Rows
  <2> QED BY <1>1, <2>1, <2>2 DEF TargetsKept, ProofsBacked, RowsOK
<1> QED BY <1>3, <1>4, <1>5, <1>6

LEMMA ProofsInvariant == ASSUME "claim" \notin Events PROVE Spec => []ProofsBacked
<1>1. Init => ProofsBacked
  BY DEF Init, Idle, NoRow, ProofsBacked
<1>2. OwnersInv /\ TypeInv' /\ ProofsBacked /\ [Next]_vars => ProofsBacked'
  <2> SUFFICES ASSUME TypeInv, NoClaims, TypeInv', ProofsBacked, [Next]_vars PROVE ProofsBacked'
    BY DEF OwnersInv
  <2>0. \A q \in Reqs : req[q].pc \in {"recheck", "mark"} => req[q].at \in Ids
    BY AtIds DEF TypeInv, AtRow
  <2>1. ASSUME NEW r \in Reqs, NEW u \in Users, NEW k \in {"add", "delete", "update", "issue"},
               Arrive(r, u, k)
        PROVE  ProofsBacked'
    BY <2>1 DEF Arrive, Idle, NoTable, ProofsBacked, TypeInv, ReqsOK
  <2>2. ASSUME NEW r \in Reqs,
               \/ AddDomain(r) \/ NotFound(r) \/ DeleteDomain(r)
               \/ UpdateDomain(r) \/ IssueCertificate(r)
        PROVE  ProofsBacked'
    <3>1. \A q \in Reqs : q # r => req'[q] = req[q]
      BY <2>2, NoClaimBegins
    <3>2. CASE Insert(r)
      <4>1. /\ created + 1 \in Ids
            /\ row' = [row EXCEPT ![created + 1] = [NoRow EXCEPT !.state = "live", !.owner = req[r].by]]
        BY <3>2 DEF Insert, TypeInv, RowsOK
      <4>2. ~[NoRow EXCEPT !.state = "live", !.owner = req[r].by].proven
        BY DEF NoRow
      <4>3. \A k \in Ids : IF k = created + 1 THEN ~row'[k].proven ELSE row'[k] = row[k]
        BY <4>1, <4>2 DEF TypeInv, RowsOK
      <4>4. \A q \in Reqs : req[q].pc \in {"recheck", "mark"} => req[q].at # created + 1
        BY DEF TypeInv, ReqsOK, RowsOK, AtRow
      <4>5. req'[r].pc = "setTarget"
        BY <3>2 DEF Insert, TypeInv, ReqsOK, Requests
      <4> QED BY <2>0, <3>1, <4>3, <4>4, <4>5 DEF ProofsBacked
    <3>3. CASE ~Insert(r)
      <4>1. TargetsKept
        BY <2>2, <3>3, RequestTargets
      <4>2. req'[r].pc \in {"recheck", "mark"}
              => \/ row' = row /\ row[req'[r].at].target
                 \/ req[r].pc = "recheck" /\ row' = row /\ req'[r].at = req[r].at
        BY <2>2, RequestProves
      <4>3. ASSUME NEW q \in Reqs, req'[q].pc \in {"recheck", "mark"},
                   row'[req'[q].at].state # "absent"
            PROVE  row'[req'[q].at].target
        <5>1. CASE q = r
          BY <4>2, <4>3, <5>1 DEF ProofsBacked
        <5>2. CASE q # r
          BY <2>0, <3>1, <4>1, <4>3, <5>2 DEF ProofsBacked, TargetsKept
        <5> QED BY <5>1, <5>2
      <4> QED BY <4>1, <4>3 DEF ProofsBacked, TargetsKept
    <3> QED BY <3>2, <3>3
  <2>3. ASSUME NEW i \in Ids,
               \/ VerifyCname(i) \/ JobSave(i) \/ JobFails(i)
               \/ RollbackReads(i) \/ ResetWrites(i) \/ Ages(i)
        PROVE  ProofsBacked'
    <3>1. UNCHANGED req
      BY <2>3 DEF VerifyCname, JobSave, JobFails, RollbackReads, ResetWrites, Ages, KeepReqs
    <3>2. TargetsKept
      BY <2>3, OperationTargets
    <3> QED BY <2>0, <3>1, <3>2 DEF ProofsBacked, TargetsKept
  <2>4. CASE Crash
    BY <2>4 DEF Crash, Idle, ProofsBacked
  <2>5. CASE UNCHANGED vars
    BY <2>5 DEF vars, ProofsBacked
  <2> QED BY <2>1, <2>2, <2>3, <2>4, <2>5 DEF Next
<1> QED BY <1>1, <1>2, OwnersInvariant, TypeInvariant, PTL DEF Spec

\* Where names are not claimed: a name is proven through a target its row has, for
\* every number of users, requests and rows, although creations fail at the statement
\* that sets it and requests go on with rows that were deleted, restored or removed.
THEOREM ProofsHaveTargetsUnclaimed ==
    ASSUME "claim" \notin Events PROVE Spec => []ProvenHasTarget
<1>1. ProofsBacked => ProvenHasTarget
  BY DEF ProofsBacked, ProvenHasTarget
<1> QED BY <1>1, ProofsInvariant, PTL

-----------------------------------------------------------------------------
(* Where domains are not deleted, what backs a status is not taken away *)

NoDeletes ==
    /\ \A i \in Ids : i <= created => Live(i)
    /\ \A r \in Reqs : req[r].pc \notin {"restore", "purgeCert", "purgeRow",
                                          "loadDelete", "deleteCert", "deleteRow"}

\* What rows and the statuses about to be written rest on.
RowsBacked ==
    \A i \in Ids :
        /\ Live(i) /\ row[i].status = "active" => cert[i] # Null
        /\ Live(i) /\ row[i].status = "verified" => row[i].proven
        /\ row[i].proven => row[i].target
        /\ reset[i] # Null => /\ reset[i] \in {"active", "verified", "error"}
                              /\ reset[i] = "active" => cert[i] # Null
                              /\ reset[i] = "verified" => row[i].proven

\* A request that may prove a name has seen its row with a target, or set it.
TargetsSeen ==
    \A r \in Reqs :
        /\ req[r].pc \in {"unclaimed", "claimTarget"} /\ req[r].seen.target
               => row[req[r].at].target
        /\ req[r].pc \in {"claimVerify", "claimCert", "claimCas", "recheck", "mark"}
               => row[req[r].at].target

BackedInv == NoDeletes /\ RowsBacked /\ TargetsSeen

\* Row i keeps its target and its proof, and is verified with a proof only.
Grows(i) ==
    /\ row'[i].state = row[i].state
    /\ row[i].target => row'[i].target
    /\ row[i].proven => row'[i].proven
    /\ row'[i].proven => row[i].proven \/ row'[i].target
    /\ row'[i].status = "verified" => row[i].status = "verified" \/ row'[i].proven

LEMMA UpdateGrows ==
    ASSUME RowsOK, NEW i \in Ids, NEW new \in Rows, Update(i, new), created' = created,
           row[i].target => new.target, row[i].proven => new.proven,
           new.proven => row[i].proven \/ new.target,
           new.status = "verified" => row[i].status = "verified" \/ new.proven,
           new.state = row[i].state
    PROVE  \A k \in Ids : Grows(k)
<1>1. \A k \in Ids : k # i \/ ~Live(i) => row'[k] = row[k]
  BY UpdateKeeps
<1>2. Live(i) => row'[i] = [new EXCEPT !.aged = FALSE]
  BY UpdateKeeps
<1>3. LET x == [new EXCEPT !.aged = FALSE]
      IN  /\ x.state = new.state /\ x.target = new.target
          /\ x.proven = new.proven /\ x.status = new.status
  BY DEF Rows
<1> TAKE k \in Ids
<1>4. CASE row'[k] = row[k]
  BY <1>4 DEF Grows
<1>5. CASE k = i /\ Live(i)
  BY <1>2, <1>3, <1>5 DEF Grows
<1> QED BY <1>1, <1>4, <1>5

\* A request other than a creation lets every row grow and no row become active.
LEMMA RequestGrows ==
    ASSUME TypeInv, NoDeletes, TargetsSeen, "fault" \notin Events, NEW r \in Reqs, ~Insert(r),
           \/ AddDomain(r) \/ NotFound(r) \/ DeleteDomain(r)
           \/ UpdateDomain(r) \/ IssueCertificate(r)
    PROVE  /\ \A i \in Ids : Grows(i)
           /\ \A i \in Ids : row'[i].status = "active" => row[i].status = "active"
           /\ UNCHANGED <<created, cert, reset>>
<1> USE DEF TypeInv
<1> DEFINE i == req[r].at
<1>1. CASE UNCHANGED <<row, created, cert, reset>>
  BY <1>1 DEF Grows
<1>2. CASE \/ FindMissing(r) \/ FindExisting(r) \/ IsUnclaimed(r) \/ ClaimVerify(r) \/ ClaimCert(r)
           \/ InsertConflict(r) \/ NotFound(r) \/ DeleteLoad(r) \/ UpdateLoad(r)
           \/ IssueLoad(r) \/ Recheck(r) \/ LockRead(r)
  BY <1>1, <1>2 DEF FindMissing, FindExisting, IsUnclaimed, ClaimVerify, ClaimCert, InsertConflict,
     NotFound, DeleteLoad, UpdateLoad, IssueLoad, Recheck, LockRead, NoTable
<1>3. CASE \/ Restore(r) \/ PurgeCert(r) \/ PurgeRow(r) \/ SetTargetFails(r)
           \/ DeleteCert(r) \/ DeleteRow(r)
  BY <1>3 DEF Restore, PurgeCert, PurgeRow, SetTargetFails, DeleteCert, DeleteRow, Goto, NoDeletes
<1>4. CASE \/ ClaimTarget(r) \/ ClaimCas(r) \/ SetTarget(r) \/ UpdateRow(r) \/ Mark(r) \/ LockCas(r)
  <2>1. i \in Ids /\ row[i] \in Rows
    BY <1>4, AtIds DEF ClaimTarget, ClaimCas, SetTarget, UpdateRow, Mark, LockCas, Goto, AtRow, RowsOK
  <2>2. UNCHANGED <<created, cert, reset>>
    BY <1>4 DEF ClaimTarget, ClaimCas, SetTarget, UpdateRow, Mark, LockCas, OnlyRow
  <2>3. req[r].by \in Users \union {Null}
    BY DEF ReqsOK, Requests
  <2> DEFINE target == [row[i] EXCEPT !.target = TRUE]
             claimed == [row[i] EXCEPT !.owner = req[r].by, !.status = "verified", !.proven = TRUE]
             marked == [row[i] EXCEPT !.status = "verified", !.proven = TRUE]
             locked == [row[i] EXCEPT !.status = "generating"]
  <2>4. /\ target \in Rows /\ target.target /\ target.proven = row[i].proven
        /\ target.status = row[i].status /\ target.state = row[i].state
    BY <2>1 DEF Rows
  <2>5. /\ claimed \in Rows /\ claimed.target = row[i].target /\ claimed.proven
        /\ claimed.status = "verified" /\ claimed.state = row[i].state
    BY <2>1, <2>3 DEF Rows, Statuses
  <2>6. /\ marked \in Rows /\ marked.target = row[i].target /\ marked.proven
        /\ marked.status = "verified" /\ marked.state = row[i].state
    BY <2>1 DEF Rows, Statuses
  <2>7. /\ locked \in Rows /\ locked.target = row[i].target /\ locked.proven = row[i].proven
        /\ locked.status = "generating" /\ locked.state = row[i].state
    BY <2>1 DEF Rows, Statuses
  <2>8. ASSUME NEW new \in Rows, Update(i, new)
        PROVE  \A k \in Ids : \/ row'[k].status = row[k].status
                              \/ k = i /\ row'[k].status = new.status
    <3>1. [new EXCEPT !.aged = FALSE].status = new.status
      BY DEF Rows
    <3> QED BY <2>1, <2>2, <2>8, <3>1, UpdateKeeps
  <2>9. CASE UNCHANGED row
    BY <1>1, <2>2, <2>9
  <2>10. CASE Update(i, target)
    <3> HIDE DEF i, target
    <3> QED BY <2>1, <2>2, <2>4, <2>8, <2>10, UpdateGrows
  <2>11. CASE Update(i, claimed) /\ row[i].target
    <3> HIDE DEF i, claimed
    <3> QED BY <2>1, <2>2, <2>5, <2>8, <2>11, UpdateGrows
  <2>12. CASE Update(i, marked) /\ row[i].target
    <3> HIDE DEF i, marked
    <3> QED BY <2>1, <2>2, <2>6, <2>8, <2>12, UpdateGrows
  <2>13. CASE Update(i, locked)
    <3> HIDE DEF i, locked
    <3> QED BY <2>1, <2>2, <2>7, <2>8, <2>13, UpdateGrows
  <2>14. CASE Update(i, row[i])
    <3> HIDE DEF i
    <3> QED BY <2>1, <2>2, <2>8, <2>14, UpdateGrows
  <2>15. CASE ClaimTarget(r) \/ SetTarget(r)
    BY <2>9, <2>10, <2>15 DEF ClaimTarget, SetTarget
  <2>16. CASE ClaimCas(r)
    BY <2>9, <2>11, <2>16 DEF ClaimCas, Goto, TargetsSeen
  <2>17. CASE Mark(r)
    BY <2>12, <2>17 DEF Mark, Goto, TargetsSeen
  <2>18. CASE LockCas(r)
    BY <2>9, <2>13, <2>18 DEF LockCas
  <2>19. CASE UpdateRow(r)
    BY <2>14, <2>19 DEF UpdateRow
  <2> QED BY <1>4, <2>15, <2>16, <2>17, <2>18, <2>19
<1> QED BY <1>2, <1>3, <1>4 DEF AddDomain, DeleteDomain, UpdateDomain, IssueCertificate

\* ... and goes on with what it has seen.
SeenBy(q) ==
    /\ q.pc \notin {"restore", "purgeCert", "purgeRow", "loadDelete", "deleteCert", "deleteRow"}
    /\ q.pc \in {"unclaimed", "claimTarget"} /\ q.seen.target => row'[q.at].target
    /\ q.pc \in {"claimVerify", "claimCert", "claimCas", "recheck", "mark"} => row'[q.at].target

LEMMA RequestSees ==
    ASSUME TypeInv, NoDeletes, TargetsSeen, "fault" \notin Events, NEW r \in Reqs,
           \/ AddDomain(r) \/ NotFound(r) \/ DeleteDomain(r)
           \/ UpdateDomain(r) \/ IssueCertificate(r)
    PROVE  (\A q \in Reqs : q # r => req'[q] = req[q]) /\ SeenBy(req'[r])
<1>1. ASSUME \E from \in PCs, to \in {"idle", "insert", "update", "lockRead"} : Goto(r, from, to)
      PROVE  (\A q \in Reqs : q # r => req'[q] = req[q]) /\ SeenBy(req'[r])
  <2>1. PICK from \in PCs, to \in {"idle", "insert", "update", "lockRead"} : Goto(r, from, to)
    BY <1>1
  <2>2. to \in PCs /\ ReqsOK
    BY DEF PCs, TypeInv
  <2>3. GoesOn(r, to, req[r].at)
    BY <2>1, <2>2, GotoMoves
  <2> QED BY <2>3 DEF GoesOn, SeenBy
<1> USE DEF TypeInv, GoesOn
<1>2. CASE FindMissing(r) \/ InsertConflict(r) \/ NotFound(r)
  <2>1. \E from \in PCs, to \in {"idle", "insert", "update", "lockRead"} : Goto(r, from, to)
    BY <1>2 DEF FindMissing, InsertConflict, NotFound, PCs
  <2> QED BY <1>1, <2>1
<1>3. CASE ClaimCas(r) \/ SetTarget(r) \/ UpdateRow(r) \/ Mark(r) \/ LockCas(r)
  <2>1. \E from \in PCs, to \in {"idle", "insert", "update", "lockRead"} : Goto(r, from, to)
    BY <1>3 DEF ClaimCas, SetTarget, UpdateRow, Mark, LockCas, PCs
  <2> QED BY <1>1, <2>1
<1>4. CASE \/ Restore(r) \/ PurgeCert(r) \/ PurgeRow(r) \/ SetTargetFails(r)
           \/ DeleteDomain(r)
  BY <1>4 DEF Restore, PurgeCert, PurgeRow, SetTargetFails, DeleteDomain, DeleteLoad, DeleteCert,
     DeleteRow, Goto, ReadGoto, NoDeletes
<1>5. CASE FindExisting(r)
  <2>1. PICK i \in Named :
            ReadGoto(r, "find",
                     IF Live(i) THEN IF row[i].owner = req[r].by THEN "idle" ELSE "unclaimed"
                     ELSE IF row[i].owner = req[r].by THEN "restore" ELSE "purgeCert", i)
    BY <1>5 DEF FindExisting
  <2>2. i \in Ids /\ Live(i) /\ row' = row
    BY <1>5 DEF Named, RowsOK, NoRow, NoDeletes, FindExisting, NoTable
  <2>3. PICK to \in {"idle", "unclaimed"} : ReadGoto(r, "find", to, i)
    BY <2>1, <2>2
  <2>4. to \in PCs /\ "find" \in PCs
    BY DEF PCs
  <2>5. GoesOn(r, to, i) /\ (to \in UseSeen => req'[r].seen = row[i])
    BY <2>2, <2>3, <2>4, ReadMoves
  <2> QED BY <2>2, <2>5 DEF SeenBy, UseSeen
<1>6. CASE IsUnclaimed(r)
  <2>1. PICK to \in {"idle", "claimTarget"} : Goto(r, "unclaimed", to)
    BY <1>6 DEF IsUnclaimed
  <2>2. row' = row
    BY <1>6 DEF IsUnclaimed, NoTable
  <2>3. to \in PCs /\ "unclaimed" \in PCs
    BY DEF PCs
  <2>4. /\ req[r].pc = "unclaimed" /\ GoesOn(r, to, req[r].at)
        /\ to \in UseSeen => req'[r].seen = req[r].seen
    BY <2>1, <2>3, GotoMoves
  <2> QED BY <2>2, <2>4 DEF SeenBy, UseSeen, TargetsSeen
<1>7. CASE ClaimTarget(r)
  <2> DEFINE i == req[r].at
  <2>1. Goto(r, "claimTarget", "claimVerify") /\ req[r].pc = "claimTarget"
    BY <1>7 DEF ClaimTarget, Goto
  <2>2. i \in Ids /\ i <= created /\ row[i] \in Rows
    BY <2>1, AtIds DEF AtRow, RowsOK, ReqsOK
  <2>3. row'[i].target
    <3>1. CASE req[r].seen.target
      BY <1>7, <2>1, <3>1 DEF ClaimTarget, TargetsSeen
    <3>2. CASE ~req[r].seen.target
      <4>1. Live(i) /\ Update(i, [row[i] EXCEPT !.target = TRUE]) /\ created' = created
        BY <1>7, <2>2, <3>2 DEF ClaimTarget, NoDeletes, OnlyRow
      <4> QED BY <2>2, <4>1 DEF Update, RowsOK, Rows
    <3> QED BY <3>1, <3>2
  <2>4. "claimTarget" \in PCs /\ "claimVerify" \in PCs
    BY DEF PCs
  <2>5. GoesOn(r, "claimVerify", i)
    BY <2>1, <2>4, GotoMoves
  <2> QED BY <2>3, <2>5 DEF SeenBy
<1>8. CASE ClaimVerify(r) \/ ClaimCert(r)
  <2>1. PICK from \in {"claimVerify", "claimCert"}, to \in {"idle", "claimCert", "claimCas"} :
            Goto(r, from, to)
    BY <1>8 DEF ClaimVerify, ClaimCert
  <2>2. row' = row
    BY <1>8 DEF ClaimVerify, ClaimCert, NoTable
  <2>3. from \in PCs /\ to \in PCs
    BY DEF PCs
  <2>4. req[r].pc = from /\ GoesOn(r, to, req[r].at)
    BY <2>1, <2>3, GotoMoves
  <2> QED BY <2>2, <2>4 DEF SeenBy, TargetsSeen
<1>9. CASE UpdateLoad(r) \/ LockRead(r)
  <2>1. PICK from \in {"loadUpdate", "lockRead"}, to \in {"idle", "update", "lockCas"}, i \in Ids :
            ReadGoto(r, from, to, i)
    <3>1. req[r].pc = "lockRead" => req[r].at \in Ids
      BY AtIds DEF AtRow
    <3> QED BY <1>9, <3>1 DEF UpdateLoad, LockRead, ReadGoto
  <2>2. from \in PCs /\ to \in PCs
    BY DEF PCs
  <2>3. GoesOn(r, to, i)
    BY <2>1, <2>2, ReadMoves
  <2> QED BY <2>3 DEF SeenBy
<1>10. CASE IssueLoad(r)
  <2>1. PICK i \in Ids, to \in {"idle", "recheck"} :
            ReadGoto(r, "loadIssue", to, i) /\ (to = "recheck" => row[i].target)
    BY <1>10 DEF IssueLoad
  <2>2. row' = row
    BY <1>10 DEF IssueLoad, NoTable
  <2>3. to \in PCs /\ "loadIssue" \in PCs
    BY DEF PCs
  <2>4. GoesOn(r, to, i)
    BY <2>1, <2>3, ReadMoves
  <2> QED BY <2>1, <2>2, <2>4 DEF SeenBy
<1>11. CASE Recheck(r)
  <2>1. PICK to \in {"idle", "lockRead", "mark"} : Goto(r, "recheck", to)
    BY <1>11 DEF Recheck
  <2>2. row' = row
    BY <1>11 DEF Recheck, NoTable
  <2>3. to \in PCs /\ "recheck" \in PCs
    BY DEF PCs
  <2>4. req[r].pc = "recheck" /\ GoesOn(r, to, req[r].at)
    BY <2>1, <2>3, GotoMoves
  <2> QED BY <2>2, <2>4 DEF SeenBy, TargetsSeen
<1>12. CASE Insert(r)
  BY <1>12 DEF Insert, ReqsOK, Requests, SeenBy
<1> QED BY <1>2, <1>3, <1>4, <1>5, <1>6, <1>7, <1>8, <1>9, <1>10, <1>11, <1>12
        DEF AddDomain, UpdateDomain, IssueCertificate

\* A certificate operation writes a status that is backed when it is written.
LEMMA OperationBacks ==
    ASSUME TypeInv, BackedInv, NEW i \in Ids,
           \/ VerifyCname(i) \/ JobSave(i) \/ JobFails(i)
           \/ RollbackReads(i) \/ ResetWrites(i) \/ Ages(i)
    PROVE  (\A k \in Ids : Grows(k)) /\ RowsBacked' /\ UNCHANGED <<created, req>>
<1> USE DEF TypeInv, BackedInv
<1>1. UNCHANGED <<created, req>> /\ row[i] \in Rows
  BY DEF VerifyCname, JobSave, JobFails, RollbackReads, ResetWrites, Ages, KeepReqs, RowsOK
<1>2. \A k \in Ids : k # i => row'[k] = row[k] /\ cert'[k] = cert[k] /\ reset'[k] = reset[k]
  BY DEF VerifyCname, JobSave, JobFails, RollbackReads, ResetWrites, Ages, Update, RowsOK, CertsOK,
     ResetOK
<1> DEFINE Kept ==
        /\ Grows(i)
        /\ Live(i) /\ row'[i].status = "active" => cert'[i] # Null
        /\ row'[i].status = "verified" /\ Live(i) => row'[i].proven
        /\ row'[i].proven => row'[i].target
        /\ reset'[i] # Null => /\ reset'[i] \in {"active", "verified", "error"}
                               /\ reset'[i] = "active" => cert'[i] # Null
                               /\ reset'[i] = "verified" => row'[i].proven
<1>3. SUFFICES Kept
  BY <1>1, <1>2 DEF RowsBacked, Grows, Live
<1>4. CASE VerifyCname(i)
  BY <1>1, <1>4 DEF VerifyCname, Update, Live, RowsOK, Rows, RowsBacked, Grows
<1>5. CASE JobSave(i)
  BY <1>1, <1>5 DEF JobSave, Update, Live, RowsOK, CertsOK, Rows, RowsBacked, Grows
<1>6. CASE JobFails(i)
  BY <1>1, <1>6 DEF JobFails, RowsBacked, ResetOK, Grows, Live
<1>7. CASE RollbackReads(i)
  BY <1>1, <1>7 DEF RollbackReads, RolledBack, RowsBacked, ResetOK, Grows, Live
<1>8. CASE ResetWrites(i)
  <2>1. cert' = cert /\ reset[i] # Null /\ reset'[i] = Null
    BY <1>8 DEF ResetWrites, ResetOK
  <2>2. row'[i] = IF Live(i) THEN [[row[i] EXCEPT !.status = reset[i]] EXCEPT !.aged = FALSE]
                  ELSE row[i]
    BY <1>8 DEF ResetWrites, Update, RowsOK
  <2>3. CASE Live(i)
    <3>1. /\ row'[i].state = row[i].state /\ row'[i].target = row[i].target
          /\ row'[i].proven = row[i].proven /\ row'[i].status = reset[i]
      BY <1>1, <2>2, <2>3 DEF Rows
    <3>2. row[i].proven => row[i].target
      BY DEF RowsBacked
    <3>3. reset[i] = "active" => cert[i] # Null
      BY <2>1 DEF RowsBacked
    <3>4. reset[i] = "verified" => row[i].proven
      BY <2>1 DEF RowsBacked
    <3>5. Grows(i)
      BY <3>1, <3>4 DEF Grows
    <3> QED BY <2>1, <3>1, <3>2, <3>3, <3>4, <3>5
  <2>4. CASE ~Live(i)
    BY <2>1, <2>2, <2>4 DEF RowsBacked, Grows
  <2> QED BY <2>3, <2>4
<1>9. CASE Ages(i)
  BY <1>1, <1>9 DEF Ages, Live, RowsOK, Rows, RowsBacked, Grows
<1> QED BY <1>4, <1>5, <1>6, <1>7, <1>8, <1>9

LEMMA CreationBacks ==
    ASSUME TypeInv, BackedInv, NEW r \in Reqs, Insert(r)
    PROVE  /\ \A k \in Ids : k <= created' => Live(k)'
           /\ \A k \in Ids : row[k].target => row'[k].target
           /\ RowsBacked'
<1>1. /\ created' = created + 1 /\ created + 1 \in Ids /\ cert' = cert /\ reset' = reset
      /\ row' = [row EXCEPT ![created + 1] = [NoRow EXCEPT !.state = "live", !.owner = req[r].by]]
  BY DEF Insert, TypeInv, RowsOK
<1>2. /\ \A k \in Ids : k # created + 1 => row'[k] = row[k]
      /\ row[created + 1] = NoRow
      /\ row'[created + 1] = [NoRow EXCEPT !.state = "live", !.owner = req[r].by]
      /\ \A k \in Ids : k <= created + 1 => k <= created \/ k = created + 1
  BY <1>1 DEF TypeInv, RowsOK
<1>3. LET new == row'[created + 1]
      IN  /\ new.state = "live" /\ new.status = "pending" /\ ~new.proven /\ ~new.target
  BY <1>2 DEF NoRow
<1>4. ~NoRow.proven /\ ~NoRow.target
  BY DEF NoRow
<1> QED BY <1>1, <1>2, <1>3, <1>4 DEF BackedInv, NoDeletes, RowsBacked, Live

LEMMA BackedInvariant ==
    ASSUME "delete" \notin Events, "fault" \notin Events PROVE Spec => []BackedInv
<1>1. Init => BackedInv
  BY DEF Init, BackedInv, NoDeletes, RowsBacked, TargetsSeen, Idle, NoRow, Live
<1>2. TypeInv /\ TypeInv' /\ BackedInv /\ [Next]_vars => BackedInv'
  <2> SUFFICES ASSUME TypeInv, TypeInv', BackedInv, [Next]_vars PROVE BackedInv'
    OBVIOUS
  <2> USE DEF BackedInv
  <2>1. ASSUME NEW r \in Reqs, NEW u \in Users, NEW k \in {"add", "delete", "update", "issue"},
               k \in Events \union {"add"}, Arrive(r, u, k)
        PROVE  BackedInv'
    BY <2>1 DEF Arrive, Idle, NoTable, NoDeletes, RowsBacked, TargetsSeen, TypeInv, ReqsOK, Live
  <2>2. ASSUME NEW r \in Reqs,
               \/ AddDomain(r) \/ NotFound(r) \/ DeleteDomain(r)
               \/ UpdateDomain(r) \/ IssueCertificate(r)
        PROVE  BackedInv'
    <3>1. (\A q \in Reqs : q # r => req'[q] = req[q]) /\ SeenBy(req'[r])
      BY <2>2, RequestSees
    <3>2. /\ \A i \in Ids : i <= created' => Live(i)'
          /\ \A i \in Ids : row[i].target => row'[i].target
          /\ RowsBacked'
      <4>1. CASE Insert(r)
        BY <4>1, CreationBacks
      <4>2. CASE ~Insert(r)
        BY <2>2, <4>2, RequestGrows DEF Grows, NoDeletes, RowsBacked, Live
      <4> QED BY <4>1, <4>2
    <3>3. \A q \in Reqs : req[q].pc \in AtRow => req[q].at \in Ids
      BY AtIds DEF TypeInv
    <3> QED BY <3>1, <3>2, <3>3 DEF NoDeletes, TargetsSeen, SeenBy, AtRow
  <2>3. ASSUME NEW i \in Ids,
               \/ VerifyCname(i) \/ JobSave(i) \/ JobFails(i)
               \/ RollbackReads(i) \/ ResetWrites(i) \/ Ages(i)
        PROVE  BackedInv'
    <3>1. (\A k \in Ids : Grows(k)) /\ RowsBacked' /\ UNCHANGED <<created, req>>
      BY <2>3, OperationBacks
    <3>2. \A q \in Reqs : req[q].pc \in AtRow => req[q].at \in Ids
      BY AtIds DEF TypeInv
    <3> QED BY <3>1, <3>2 DEF NoDeletes, TargetsSeen, Grows, Live, AtRow
  <2>4. CASE Crash
    BY <2>4 DEF Crash, Idle, NoDeletes, RowsBacked, TargetsSeen, Live, TypeInv, ReqsOK, ResetOK
  <2>5. CASE UNCHANGED vars
    BY <2>5 DEF vars, NoDeletes, RowsBacked, TargetsSeen, Live
  <2> QED BY <2>1, <2>2, <2>3, <2>4, <2>5 DEF Next
<1> QED BY <1>1, <1>2, TypeInvariant, PTL DEF Spec

\* Where domains are not deleted: a row is active with a certificate only and
\* verified with its proof only, for every number of users, requests and rows and
\* with crashes, although a rollback writes what it read before.
THEOREM StatusesAreBacked ==
    ASSUME "delete" \notin Events, "fault" \notin Events PROVE Spec => []StatusBacked
<1>1. BackedInv => StatusBacked
  BY DEF BackedInv, RowsBacked, StatusBacked
<1> QED BY <1>1, BackedInvariant, PTL

\* ... and a name is proven through a target its row has, although a claimer may
\* overtake the creation that sets it.
THEOREM ProofsHaveTargets ==
    ASSUME "delete" \notin Events, "fault" \notin Events PROVE Spec => []ProvenHasTarget
<1>1. BackedInv => ProvenHasTarget
  BY DEF BackedInv, RowsBacked, ProvenHasTarget
<1> QED BY <1>1, BackedInvariant, PTL
-----------------------------------------------------------------------------
(* The rows keep the promise of DomainRow, where domains are not deleted *)

\* What DomainRow sees of the tables.
Shown == <<[i \in Ids |-> row[i].status], [i \in Ids |-> row[i].proven], [i \in Ids |-> cert[i] # Null]>>

\* An update of a live row sets its status and its proof, and no other row's.
LEMMA UpdateShows ==
    ASSUME RowsOK, NEW i \in Ids, Live(i), NEW new \in Rows, Update(i, new)
    PROVE  /\ [k \in Ids |-> row'[k].status]
                  = [[k \in Ids |-> row[k].status] EXCEPT ![i] = new.status]
           /\ [k \in Ids |-> row'[k].proven]
                  = [[k \in Ids |-> row[k].proven] EXCEPT ![i] = new.proven]
<1>1. [new EXCEPT !.aged = FALSE].status = new.status /\ [new EXCEPT !.aged = FALSE].proven = new.proven
  BY DEF Rows
<1>2. row' = [row EXCEPT ![i] = [new EXCEPT !.aged = FALSE]]
  BY DEF Update
<1> QED BY <1>1, <1>2 DEF RowsOK

\* ... and one that keeps both shows nothing.
LEMMA UpdateHides ==
    ASSUME RowsOK, NEW i \in Ids, NEW new \in Rows, Update(i, new), cert' = cert,
           new.status = row[i].status, new.proven = row[i].proven
    PROVE  UNCHANGED Shown
<1>1. CASE Live(i)
  <2>1. /\ [[k \in Ids |-> row[k].status] EXCEPT ![i] = new.status] = [k \in Ids |-> row[k].status]
        /\ [[k \in Ids |-> row[k].proven] EXCEPT ![i] = new.proven] = [k \in Ids |-> row[k].proven]
    OBVIOUS
  <2> QED BY <1>1, <2>1, UpdateShows DEF Shown
<1>2. CASE ~Live(i)
  BY <1>2 DEF Update, Shown
<1> QED BY <1>1, <1>2

\* ... one that sets the status alone.
LEMMA StatusShows ==
    ASSUME RowsOK, NEW i \in Ids, Live(i), NEW new \in Rows, Update(i, new),
           new.proven = row[i].proven
    PROVE  /\ [k \in Ids |-> row'[k].status] = [[k \in Ids |-> row[k].status] EXCEPT ![i] = new.status]
           /\ [k \in Ids |-> row'[k].proven] = [k \in Ids |-> row[k].proven]
<1>1. [[k \in Ids |-> row[k].proven] EXCEPT ![i] = new.proven] = [k \in Ids |-> row[k].proven]
  OBVIOUS
<1> QED BY <1>1, UpdateShows

LEMMA LockedRowShows ==
    ASSUME RowsOK, NEW i \in Ids, Live(i), NEW new \in Rows, Update(i, new), cert' = cert,
           new.status = "generating", new.proven = row[i].proven
    PROVE  DomainRows!Next
<1>1. DomainRows!Lock(i)
  BY StatusShows DEF DomainRows!Lock, DomainRows!SetStatus
<1> QED BY <1>1 DEF DomainRows!Next

LEMMA MarkShows ==
    ASSUME RowsOK, NEW i \in Ids, Live(i), NEW new \in Rows, Update(i, new), cert' = cert,
           new.status = "verified", new.proven = TRUE
    PROVE  DomainRows!Next
<1>1. DomainRows!Verify(i)
  BY UpdateShows DEF DomainRows!Verify, DomainRows!SetStatus
<1> QED BY <1>1 DEF DomainRows!Next

LEMMA RequestRowStep ==
    ASSUME TypeInv, BackedInv, "fault" \notin Events, NEW r \in Reqs,
           \/ AddDomain(r) \/ NotFound(r) \/ DeleteDomain(r)
           \/ UpdateDomain(r) \/ IssueCertificate(r)
    PROVE  UNCHANGED Shown \/ DomainRows!Next
<1> USE DEF TypeInv
<1> DEFINE i == req[r].at
<1>1. CASE UNCHANGED <<row, cert>>
  BY <1>1 DEF Shown
<1>2. CASE \/ FindMissing(r) \/ FindExisting(r) \/ IsUnclaimed(r) \/ ClaimVerify(r) \/ ClaimCert(r)
           \/ InsertConflict(r) \/ NotFound(r) \/ DeleteLoad(r) \/ UpdateLoad(r)
           \/ IssueLoad(r) \/ Recheck(r) \/ LockRead(r)
  BY <1>1, <1>2 DEF FindMissing, FindExisting, IsUnclaimed, ClaimVerify, ClaimCert, InsertConflict,
     NotFound, DeleteLoad, UpdateLoad, IssueLoad, Recheck, LockRead, NoTable
<1>3. CASE \/ Restore(r) \/ PurgeCert(r) \/ PurgeRow(r) \/ SetTargetFails(r)
           \/ DeleteCert(r) \/ DeleteRow(r)
  BY <1>3 DEF Restore, PurgeCert, PurgeRow, SetTargetFails, DeleteCert, DeleteRow, Goto, BackedInv,
     NoDeletes
<1>4. CASE Insert(r)
  <2>1. /\ created + 1 \in Ids /\ row[created + 1] = NoRow /\ cert' = cert
        /\ row' = [row EXCEPT ![created + 1] = [NoRow EXCEPT !.state = "live", !.owner = req[r].by]]
    BY <1>4 DEF Insert, RowsOK
  <2>2. LET new == [NoRow EXCEPT !.state = "live", !.owner = req[r].by]
        IN  new.status = NoRow.status /\ new.proven = NoRow.proven
    BY DEF NoRow
  <2>3. \A k \in Ids : row'[k].status = row[k].status /\ row'[k].proven = row[k].proven
    BY <2>1, <2>2 DEF RowsOK
  <2> QED BY <2>1, <2>3 DEF Shown
<1>5. CASE \/ ClaimTarget(r) \/ ClaimCas(r) \/ SetTarget(r) \/ UpdateRow(r) \/ Mark(r) \/ LockCas(r)
  <2>1. i \in Ids /\ row[i] \in Rows /\ Live(i)
    BY <1>5, AtIds DEF ClaimTarget, ClaimCas, SetTarget, UpdateRow, Mark, LockCas, Goto, AtRow, RowsOK,
       ReqsOK, BackedInv, NoDeletes
  <2>2. cert' = cert
    BY <1>5 DEF ClaimTarget, ClaimCas, SetTarget, UpdateRow, Mark, LockCas, OnlyRow
  <2>3. req[r].by \in Users \union {Null}
    BY DEF ReqsOK, Requests
  <2> DEFINE target == [row[i] EXCEPT !.target = TRUE]
             claimed == [row[i] EXCEPT !.owner = req[r].by, !.status = "verified", !.proven = TRUE]
             marked == [row[i] EXCEPT !.status = "verified", !.proven = TRUE]
             locked == [row[i] EXCEPT !.status = "generating"]
  <2>4. target \in Rows /\ target.status = row[i].status /\ target.proven = row[i].proven
    BY <2>1 DEF Rows
  <2>5. claimed \in Rows /\ claimed.status = "verified" /\ claimed.proven = TRUE
    BY <2>1, <2>3 DEF Rows, Statuses
  <2>6. marked \in Rows /\ marked.status = "verified" /\ marked.proven = TRUE
    BY <2>1 DEF Rows, Statuses
  <2>7. locked \in Rows /\ locked.status = "generating" /\ locked.proven = row[i].proven
    BY <2>1 DEF Rows, Statuses
  <2>8. CASE UNCHANGED row
    BY <1>1, <2>2, <2>8
  <2>9. CASE Update(i, target) \/ Update(i, row[i])
    <3> HIDE DEF i, target
    <3> QED BY <2>1, <2>2, <2>4, <2>9, UpdateHides
  <2>10. CASE Update(i, claimed) \/ Update(i, marked)
    <3> HIDE DEF i, claimed, marked
    <3> QED BY <2>1, <2>2, <2>5, <2>6, <2>10, MarkShows
  <2>11. CASE Update(i, locked)
    <3> HIDE DEF i, locked
    <3> QED BY <2>1, <2>2, <2>7, <2>11, LockedRowShows
  <2>12. CASE ClaimTarget(r) \/ SetTarget(r) \/ UpdateRow(r)
    BY <2>8, <2>9, <2>12 DEF ClaimTarget, SetTarget, UpdateRow
  <2>13. CASE ClaimCas(r) \/ Mark(r)
    BY <2>8, <2>10, <2>13 DEF ClaimCas, Mark
  <2>14. CASE LockCas(r)
    BY <2>8, <2>11, <2>14 DEF LockCas
  <2> QED BY <1>5, <2>12, <2>13, <2>14
<1> QED BY <1>2, <1>3, <1>4, <1>5 DEF AddDomain, DeleteDomain, UpdateDomain, IssueCertificate

LEMMA OperationRowStep ==
    ASSUME TypeInv, BackedInv, NEW i \in Ids,
           \/ VerifyCname(i) \/ JobSave(i) \/ JobFails(i)
           \/ RollbackReads(i) \/ ResetWrites(i) \/ Ages(i)
    PROVE  UNCHANGED Shown \/ DomainRows!Next
<1> USE DEF TypeInv
<1>1. row[i] \in Rows /\ (job[i] # Null => Live(i))
  BY DEF RowsOK, JobsOK, BackedInv, NoDeletes
<1>2. CASE VerifyCname(i)
  <2>1. [row[i] EXCEPT !.status = "verified", !.proven = TRUE] \in Rows
    BY <1>1 DEF Rows, Statuses
  <2>2. /\ [row[i] EXCEPT !.status = "verified", !.proven = TRUE].status = "verified"
        /\ [row[i] EXCEPT !.status = "verified", !.proven = TRUE].proven = TRUE
    BY <1>1 DEF Rows
  <2> QED BY <1>2, <2>1, <2>2, MarkShows DEF VerifyCname
<1>3. ASSUME NEW st \in Statuses, Live(i), Update(i, [row[i] EXCEPT !.status = st])
      PROVE  /\ [k \in Ids |-> row'[k].status] = [[k \in Ids |-> row[k].status] EXCEPT ![i] = st]
             /\ [k \in Ids |-> row'[k].proven] = [k \in Ids |-> row[k].proven]
  <2>1. PICK new : new = [row[i] EXCEPT !.status = st]
    OBVIOUS
  <2>2. new \in Rows /\ new.status = st /\ new.proven = row[i].proven
    BY <1>1, <2>1 DEF Rows
  <2>3. Update(i, new)
    BY <1>3, <2>1
  <2>4. /\ [k \in Ids |-> row'[k].status]
              = [[k \in Ids |-> row[k].status] EXCEPT ![i] = new.status]
        /\ [k \in Ids |-> row'[k].proven] = [k \in Ids |-> row[k].proven]
    BY <1>3, <2>2, <2>3, StatusShows
  <2> QED BY <2>2, <2>4, Zenon
<1>5. CASE JobSave(i)
  <2>1. /\ Live(i) /\ Update(i, [row[i] EXCEPT !.status = "active"])
        /\ cert' = [cert EXCEPT ![i] = job[i]] /\ job[i] # Null
    BY <1>1, <1>5 DEF JobSave
  <2>2. "active" \in Statuses
    BY DEF Statuses
  <2>3. /\ [k \in Ids |-> row'[k].status]
              = [[k \in Ids |-> row[k].status] EXCEPT ![i] = "active"]
        /\ [k \in Ids |-> row'[k].proven] = [k \in Ids |-> row[k].proven]
    BY <1>3, <2>1, <2>2
  <2>4. [k \in Ids |-> cert'[k] # Null] = [[k \in Ids |-> cert[k] # Null] EXCEPT ![i] = TRUE]
    <3> DEFINE stored == [k \in Ids |-> cert[k] # Null]
    <3>1. ASSUME NEW k \in Ids PROVE (cert'[k] # Null) = [stored EXCEPT ![i] = TRUE][k]
      <4>1. CASE k = i
        <5>1. cert'[k] # Null
          BY <2>1, <4>1 DEF CertsOK
        <5>2. [stored EXCEPT ![i] = TRUE][k] = TRUE
          BY <4>1
        <5> QED BY <5>1, <5>2
      <4>2. CASE k # i
        BY <2>1, <4>2 DEF CertsOK
      <4> QED BY <4>1, <4>2
    <3>2. [stored EXCEPT ![i] = TRUE] = [k \in Ids |-> [stored EXCEPT ![i] = TRUE][k]]
      OBVIOUS
    <3> HIDE DEF stored
    <3>3. [k \in Ids |-> cert'[k] # Null] = [stored EXCEPT ![i] = TRUE]
      BY <3>1, <3>2
    <3> QED BY <3>3 DEF stored
  <2>5. DomainRows!Save(i)
    BY <2>3, <2>4 DEF DomainRows!Save, DomainRows!SetStatus
  <2> QED BY <2>5 DEF DomainRows!Next
<1>6. CASE ResetWrites(i)
  <2>1. /\ reset[i] # Null /\ cert' = cert
        /\ Update(i, [row[i] EXCEPT !.status = reset[i]])
    BY <1>6 DEF ResetWrites
  <2>2. /\ reset[i] = "active" => cert[i] # Null
        /\ reset[i] = "verified" => row[i].proven
        /\ reset[i] \in {"active", "verified", "error"}
    BY <2>1 DEF BackedInv, RowsBacked
  <2>3. CASE Live(i)
    <3>1. /\ [k \in Ids |-> row'[k].status]
                = [[k \in Ids |-> row[k].status] EXCEPT ![i] = reset[i]]
          /\ [k \in Ids |-> row'[k].proven] = [k \in Ids |-> row[k].proven]
      BY <1>3, <2>1, <2>2, <2>3 DEF Statuses
    <3>2. DomainRows!Reset(i)
      BY <2>1, <2>2, <3>1 DEF DomainRows!Reset, DomainRows!Backs, DomainRows!SetStatus
    <3> QED BY <3>2 DEF DomainRows!Next
  <2>4. CASE ~Live(i)
    BY <2>1, <2>4 DEF Update, Shown
  <2> QED BY <2>3, <2>4
<1>7. CASE JobFails(i) \/ RollbackReads(i)
  BY <1>7 DEF JobFails, RollbackReads, Shown
<1>8. CASE Ages(i)
  <2>1. row' = [row EXCEPT ![i] = [row[i] EXCEPT !.aged = TRUE]] /\ cert' = cert
    BY <1>8 DEF Ages
  <2>2. /\ [row[i] EXCEPT !.aged = TRUE].status = row[i].status
        /\ [row[i] EXCEPT !.aged = TRUE].proven = row[i].proven
    BY <1>1 DEF Rows
  <2>3. \A k \in Ids : row'[k].status = row[k].status /\ row'[k].proven = row[k].proven
    BY <2>1, <2>2 DEF RowsOK
  <2> QED BY <2>1, <2>3 DEF Shown
<1> QED BY <1>2, <1>5, <1>6, <1>7, <1>8

\* Where domains are not deleted, the rows of a name keep the promise of DomainRow,
\* for every number of users, requests and rows and with crashes: a claim, a mark
\* and cname/verify are its Verify, whoever sent them.
THEOREM OwnershipImplementsDomainRow ==
    ASSUME "delete" \notin Events, "fault" \notin Events PROVE Spec => RowSpec
<1>1. Init => DomainRows!Init
  BY DEF Init, NoRow, DomainRows!Init, DomainRows!Statuses, DomainRows!Backs
<1>2. TypeInv /\ BackedInv /\ [Next]_vars => [DomainRows!Next]_DomainRows!rowVars
  <2> SUFFICES ASSUME TypeInv, BackedInv, [Next]_vars PROVE UNCHANGED Shown \/ DomainRows!Next
    BY DEF Shown, DomainRows!rowVars
  <2>1. CASE UNCHANGED <<row, cert>>
    BY <2>1 DEF Shown
  <2> QED BY <2>1, RequestRowStep, OperationRowStep DEF Next, Arrive, NoTable, Crash, vars
<1> QED BY <1>1, <1>2, TypeInvariant, BackedInvariant, PTL DEF Spec, RowSpec, DomainRows!Spec
=============================================================================
