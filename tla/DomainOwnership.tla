--------------------------- MODULE DomainOwnership ---------------------------
(***************************************************************************)
(* Who owns a domain name (controllers/domain.go): users add, claim,       *)
(* restore, update and delete it in requests of several statements each,   *)
(* while certificate operations change the same rows.                      *)
(*                                                                         *)
(* Names do not interact, so there is one.  Its rows have ids the database *)
(* never uses twice; a deleted row stays until another user adds the name. *)
(* Of a certificate operation this module keeps what it reads and writes   *)
(* of the row; that a row has one job at a time is CertLifecycle's matter. *)
(* Names Bug... are mistakes the properties must detect.                   *)
(***************************************************************************)
EXTENDS Naturals

CONSTANTS
    Users,
    Reqs,       \* requests served at a time
    MaxRows,    \* bound: rows ever created
    Events,     \* what occurs besides "add"
    Null

ASSUME OwnershipAssumption ==
    /\ MaxRows \in Nat
    /\ Events \subseteq {"claim", "delete", "update", "issue", "fault", "crash"}
    /\ Null \notin Users

Ids == 1..MaxRows

VARIABLES
    row,        \* the domains table
    created,    \* the last id the database gave out
    cert,       \* certificates: the user of a domain's certificate, or Null
    job,        \* the user a certificate job was locked for, or Null
    reset,      \* the status a rollback or a failure is about to write, or Null
    req         \* the requests

vars == <<row, created, cert, job, reset, req>>

Statuses == {"pending", "verified", "generating", "active", "error"}

\* proven: cname_verified_at is set; target: cname_target is set; aged:
\* unclaimed_error_release has gone by since updated_at.
Rows ==
    [state : {"absent", "live", "deleted"}, owner : Users \union {Null}, status : Statuses,
     target : BOOLEAN, proven : BOOLEAN, aged : BOOLEAN]

NoRow ==
    [state |-> "absent", owner |-> Null, status |-> "pending",
     target |-> FALSE, proven |-> FALSE, aged |-> FALSE]

Live(i) == row[i].state = "live"

\* The unique index on domains.domain covers deleted rows too.
Named == {i \in Ids : row[i].state # "absent"}

PCs ==
    {"idle", "find", "unclaimed", "claimTarget", "claimVerify", "claimCert", "claimCas",
     "restore", "purgeCert", "purgeRow", "insert", "setTarget", "loadDelete", "deleteCert",
     "deleteRow", "loadUpdate", "update", "loadIssue", "recheck", "mark", "lockRead", "lockCas"}

\* A request: where it is, whose it is, and the row it has read.
Idle == [pc |-> "idle", by |-> Null, at |-> Null, seen |-> NoRow]

Init ==
    /\ row = [i \in Ids |-> NoRow]
    /\ created = 0
    /\ cert = [i \in Ids |-> Null]
    /\ job = [i \in Ids |-> Null]
    /\ reset = [i \in Ids |-> Null]
    /\ req = [r \in Reqs |-> Idle]

\* The steps that go by the row as it was read; the others use its id.
UseSeen == {"unclaimed", "claimTarget", "recheck", "lockCas"}

Moved(q, to) ==
    IF to = "idle" THEN Idle
    ELSE [q EXCEPT !.pc = to, !.seen = IF to \in UseSeen THEN @ ELSE NoRow]

Goto(r, from, to) ==
    /\ req[r].pc = from
    /\ req' = [req EXCEPT ![r] = Moved(@, to)]

\* ... having read row i.
ReadGoto(r, from, to, i) ==
    /\ req[r].pc = from
    /\ req' = [req EXCEPT ![r] = Moved([@ EXCEPT !.at = i, !.seen = row[i]], to)]

\* An update by id in gorm's default scope: it passes over deleted rows, and
\* sets updated_at.
Update(i, new) ==
    row' = IF Live(i) THEN [row EXCEPT ![i] = [new EXCEPT !.aged = FALSE]] ELSE row

NoTable == UNCHANGED <<row, created, cert, job, reset>>
OnlyRow == UNCHANGED <<created, cert, job, reset>>
OnlyCert == UNCHANGED <<row, created, job, reset>>

Arrive(r, u, k) ==
    /\ req[r].pc = "idle"
    /\ req' = [req EXCEPT ![r] = [Idle EXCEPT
                   !.by = u,
                   !.pc = CASE k = "add"    -> "find"
                            [] k = "delete" -> "loadDelete"
                            [] k = "update" -> "loadUpdate"
                            [] k = "issue"  -> "loadIssue"]]
    /\ NoTable

-----------------------------------------------------------------------------
(* AddDomain *)

\* The row of that name, deleted or not.
FindMissing(r) ==
    /\ Named = {}
    /\ Goto(r, "find", "insert")
    /\ NoTable

FindExisting(r) ==
    \E i \in Named : LET mine == row[i].owner = req[r].by IN
        /\ ReadGoto(r, "find",
                    IF Live(i) THEN IF mine THEN "idle" ELSE "unclaimed"
                    ELSE IF mine THEN "restore" ELSE "purgeCert", i)
        /\ NoTable

\* isUnclaimedDomain: certificates as they are now, the rest as it was read.
Claimable(i, seen) ==
    /\ cert[i] = Null
    /\ \/ seen.status = "pending"
       \/ seen.status = "error" /\ (seen.proven => seen.aged)

IsUnclaimed(r) ==
    /\ Goto(r, "unclaimed", IF Claimable(req[r].at, req[r].seen) THEN "claimTarget" ELSE "idle")
    /\ NoTable

\* The creator is left to set the target.
BugClaimTarget(r) ==
    /\ Goto(r, "claimTarget", "claimVerify")
    /\ NoTable

\* A claimer may find the row of a creation that has not set its target yet.
ClaimTarget(r) == LET i == req[r].at IN
    /\ Goto(r, "claimTarget", "claimVerify")
    /\ IF req[r].seen.target THEN UNCHANGED row
       ELSE Update(i, [row[i] EXCEPT !.target = TRUE])
    /\ OnlyRow

\* VerifyChallengeCNAME: the claimer does or does not control the name.
ClaimVerify(r) ==
    /\ \E to \in {"idle"} \union (IF "claim" \in Events THEN {"claimCert"} ELSE {}) :
           Goto(r, "claimVerify", to)
    /\ NoTable

\* assignUnclaimedDomainToUser
ClaimCert(r) ==
    /\ Goto(r, "claimCert", IF cert[req[r].at] = Null THEN "claimCas" ELSE "idle")
    /\ NoTable

WinsClaim(i) == Live(i) /\ row[i].status \in {"pending", "error"}

ClaimCas(r) == LET i == req[r].at IN
    /\ Goto(r, "claimCas", "idle")
    /\ IF WinsClaim(i)
       THEN Update(i, [row[i] EXCEPT !.owner = req[r].by, !.status = "verified",
                                     !.proven = TRUE])
       ELSE UNCHANGED row
    /\ OnlyRow

\* The row starts again as a new one does.
BugRestored(x) == [NoRow EXCEPT !.state = "live", !.owner = x.owner]

\* restoreDeletedDomain: every column but the target.
Restored(x) ==
    [x EXCEPT !.state = "live", !.status = "pending", !.proven = FALSE, !.aged = FALSE]

\* By id, whatever the row is by now.
Restore(r) == LET i == req[r].at IN
    /\ Goto(r, "restore", "idle")
    /\ row' = IF row[i].state = "absent" THEN row ELSE [row EXCEPT ![i] = Restored(@)]
    /\ OnlyRow

\* permanentlyRemoveDomain: the dependent rows, then the domain, by id.
PurgeCert(r) ==
    /\ Goto(r, "purgeCert", "purgeRow")
    /\ cert' = [cert EXCEPT ![req[r].at] = Null]
    /\ OnlyCert

\* The old row is kept for the new user.
BugPurgeRow(r) == LET i == req[r].at IN
    /\ Goto(r, "purgeRow", "idle")
    /\ row' = IF row[i].state = "absent" THEN row
              ELSE [row EXCEPT ![i] = [Restored(@) EXCEPT !.owner = req[r].by]]
    /\ OnlyRow

PurgeRow(r) ==
    /\ Goto(r, "purgeRow", "insert")
    /\ row' = [row EXCEPT ![req[r].at] = NoRow]
    /\ OnlyRow

\* createDomainRecord: the insert fails when the name has a row by now.
Insert(r) == LET i == created + 1 IN
    /\ Named = {}
    /\ created < MaxRows
    /\ req[r].pc = "insert"
    /\ created' = i
    /\ row' = [row EXCEPT ![i] = [NoRow EXCEPT !.state = "live", !.owner = req[r].by]]
    /\ req' = [req EXCEPT ![r].pc = "setTarget", ![r].at = i]
    /\ UNCHANGED <<cert, job, reset>>

InsertConflict(r) ==
    /\ Named # {} \/ created = MaxRows
    /\ Goto(r, "insert", "idle")
    /\ NoTable

\* The target holds the id, so it is a second statement.
SetTarget(r) == LET i == req[r].at IN
    /\ Goto(r, "setTarget", "idle")
    /\ Update(i, [row[i] EXCEPT !.target = TRUE])
    /\ OnlyRow

\* It fails: the new row is deleted again, unless that fails too.
SetTargetFails(r) == LET i == req[r].at IN
    /\ "fault" \in Events
    /\ Goto(r, "setTarget", "idle")
    /\ \/ row' = IF Live(i) THEN [row EXCEPT ![i].state = "deleted"] ELSE row
       \/ UNCHANGED row
    /\ OnlyRow

AddDomain(r) ==
    \/ FindMissing(r) \/ FindExisting(r) \/ IsUnclaimed(r) \/ ClaimTarget(r)
    \/ ClaimVerify(r) \/ ClaimCert(r) \/ ClaimCas(r) \/ Restore(r)
    \/ PurgeCert(r) \/ PurgeRow(r) \/ Insert(r) \/ InsertConflict(r)
    \/ SetTarget(r) \/ SetTargetFails(r)

-----------------------------------------------------------------------------
(* DeleteDomain and UpdateDomain *)

\* getDomainOwned
Owned(r, i) == Live(i) /\ row[i].owner = req[r].by

NotFound(r) ==
    /\ ~\E i \in Ids : Owned(r, i)
    /\ \E from \in {"loadDelete", "loadUpdate", "loadIssue"} : Goto(r, from, "idle")
    /\ NoTable

DeleteLoad(r) ==
    \E i \in Ids :
        /\ Owned(r, i)
        /\ ReadGoto(r, "loadDelete",
                    IF row[i].status = "generating" THEN "idle" ELSE "deleteCert", i)
        /\ NoTable

DeleteCert(r) ==
    /\ Goto(r, "deleteCert", "deleteRow")
    /\ cert' = [cert EXCEPT ![req[r].at] = Null]
    /\ OnlyCert

\* By id: the owner and the status were checked before.
DeleteRow(r) == LET i == req[r].at IN
    /\ Goto(r, "deleteRow", "idle")
    /\ row' = IF Live(i) THEN [row EXCEPT ![i].state = "deleted"] ELSE row
    /\ OnlyRow

DeleteDomain(r) == DeleteLoad(r) \/ DeleteCert(r) \/ DeleteRow(r)

UpdateLoad(r) ==
    \E i \in Ids :
        /\ Owned(r, i)
        /\ ReadGoto(r, "loadUpdate", "update", i)
        /\ NoTable

\* auto_renew is no concern here, updated_at is.
UpdateRow(r) ==
    /\ Goto(r, "update", "idle")
    /\ Update(req[r].at, row[req[r].at])
    /\ OnlyRow

UpdateDomain(r) == UpdateLoad(r) \/ UpdateRow(r)

-----------------------------------------------------------------------------
(* Certificate operations on a row *)

\* issueCertificateInternal, up to the CNAME check of beginCertOperation.
IssueLoad(r) ==
    \E i \in Ids :
        /\ Owned(r, i)
        /\ \E to \in {"idle"} \union (IF row[i].target THEN {"recheck"} ELSE {}) :
               ReadGoto(r, "loadIssue", to, i)
        /\ NoTable

\* A renewal, whose lock wants a certificate, skips the mark.
Recheck(r) == LET i == req[r].at IN
    /\ req[r].pc = "recheck"
    /\ \E to \in IF cert[i] # Null THEN {"lockRead"}
                 ELSE IF req[r].seen.status = "verified" THEN {"lockRead", "idle"}
                 ELSE {"mark", "idle"} : Goto(r, "recheck", to)
    /\ NoTable

\* markDomainCnameVerified, whatever the row is by now.
Mark(r) == LET i == req[r].at IN
    /\ Goto(r, "mark", "lockRead")
    /\ Update(i, [row[i] EXCEPT !.status = "verified", !.proven = TRUE])
    /\ OnlyRow

\* lockDomainForCertJob reads the row again: its owner is whom the job is for.
LockRead(r) == LET i == req[r].at IN
    /\ ReadGoto(r, "lockRead", IF Live(i) THEN "lockCas" ELSE "idle", i)
    /\ NoTable

LockCas(r) == LET i == req[r].at IN
    /\ Goto(r, "lockCas", "idle")
    /\ IF Live(i) /\ row[i].status # "generating" /\ job[i] = Null
       THEN /\ Update(i, [row[i] EXCEPT !.status = "generating"])
            /\ job' = [job EXCEPT ![i] = req[r].seen.owner]
       ELSE UNCHANGED <<row, job>>
    /\ UNCHANGED <<created, cert, reset>>

IssueCertificate(r) == IssueLoad(r) \/ Recheck(r) \/ Mark(r) \/ LockRead(r) \/ LockCas(r)

KeepReqs == UNCHANGED <<created, req>>

\* POST /cname/verify, by the owner.
VerifyCname(i) ==
    /\ "issue" \in Events
    /\ Live(i) /\ row[i].target
    /\ Update(i, [row[i] EXCEPT !.status = "verified", !.proven = TRUE])
    /\ UNCHANGED <<cert, job, reset>> /\ KeepReqs

\* saveCertificateRecord: the certificate is stored even if its domain is gone.
JobSave(i) ==
    /\ job[i] # Null /\ reset[i] = Null
    /\ cert' = [cert EXCEPT ![i] = job[i]]
    /\ Update(i, [row[i] EXCEPT !.status = "active"])
    /\ job' = [job EXCEPT ![i] = Null]
    /\ UNCHANGED reset /\ KeepReqs

\* An automatic renewal is taken to have a certificate.
BugJobFails(i) ==
    /\ job[i] # Null /\ reset[i] = Null
    /\ \E st \in {"error", "active"} : reset' = [reset EXCEPT ![i] = st]
    /\ UNCHANGED <<row, cert, job>> /\ KeepReqs

\* failCertJob: error, or active when an automatic renewal finds a certificate.
JobFails(i) ==
    /\ job[i] # Null /\ reset[i] = Null
    /\ \E st \in {"error"} \union (IF cert[i] # Null THEN {"active"} ELSE {}) :
           reset' = [reset EXCEPT ![i] = st]
    /\ UNCHANGED <<row, cert, job>> /\ KeepReqs

\* A status of its own for what was cancelled.
BugRolledBack(i) == IF cert[i] # Null THEN "active" ELSE "cancelled"

RolledBack(i) ==
    IF cert[i] # Null THEN "active" ELSE IF row[i].proven THEN "verified" ELSE "error"

\* rollbackGeneratingDomain: of a cancelled job, of an operation without a slot,
\* or of the cleanup, after the job is cancelled.
RollbackReads(i) ==
    /\ Live(i) /\ row[i].status = "generating" /\ reset[i] = Null
    /\ reset' = [reset EXCEPT ![i] = RolledBack(i)]
    /\ job' = [job EXCEPT ![i] = Null]
    /\ UNCHANGED <<row, cert>> /\ KeepReqs

\* The update of either, by id.
ResetWrites(i) ==
    /\ reset[i] # Null
    /\ Update(i, [row[i] EXCEPT !.status = reset[i]])
    /\ reset' = [reset EXCEPT ![i] = Null]
    /\ job' = [job EXCEPT ![i] = Null]
    /\ UNCHANGED cert /\ KeepReqs

\* The release delay goes by.
Ages(i) ==
    /\ Live(i) /\ row[i].status = "error" /\ ~row[i].aged
    /\ row' = [row EXCEPT ![i].aged = TRUE]
    /\ UNCHANGED <<cert, job, reset>> /\ KeepReqs

\* Requests and jobs are lost, and rows stay as they are.
Crash ==
    /\ "crash" \in Events
    /\ req' = [r \in Reqs |-> Idle]
    /\ job' = [i \in Ids |-> Null]
    /\ reset' = [i \in Ids |-> Null]
    /\ UNCHANGED <<row, created, cert>>

Next ==
    \/ \E r \in Reqs :
           \/ \E u \in Users, k \in {"add", "delete", "update", "issue"} :
                  k \in Events \union {"add"} /\ Arrive(r, u, k)
           \/ AddDomain(r) \/ NotFound(r) \/ DeleteDomain(r)
           \/ UpdateDomain(r) \/ IssueCertificate(r)
    \/ \E i \in Ids : \/ VerifyCname(i) \/ JobSave(i) \/ JobFails(i)
                      \/ RollbackReads(i) \/ ResetWrites(i) \/ Ages(i)
    \/ Crash

Spec == Init /\ [][Next]_vars

-----------------------------------------------------------------------------
(* Properties *)

Requests == [pc : PCs, by : Users \union {Null}, at : Ids \union {Null}, seen : Rows]

TypeOK ==
    /\ row \in [Ids -> Rows]
    /\ created \in 0..MaxRows
    /\ cert \in [Ids -> Users \union {Null}]
    /\ job \in [Ids -> Users \union {Null}]
    /\ reset \in [Ids -> Statuses \union {Null}]
    /\ req \in [Reqs -> Requests]

\* A status is backed by the other tables and columns, whatever requests of
\* several users did to the row since they were read: active by a certificate,
\* verified by cname_verified_at.  (Where domains are not deleted.)
StatusBacked ==
    \A i \in Ids : Live(i) =>
        /\ row[i].status = "active" => cert[i] # Null
        /\ row[i].status = "verified" => row[i].proven

\* The rows promise what DomainRow does, whatever requests of several users did to
\* a row since another one read it.  (Where domains are not deleted.)
DomainRows ==
    INSTANCE DomainRow WITH
        Domains  <- Ids,
        status   <- [i \in Ids |-> row[i].status],
        verified <- [i \in Ids |-> row[i].proven],
        cert     <- [i \in Ids |-> cert[i] # Null]
RowSpec == DomainRows!Spec

\* A name is proven only through the target of its row, although a claimer may
\* overtake the creation that has yet to set it, the creation may fail there, and
\* a request may go on with a row that was deleted and restored meanwhile.
ProvenHasTarget == \A i \in Ids : Live(i) /\ row[i].proven => row[i].target

\* The certificate of a live domain is its owner's: one that a job of an earlier
\* owner stores late never shows up with the next owner.
CertOfOwner == \A i \in Ids : Live(i) /\ cert[i] # Null => cert[i] = row[i].owner

HandedOver(i) == Live(i) /\ row'[i].state = "live" /\ row'[i].owner # row[i].owner

\* cname_target, the "per-domain delegation FQDN": a live row has one unless its
\* creation has yet to set it.
TargetSet ==
    \A i \in Ids : Live(i) /\ ~row[i].target
        => \E r \in Reqs : req[r].pc = "setTarget" /\ req[r].at = i

\* "error domains that had CNAME verified require unclaimed_error_release to
\* elapse since the last status update" before another user may claim them.
ReleaseDelayKept ==
    [][\A i \in Ids : HandedOver(i) /\ row[i].status = "error" /\ row[i].proven
           => row[i].aged]_vars

\* "Pending domains and error domains without certificates are eligible": a
\* claim never takes a domain with its certificate.
ClaimTakesNoCertificate == [][\A i \in Ids : HandedOver(i) => cert[i] = Null]_vars

\* "Cannot delete domain while certificate generation is in progress".
DeleteNotWhileGenerating ==
    [][\A i \in Ids : Live(i) /\ row[i].status = "generating" => row'[i].state # "deleted"]_vars

\* Another user may take a live domain "after CNAME verification" only: its row
\* is not removed to make room for one of theirs.
LiveRowKept == [][\A i \in Ids : Live(i) => row'[i].state # "absent"]_vars
=============================================================================
