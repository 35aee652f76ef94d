------------------------------ MODULE DomainRow ------------------------------
(***************************************************************************)
(* What the server promises about its domain rows, whoever works on them:  *)
(* a row changes only by a successful check of the name, a lock, a stored  *)
(* certificate, or a reset to a status that is backed at that moment.      *)
(* Certificates and checks are never taken back, no row returns to         *)
(* pending, and a step touches one row.                                    *)
(***************************************************************************)
CONSTANT Domains

VARIABLES
    status,     \* domains.status
    verified,   \* domains.cname_verified_at is set
    cert        \* the domain has a row in certificates

rowVars == <<status, verified, cert>>

Statuses == {"pending", "verified", "generating", "active", "error"}

\* The other columns allow status st for row d.
Backs(d, st) ==
    /\ st = "active" => cert[d]
    /\ st = "verified" => verified[d]

Init ==
    /\ status \in [Domains -> Statuses]
    /\ verified \in [Domains -> BOOLEAN]
    /\ cert \in [Domains -> BOOLEAN]
    /\ \A d \in Domains : Backs(d, status[d])

SetStatus(d, st) == status' = [status EXCEPT ![d] = st]

Verify(d) ==
    /\ SetStatus(d, "verified")
    /\ verified' = [verified EXCEPT ![d] = TRUE]
    /\ UNCHANGED cert

Lock(d) ==
    /\ SetStatus(d, "generating")
    /\ UNCHANGED <<verified, cert>>

Save(d) ==
    /\ SetStatus(d, "active")
    /\ cert' = [cert EXCEPT ![d] = TRUE]
    /\ UNCHANGED verified

\* A job that failed, was cancelled or never started, or a stale lock.
Reset(d) ==
    /\ \E st \in {"active", "verified", "error"} : Backs(d, st) /\ SetStatus(d, st)
    /\ UNCHANGED <<verified, cert>>

Next == \E d \in Domains : Verify(d) \/ Lock(d) \/ Save(d) \/ Reset(d)

Spec == Init /\ [][Next]_rowVars
=============================================================================
