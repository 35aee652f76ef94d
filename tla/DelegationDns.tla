---------------------------- MODULE DelegationDns ----------------------------
(***************************************************************************)
(* The challenge records of one delegation target                          *)
(* (services/delegation_dns.go).  Lego calls Present and CleanUp of each   *)
(* job's provider; the jobs of a domain overlap when one is superseded.    *)
(* A call to the DNS service sends a request and ends later: the job's     *)
(* context may be done by then, which ends the call at once, while the     *)
(* request is under way and may take effect at any time, or never.         *)
(* A job obtains one domain, so it presents one record, named after it.    *)
(* Names Bug... are mistakes the properties must detect.                   *)
(***************************************************************************)
EXTENDS Naturals

CONSTANTS
    Jobs,
    Faulty,     \* the jobs whose calls may fail by themselves
    Restarts,   \* whether the server may be restarted
    Null

ASSUME DnsAssumption == Null \notin Jobs /\ Faulty \subseteq Jobs /\ Restarts \in BOOLEAN

VARIABLES
    txt,        \* the records the DNS service has
    creates,    \* the records it was asked to create, and may do so any time
    deletes,    \* the records it was asked to delete
    recordID,   \* delegationTargetDNS.recordID
    mu,         \* the job that holds delegationTargetDNS.mu
    pc,
    active,     \* the job for which requireACMEActive holds
    recordIDs,  \* the jobs whose provider knows the record of its token
    cutOff      \* history: records about which a call ended without an answer,
                \* could not be sent or was forgotten in a restart

dnsVars == <<txt, creates, deletes>>
vars == <<dnsVars, recordID, mu, pc, active, recordIDs, cutOff>>

PCs ==
    {"idle", "present", "lock", "locked", "delete", "deleting", "check", "create", "creating",
     "wait", "cleanup", "relock", "release", "releasing", "done"}

Init ==
    /\ txt = {} /\ creates = {} /\ deletes = {}
    /\ recordID = Null /\ mu = Null /\ active = Null
    /\ pc = [j \in Jobs |-> "idle"]
    /\ recordIDs = {} /\ cutOff = {}

requireACMEActive(j) == active = j

Goto(j, from, to) ==
    /\ pc[j] = from
    /\ pc' = [pc EXCEPT ![j] = to]

Unlock == mu' = Null

\* A job begins: the one before, if it goes on, is superseded.
Begin(j) ==
    /\ Goto(j, "idle", "present")
    /\ active' = j
    /\ UNCHANGED <<dnsVars, recordID, mu, recordIDs, cutOff>>

\* It is cancelled or past its deadline, or the job around the call has ended.
Cancel ==
    /\ active # Null
    /\ active' = Null
    /\ UNCHANGED <<dnsVars, recordID, mu, pc, recordIDs, cutOff>>

-----------------------------------------------------------------------------
(* Present: replaceDelegationTXT.  An error sends Lego to CleanUp.          *)

\* The lookup of the target may fail.
Present(j) ==
    /\ \E to \in {"cleanup"} \union (IF requireACMEActive(j) THEN {"lock"} ELSE {}) :
           Goto(j, "present", to)
    /\ UNCHANGED <<dnsVars, recordID, mu, active, recordIDs, cutOff>>

\* The mutex is forgotten.
BugAcquire(j) == mu' = mu

Acquire(j) == mu = Null /\ mu' = j

Lock(j) ==
    /\ Goto(j, "lock", "locked")
    /\ Acquire(j)
    /\ UNCHANGED <<dnsVars, recordID, active, recordIDs, cutOff>>

Locked(j) ==
    /\ Goto(j, "locked",
            IF ~requireACMEActive(j) THEN "cleanup"
            ELSE IF recordID # Null THEN "delete" ELSE "check")
    /\ IF requireACMEActive(j) THEN UNCHANGED mu ELSE Unlock
    /\ UNCHANGED <<dnsVars, recordID, active, recordIDs, cutOff>>

\* deleteTXT does not even send when the context is done.  The previous record
\* is forgotten in any case.
DeleteSend(j) ==
    /\ Goto(j, "delete", IF requireACMEActive(j) THEN "deleting" ELSE "check")
    /\ IF requireACMEActive(j)
       THEN deletes' = deletes \union {recordID} /\ UNCHANGED <<recordID, cutOff>>
       ELSE recordID' = Null /\ cutOff' = cutOff \union {recordID} /\ UNCHANGED deletes
    /\ UNCHANGED <<txt, creates, mu, active, recordIDs>>

\* The answer to a request, which takes effect now if it has not before.
CreateTakesEffect(k) == txt' = txt \union {k} /\ creates' = creates \ {k} /\ UNCHANGED deletes

DeleteTakesEffect(k) == txt' = txt \ {k} /\ deletes' = deletes \ {k} /\ UNCHANGED creates

\* The service acts on a request, whether or not somebody waits for the answer.
Serve(k) ==
    /\ \/ k \in creates /\ CreateTakesEffect(k)
       \/ k \in deletes /\ DeleteTakesEffect(k)
    /\ UNCHANGED <<recordID, mu, pc, active, recordIDs, cutOff>>

\* A call ends without the answer when its context is done.
MayFail(j) == ~requireACMEActive(j) \/ j \in Faulty

DeleteEnds(j) ==
    /\ Goto(j, "deleting", "check")
    /\ \/ DeleteTakesEffect(recordID) /\ UNCHANGED cutOff
       \/ MayFail(j) /\ cutOff' = cutOff \union {recordID} /\ UNCHANGED dnsVars
    /\ recordID' = Null
    /\ UNCHANGED <<mu, active, recordIDs>>

\* A return without the deferred unlock.
BugCheck(j) ==
    /\ Goto(j, "check", IF requireACMEActive(j) THEN "create" ELSE "cleanup")
    /\ UNCHANGED <<dnsVars, recordID, mu, active, recordIDs, cutOff>>

Check(j) ==
    /\ Goto(j, "check", IF requireACMEActive(j) THEN "create" ELSE "cleanup")
    /\ IF requireACMEActive(j) THEN UNCHANGED mu ELSE Unlock
    /\ UNCHANGED <<dnsVars, recordID, active, recordIDs, cutOff>>

CreateSend(j) ==
    /\ Goto(j, "create", IF requireACMEActive(j) THEN "creating" ELSE "cleanup")
    /\ IF requireACMEActive(j)
       THEN creates' = creates \union {j} /\ UNCHANGED mu
       ELSE Unlock /\ UNCHANGED creates
    /\ UNCHANGED <<txt, deletes, recordID, active, recordIDs, cutOff>>

\* The provider does not learn its record.
BugCreated(j) ==
    /\ Goto(j, "creating", "wait")
    /\ CreateTakesEffect(j)
    /\ recordID' = j
    /\ Unlock
    /\ UNCHANGED <<active, recordIDs, cutOff>>

Created(j) ==
    /\ Goto(j, "creating", "wait")
    /\ CreateTakesEffect(j)
    /\ recordID' = j
    /\ recordIDs' = recordIDs \union {j}
    /\ Unlock
    /\ UNCHANGED <<active, cutOff>>

\* An error, although the service may have created the record, or will.
CreateFails(j) ==
    /\ MayFail(j)
    /\ Goto(j, "creating", "cleanup")
    /\ cutOff' = cutOff \union {j}
    /\ Unlock
    /\ UNCHANGED <<dnsVars, recordID, active, recordIDs>>

\* Propagation and validation, which end either way.
Validated(j) ==
    /\ Goto(j, "wait", "cleanup")
    /\ UNCHANGED <<dnsVars, recordID, mu, active, recordIDs, cutOff>>

-----------------------------------------------------------------------------
(* CleanUp: releaseDelegationTXT *)

\* The token stays in the map.
BugCleanUp(j) ==
    /\ Goto(j, "cleanup", IF j \in recordIDs THEN "relock" ELSE "done")
    /\ UNCHANGED <<dnsVars, recordID, mu, active, recordIDs, cutOff>>

CleanUp(j) ==
    /\ Goto(j, "cleanup", IF j \in recordIDs THEN "relock" ELSE "done")
    /\ recordIDs' = recordIDs \ {j}
    /\ UNCHANGED <<dnsVars, recordID, mu, active, cutOff>>

Relock(j) ==
    /\ Goto(j, "relock", "release")
    /\ Acquire(j)
    /\ UNCHANGED <<dnsVars, recordID, active, recordIDs, cutOff>>

\* The record is deleted when it is still the one of the target, and the
\* context allows a call.
Releases(j) == recordID = j /\ requireACMEActive(j)

Release(j) ==
    /\ Goto(j, "release", IF Releases(j) THEN "releasing" ELSE "done")
    /\ IF Releases(j)
       THEN deletes' = deletes \union {j} /\ UNCHANGED mu
       ELSE Unlock /\ UNCHANGED deletes
    /\ UNCHANGED <<txt, creates, recordID, active, recordIDs, cutOff>>

\* The record is forgotten whether or not it was deleted.
BugReleaseEnds(j) ==
    /\ Goto(j, "releasing", "done")
    /\ DeleteTakesEffect(j) \/ (MayFail(j) /\ UNCHANGED dnsVars)
    /\ recordID' = Null
    /\ Unlock
    /\ UNCHANGED <<active, recordIDs, cutOff>>

\* After an error the next job of the target deletes the record.
ReleaseEnds(j) ==
    /\ Goto(j, "releasing", "done")
    /\ \/ DeleteTakesEffect(j) /\ recordID' = Null
       \/ MayFail(j) /\ UNCHANGED <<dnsVars, recordID>>
    /\ Unlock
    /\ UNCHANGED <<active, recordIDs, cutOff>>

-----------------------------------------------------------------------------
JobStep(j) ==
    \/ Present(j) \/ Lock(j) \/ Locked(j) \/ DeleteSend(j) \/ DeleteEnds(j)
    \/ Check(j) \/ CreateSend(j) \/ Created(j) \/ CreateFails(j) \/ Validated(j)
    \/ CleanUp(j) \/ Relock(j) \/ Release(j) \/ ReleaseEnds(j)

\* delegationTargetRecords is memory: the records and the requests stay.
Crash ==
    /\ Restarts
    /\ pc' = [j \in Jobs |-> IF pc[j] = "idle" THEN "idle" ELSE "done"]
    /\ recordID' = Null /\ mu' = Null /\ active' = Null
    /\ recordIDs' = {}
    /\ cutOff' = cutOff \union txt \union creates
    /\ UNCHANGED dnsVars

Next ==
    \/ \E j \in Jobs : Begin(j) \/ JobStep(j) \/ Serve(j)
    \/ Cancel
    \/ Crash

Spec == Init /\ [][Next]_vars

\* Goroutines are scheduled and Cloudflare calls time out; a mutex of Go hands
\* itself to a goroutine that has waited for it for a millisecond.  A request
\* nobody waits for need not take effect.
Fairness == \A j \in Jobs : WF_vars(JobStep(j)) /\ SF_vars(Lock(j)) /\ SF_vars(Relock(j))

FairSpec == Spec /\ Fairness

-----------------------------------------------------------------------------
(* Properties *)

\* The types; a provider knows a token from Present to CleanUp.
TypeOK ==
    /\ txt \subseteq Jobs /\ creates \subseteq Jobs /\ deletes \subseteq Jobs
    /\ cutOff \subseteq Jobs
    /\ recordID \in Jobs \union {Null}
    /\ mu \in Jobs \union {Null}
    /\ pc \in [Jobs -> PCs]
    /\ active \in Jobs \union {Null}
    /\ recordIDs \subseteq {j \in Jobs : pc[j] \in {"wait", "cleanup"}}

Waits(j) == pc[j] = "wait" /\ requireACMEActive(j)

\* The record of a job that is validated stays until its own CleanUp: the CleanUp
\* and the replacement of a superseded job, however late, leave it alone, and no
\* deletion that is still under way is of it.
RecordServed == \A j \in Jobs : Waits(j) => j \in txt /\ j \notin deletes

\* "serializes TXT records per delegation target so superseded ACME jobs cannot
\* leave stale challenge records alongside a newer job": beside the record an
\* active job waits for there is none, and none is on its way, but those about
\* which a call was cut off.
NoneBeside == \A j \in Jobs : Waits(j) => (txt \union creates) \ {j} \subseteq cutOff

\* A job that nothing disturbs takes its record with it, whatever becomes of the
\* jobs around it, and none of it appears later.
CleanedUp ==
    \A j \in Jobs \ Faulty :
        pc[j] = "done" /\ requireACMEActive(j) => j \notin txt \union creates

\* Present and CleanUp return: no error path keeps the mutex of the target.
PresentEnds == \A j \in Jobs : pc[j] # "idle" ~> pc[j] = "done"

\* "superseded ACME jobs cannot leave stale challenge records alongside a newer
\* job": its record is the only one.
NoStaleRecord == \A j \in Jobs : Waits(j) => txt = {j}

\* "superseded jobs stop touching DNS": none appears beside it either.
NoneAppears == [][\A j \in Jobs : Waits(j) => txt' \subseteq txt]_vars
=============================================================================
