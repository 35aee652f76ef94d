------------------------- MODULE DelegationDnsProofs -------------------------
(***************************************************************************)
(* The challenge records of a target, for any number of jobs, failing      *)
(* calls and restarts, whenever their requests take effect.  Whoever is    *)
(* past the checks under the mutex began them as the active job, and until *)
(* it unlocks nobody else can start to wait for a record.                  *)
(***************************************************************************)
EXTENDS DelegationDns, TLAPS

Touching == {"delete", "deleting", "check", "create", "creating", "releasing"}
Holding == Touching \union {"locked", "release"}

MutexHeld == \A j \in Jobs : pc[j] \in Holding => mu = j

Alone == \A j, k \in Jobs : pc[j] \in Touching /\ k # j => ~Waits(k)

Unsent == {"idle", "present", "lock", "locked", "delete", "deleting", "check", "create"}
Before == Unsent \union {"creating"}

\* No request is about a record before it can be: the service hears of it from the
\* create, and its id is known when that has been answered.
NotYet ==
    \A j \in Jobs :
        /\ pc[j] \in Unsent => j \notin txt \union creates
        /\ pc[j] \in Before => j \notin deletes /\ recordID # j

\* What recordID is at the places where the mutex protects it.
Target ==
    \A j \in Jobs :
        /\ pc[j] \in {"delete", "deleting"} => recordID # Null
        /\ pc[j] \in {"check", "create", "creating"} => recordID = Null
        /\ pc[j] = "releasing" => recordID = j

IInv == TypeOK /\ MutexHeld /\ Alone /\ NotYet /\ Target /\ RecordServed

LEMMA DnsInvariant == Spec => []IInv
<1> USE DnsAssumption DEF Touching, Holding, Unsent, Before, Waits, requireACMEActive
<1>1. Init => IInv
  BY DEF Init, IInv, TypeOK, PCs, MutexHeld, Alone, NotYet, Target, RecordServed
<1>2. IInv /\ [Next]_vars => IInv'
  <2> SUFFICES ASSUME IInv, [Next]_vars PROVE IInv'
    OBVIOUS
  <2> USE DEF IInv, TypeOK, PCs, MutexHeld, Alone, NotYet, Target, RecordServed, Goto, Unlock, dnsVars,
              CreateTakesEffect, DeleteTakesEffect
  <2>1. ASSUME NEW j \in Jobs, Begin(j) PROVE IInv'
    BY <2>1 DEF Begin
  <2>2. CASE Cancel
    BY <2>2 DEF Cancel
  <2>3. CASE Crash
    BY <2>3 DEF Crash
  <2>4. ASSUME NEW j \in Jobs, JobStep(j) PROVE IInv'
    <3>1. CASE Present(j)
      BY <3>1 DEF Present
    <3>2. CASE Lock(j)
      BY <3>2 DEF Lock, Acquire
    <3>3. CASE Locked(j)
      BY <3>3 DEF Locked
    <3>4. CASE DeleteSend(j)
      BY <3>4 DEF DeleteSend
    <3>5. CASE DeleteEnds(j)
      BY <3>5 DEF DeleteEnds
    <3>6. CASE Check(j)
      BY <3>6 DEF Check
    <3>7. CASE CreateSend(j)
      BY <3>7 DEF CreateSend
    <3>8. CASE Created(j)
      BY <3>8 DEF Created
    <3>9. CASE CreateFails(j)
      BY <3>9 DEF CreateFails
    <3>10. CASE Validated(j)
      BY <3>10 DEF Validated
    <3>11. CASE CleanUp(j)
      BY <3>11 DEF CleanUp
    <3>12. CASE Relock(j)
      BY <3>12 DEF Relock, Acquire
    <3>13. CASE Release(j)
      BY <3>13 DEF Release, Releases
    <3>14. CASE ReleaseEnds(j)
      BY <3>14 DEF ReleaseEnds
    <3> QED BY <2>4, <3>1, <3>2, <3>3, <3>4, <3>5, <3>6, <3>7, <3>8, <3>9, <3>10, <3>11,
               <3>12, <3>13, <3>14 DEF JobStep
  <2>5. CASE UNCHANGED vars
    BY <2>5 DEF vars
  <2>6. ASSUME NEW j \in Jobs, Serve(j) PROVE IInv'
    BY <2>6 DEF Serve
  <2> QED BY <2>1, <2>2, <2>3, <2>4, <2>5, <2>6 DEF Next
<1> QED BY <1>1, <1>2, PTL DEF Spec

\* The types hold, and a provider forgets each token it was given.
THEOREM DnsTypeCorrect == Spec => []TypeOK
<1>1. IInv => TypeOK
  BY DEF IInv
<1> QED BY <1>1, DnsInvariant, PTL

\* The record an active job waits for is served until the job cleans up,
\* whatever superseded jobs still do.
THEOREM RecordIsServed == Spec => []RecordServed
<1>1. IInv => RecordServed
  BY DEF IInv
<1> QED BY <1>1, DnsInvariant, PTL

-----------------------------------------------------------------------------
(* A job that is still active after Created keeps the target to itself until *)
(* its own CleanUp: nobody who got past the checks under the mutex is left,  *)
(* and nobody else passes them.                                              *)

HasRecord(j) ==
    /\ requireACMEActive(j)
    /\ \/ pc[j] \in {"wait", "relock", "release", "releasing"}
       \/ pc[j] = "cleanup" /\ j \in recordIDs

Exclusive == \A j, k \in Jobs : HasRecord(j) /\ k # j => pc[k] \notin Touching

Known ==
    \A j \in Jobs : HasRecord(j) =>
        /\ recordID = j
        /\ j \notin creates
        /\ pc[j] = "wait" => j \in recordIDs

Cleaned ==
    \A j \in Jobs \ Faulty :
        requireACMEActive(j) /\ (pc[j] = "done" \/ (pc[j] = "cleanup" /\ j \notin recordIDs))
            => j \notin txt \union creates

CleanInv == Exclusive /\ Known /\ Cleaned

LEMMA CleanInvariant == Spec => []CleanInv
<1> USE DnsAssumption DEF Touching, Unsent, Before, HasRecord, requireACMEActive
<1>1. Init => CleanInv
  BY DEF Init, CleanInv, Exclusive, Known, Cleaned
<1>2. IInv /\ CleanInv /\ [Next]_vars => CleanInv'
  <2> SUFFICES ASSUME IInv, CleanInv, [Next]_vars PROVE CleanInv'
    OBVIOUS
  <2> USE DEF IInv, TypeOK, PCs, MutexHeld, Holding, CleanInv, NotYet, Target, Exclusive, Known,
              Cleaned, Goto, Unlock, dnsVars, CreateTakesEffect, DeleteTakesEffect
  <2>1. ASSUME NEW j \in Jobs, Begin(j) PROVE CleanInv'
    BY <2>1 DEF Begin
  <2>2. CASE Cancel
    BY <2>2 DEF Cancel
  <2>3. CASE Crash
    BY <2>3 DEF Crash
  <2>4. ASSUME NEW j \in Jobs, JobStep(j) PROVE CleanInv'
    <3>1. CASE Present(j)
      BY <3>1 DEF Present
    <3>2. CASE Lock(j)
      BY <3>2 DEF Lock, Acquire
    <3>3. CASE Locked(j)
      BY <3>3 DEF Locked
    <3>4. CASE DeleteSend(j)
      BY <3>4 DEF DeleteSend
    <3>5. CASE DeleteEnds(j)
      BY <3>5 DEF DeleteEnds
    <3>6. CASE Check(j)
      BY <3>6 DEF Check
    <3>7. CASE CreateSend(j)
      BY <3>7 DEF CreateSend
    <3>8. CASE Created(j)
      BY <3>8 DEF Created
    <3>9. CASE CreateFails(j)
      BY <3>9 DEF CreateFails, MayFail
    <3>10. CASE Validated(j)
      BY <3>10 DEF Validated
    <3>11. CASE CleanUp(j)
      BY <3>11 DEF CleanUp
    <3>12. CASE Relock(j)
      BY <3>12 DEF Relock, Acquire
    <3>13. CASE Release(j)
      BY <3>13 DEF Release, Releases
    <3>14. CASE ReleaseEnds(j)
      BY <3>14 DEF ReleaseEnds, MayFail
    <3> QED BY <2>4, <3>1, <3>2, <3>3, <3>4, <3>5, <3>6, <3>7, <3>8, <3>9, <3>10, <3>11,
               <3>12, <3>13, <3>14 DEF JobStep
  <2>5. CASE UNCHANGED vars
    BY <2>5 DEF vars
  <2>6. ASSUME NEW j \in Jobs, Serve(j) PROVE CleanInv'
    BY <2>6 DEF Serve
  <2> QED BY <2>1, <2>2, <2>3, <2>4, <2>5, <2>6 DEF Next
<1> QED BY <1>1, <1>2, DnsInvariant, PTL DEF Spec

\* An undisturbed job leaves no record of its own and none on its way, however many jobs were
\* superseded, failed or were cut off by a restart before it.
THEOREM UndisturbedCleansUp == Spec => []CleanedUp
<1>1. CleanInv => CleanedUp
  BY DEF CleanInv, Cleaned, CleanedUp
<1> QED BY <1>1, CleanInvariant, PTL
-----------------------------------------------------------------------------
(* The state of the target names every record that is there or on its way,   *)
(* except for those of calls that were cut off and the one being created.    *)

Tracked ==
    /\ \A k \in txt \union creates : k \in cutOff \/ k = recordID \/ pc[k] = "creating"
    /\ recordID \notin creates

LEMMA TrackedInvariant == Spec => []Tracked
<1> USE DnsAssumption
<1>1. Init => Tracked
  BY DEF Init, Tracked
<1>2. IInv /\ Tracked /\ [Next]_vars => Tracked'
  <2> SUFFICES ASSUME IInv, Tracked, [Next]_vars PROVE Tracked'
    OBVIOUS
  <2> USE DEF IInv, TypeOK, NotYet, Target, Unsent, Before, Tracked, Goto, dnsVars,
              CreateTakesEffect, DeleteTakesEffect
  <2>1. ASSUME NEW j \in Jobs, Begin(j) PROVE Tracked'
    BY <2>1 DEF Begin
  <2>2. CASE Cancel
    BY <2>2 DEF Cancel
  <2>3. CASE Crash
    BY <2>3 DEF Crash
  <2>4. ASSUME NEW j \in Jobs, Serve(j) PROVE Tracked'
    BY <2>4 DEF Serve
  <2>5. ASSUME NEW j \in Jobs, JobStep(j) PROVE Tracked'
    <3>1. CASE Present(j) \/ Lock(j) \/ Locked(j) \/ Check(j) \/ Validated(j) \/ CleanUp(j) \/ Relock(j)
      BY <3>1 DEF Present, Lock, Locked, Check, Validated, CleanUp, Relock
    <3>2. CASE DeleteSend(j)
      BY <3>2 DEF DeleteSend
    <3>3. CASE DeleteEnds(j)
      BY <3>3 DEF DeleteEnds
    <3>4. CASE CreateSend(j)
      BY <3>4 DEF CreateSend
    <3>5. CASE Created(j)
      BY <3>5 DEF Created
    <3>6. CASE CreateFails(j)
      BY <3>6 DEF CreateFails
    <3>7. CASE Release(j)
      BY <3>7 DEF Release
    <3>8. CASE ReleaseEnds(j)
      BY <3>8 DEF ReleaseEnds
    <3> QED BY <2>5, <3>1, <3>2, <3>3, <3>4, <3>5, <3>6, <3>7, <3>8 DEF JobStep
  <2>6. CASE UNCHANGED vars
    BY <2>6 DEF vars
  <2> QED BY <2>1, <2>2, <2>3, <2>4, <2>5, <2>6 DEF Next
<1> QED BY <1>1, <1>2, DnsInvariant, PTL DEF Spec

\* Beside the record an active job waits for there is none and none is on its
\* way, except for records whose calls were cut off, for every number of jobs,
\* failing calls, late effects and restarts.
THEOREM NoRecordBeside == Spec => []NoneBeside
<1>1. IInv /\ CleanInv /\ Tracked => NoneBeside
  <2> SUFFICES ASSUME IInv, CleanInv, Tracked, NEW j \in Jobs, Waits(j),
                      NEW k \in txt \union creates, k # j
               PROVE  k \in cutOff
    BY DEF NoneBeside
  <2>1. k \in Jobs /\ recordID = j
    BY DEF IInv, TypeOK, CleanInv, Known, HasRecord, Waits
  <2>2. pc[k] # "creating"
    BY <2>1 DEF IInv, Alone, Touching, Waits
  <2> QED BY <2>1, <2>2 DEF Tracked
<1> QED BY <1>1, DnsInvariant, CleanInvariant, TrackedInvariant, PTL
=============================================================================
