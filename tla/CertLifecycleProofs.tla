------------------------ MODULE CertLifecycleProofs ------------------------
(***************************************************************************)
(* Proofs about certificate operations, for every set of domains, every    *)
(* finite set of operations and every bound on crashes, faults and time:   *)
(* the composition drives the registry only through its own steps, and     *)
(* the rows stay consistent.                                               *)
(***************************************************************************)
EXTENDS CertLifecycle, CertJobRegistryProofs

\* The values a process can have read.
Memory == [ready : BOOLEAN, stale : BOOLEAN, verified : BOOLEAN, cert : BOOLEAN]

\* RegistryTypeOK types the registry, TypesOK what RowConsistent depends on.
TypesOK ==
    /\ status \in [Domains -> Statuses]
    /\ since \in [Domains -> 0..MaxSince \union {Null}]
    /\ verifiedAt \in [Domains -> BOOLEAN]
    /\ cert \in [Domains -> BOOLEAN]
    /\ pc \in [Procs -> PCs]
    /\ local \in [Procs -> Memory]
    /\ lag \in [Ops -> 0..MaxLag]

\* A certificate or a verification a process remembers is still in the database
\* when the update that relies on it runs; nowhere else is one remembered.
Backed(p) ==
    /\ local[p].cert => pc[p] \in {"rbWrite", "failSet"} /\ cert[DomainFor(p)]
    /\ local[p].verified => pc[p] \in {"rbCert", "rbWrite"} /\ verifiedAt[DomainFor(p)]

\* The scheduler stays in its own code, and is at work on a domain whenever it
\* is in the cleanup of one.
SchedulerOK ==
    /\ pc[Scheduler] \in {"idle"} \union RollbackPCs \union SchedulerPCs
    /\ pc[Scheduler] \in {"cleanCancel", "cleanWait", "stuck"} \union RollbackPCs
            => current \in Domains

LifecycleInv ==
    /\ TypesOK
    /\ RowConsistent
    /\ \A p \in Procs : Backed(p)
    /\ SchedulerOK

USE RegistryAssumption, LifecycleAssumption
    DEF RegistryAssumption, LifecycleAssumption, Procs, PCs, HandlerPCs, JobPCs,
        RollbackPCs, SchedulerPCs, Statuses, MaxSince

-----------------------------------------------------------------------------
(* Frames *)

\* Certificates and verifications are never taken back.
Grows ==
    \A d \in Domains : (cert[d] => cert'[d]) /\ (verifiedAt[d] => verifiedAt'[d])

\* A step of one process leaves what the others remember backed.
LEMMA OthersBacked ==
    ASSUME LifecycleInv, Grows, current' = current, NEW p \in Procs,
           \A q \in Procs \ {p} : pc'[q] = pc[q] /\ local'[q] = local[q],
           Backed(p)'
    PROVE  \A q \in Procs : Backed(q)'
<1> SUFFICES ASSUME NEW q \in Procs, q # p PROVE Backed(q)'
  OBVIOUS
<1>1. Backed(q) /\ pc'[q] = pc[q] /\ local'[q] = local[q] /\ DomainFor(q)' = DomainFor(q)
  BY DEF LifecycleInv, DomainFor
<1>2. pc[q] \in {"rbCert", "rbWrite", "failSet"} => DomainFor(q) \in Domains
  BY DEF LifecycleInv, DomainFor, SchedulerOK
<1>3. QED
  BY <1>1, <1>2 DEF Backed, Grows

LEMMA BlankMemory == Blank \in Memory
BY DEF Blank, Memory

\* A process that remembers nothing it read before a write.
Forgetful(p) == pc[p] \notin {"rbCert", "rbWrite", "failSet"}

LEMMA NothingKept ==
    ASSUME LifecycleInv, NEW p \in Procs, Forgetful(p)
    PROVE  ~local[p].cert /\ ~local[p].verified
BY DEF LifecycleInv, Backed, Forgetful

\* An operation moves and forgets, or it had nothing to forget.
Moves(o) ==
    /\ \E to \in PCs : pc' = [pc EXCEPT ![o] = to]
    /\ (local' = local /\ Forgetful(o)) \/ Forget(o)
    /\ lag' = lag \/ lag' = [lag EXCEPT ![o] = 0]
    /\ current' = current

LEMMA MoveKeeps ==
    ASSUME LifecycleInv, NEW o \in Ops, Moves(o), Grows
    PROVE  /\ pc' \in [Procs -> PCs]
           /\ local' \in [Procs -> Memory]
           /\ lag' \in [Ops -> 0..MaxLag]
           /\ \A p \in Procs : Backed(p)'
           /\ SchedulerOK'
<1>1. pc' \in [Procs -> PCs]
  BY DEF LifecycleInv, TypesOK, Moves
<1>2. local' \in [Procs -> Memory]
  BY BlankMemory DEF LifecycleInv, TypesOK, Moves, Forget
<1>3. lag' \in [Ops -> 0..MaxLag]
  BY DEF LifecycleInv, TypesOK, Moves
<1>4. \A q \in Procs \ {o} : pc'[q] = pc[q] /\ local'[q] = local[q]
  BY DEF LifecycleInv, TypesOK, Moves, Forget
<1>5. ~local'[o].cert /\ ~local'[o].verified
  BY NothingKept DEF LifecycleInv, TypesOK, Moves, Forget, Blank
<1>6. \A p \in Procs : Backed(p)'
  BY <1>4, <1>5, OthersBacked DEF Backed, Moves
<1>7. SchedulerOK'
  BY <1>4 DEF LifecycleInv, SchedulerOK, Moves
<1>8. QED
  BY <1>1, <1>2, <1>3, <1>6, <1>7

\* A move that leaves the rows alone.
LEMMA QuietMove ==
    ASSUME LifecycleInv, NEW o \in Ops, Moves(o), UNCHANGED rowVars
    PROVE  LifecycleInv'
<1>1. Grows
  BY DEF Grows, rowVars
<1>2. QED
  BY <1>1, MoveKeeps DEF LifecycleInv, TypesOK, RowConsistent, rowVars

\* A move that writes one row.
LEMMA WritingMove ==
    ASSUME LifecycleInv, NEW o \in Ops, Moves(o), Grows,
           status' \in [Domains -> Statuses],
           since' \in [Domains -> 0..MaxSince \union {Null}],
           verifiedAt' \in [Domains -> BOOLEAN],
           cert' \in [Domains -> BOOLEAN],
           RowConsistent'
    PROVE  LifecycleInv'
BY MoveKeeps DEF LifecycleInv, TypesOK

-----------------------------------------------------------------------------
(* The invariant is inductive: one fact per action *)

LEMMA LifecycleInit == Init => LifecycleInv
<1> SUFFICES ASSUME Init PROVE LifecycleInv
  OBVIOUS
<1>1. TypesOK
  <2>1. status \in [Domains -> Statuses] /\ since \in [Domains -> 0..MaxSince \union {Null}]
    BY DEF Init
  <2>2. verifiedAt \in [Domains -> BOOLEAN]
    <3>1. verifiedAt = [d \in Domains |-> status[d] \in {"verified", "active"}]
      BY DEF Init
    <3>2. \A d \in Domains : (status[d] \in {"verified", "active"}) \in BOOLEAN
      OBVIOUS
    <3>3. QED
      BY <3>1, <3>2, Zenon
  <2>3. cert \in [Domains -> BOOLEAN]
    <3>1. cert = [d \in Domains |-> status[d] = "active"]
      BY DEF Init
    <3>2. \A d \in Domains : (status[d] = "active") \in BOOLEAN
      OBVIOUS
    <3>3. QED
      BY <3>1, <3>2, Zenon
  <2>4. pc \in [Procs -> PCs] /\ lag \in [Ops -> 0..MaxLag]
    BY DEF Init
  <2>5. local \in [Procs -> Memory]
    BY BlankMemory DEF Init
  <2>6. QED
    BY <2>1, <2>2, <2>3, <2>4, <2>5 DEF TypesOK
<1>2. RowConsistent
  BY DEF Init, RowConsistent
<1>3. \A p \in Procs : Backed(p)
  BY DEF Init, Backed, Blank
<1>4. pc[Scheduler] = "idle"
  BY DEF Init
<1>5. SchedulerOK
  BY <1>4 DEF SchedulerOK
<1>6. QED
  BY <1>1, <1>2, <1>3, <1>5 DEF LifecycleInv

\* Remembering anything but a certificate or a verification.
LEMMA Reads ==
    ASSUME LifecycleInv, NEW o \in Ops, Forgetful(o), UNCHANGED <<rowVars, current>>,
           NEW to \in PCs, pc' = [pc EXCEPT ![o] = to],
           NEW field \in {"ready", "stale"}, NEW value \in BOOLEAN,
           Remember(o, field, value),
           lag' = lag \/ lag' = [lag EXCEPT ![o] = 0]
    PROVE  LifecycleInv'
<1>1. Grows
  BY DEF Grows, rowVars
<1>2. /\ pc' \in [Procs -> PCs]
      /\ lag' \in [Ops -> 0..MaxLag]
      /\ \A q \in Procs \ {o} : pc'[q] = pc[q]
  BY DEF LifecycleInv, TypesOK
<1>3. local[o] \in Memory
  BY DEF LifecycleInv, TypesOK
<1>4. /\ [local[o] EXCEPT ![field] = value] \in Memory
      /\ [local[o] EXCEPT ![field] = value].cert = local[o].cert
      /\ [local[o] EXCEPT ![field] = value].verified = local[o].verified
  BY <1>3 DEF Memory
<1>5. local' = [local EXCEPT ![o] = [local[o] EXCEPT ![field] = value]]
  BY DEF Remember
<1>6. local' \in [Procs -> Memory] /\ \A q \in Procs \ {o} : local'[q] = local[q]
  BY <1>4, <1>5 DEF LifecycleInv, TypesOK
<1>7. ~local'[o].cert /\ ~local'[o].verified
  BY <1>4, <1>5, NothingKept DEF LifecycleInv, TypesOK
<1>8. \A p \in Procs : Backed(p)'
  BY <1>1, <1>2, <1>6, <1>7, OthersBacked DEF Backed
<1>9. SchedulerOK'
  BY <1>2 DEF LifecycleInv, SchedulerOK
<1>10. QED
  BY <1>2, <1>6, <1>8, <1>9 DEF LifecycleInv, TypesOK, RowConsistent, rowVars

\* Remembering a certificate just seen, at the step before the write.  The
\* process may be the scheduler, in a rollback.
LEMMA RemembersCert ==
    ASSUME LifecycleInv, NEW p \in Procs, UNCHANGED <<rowVars, current, lag>>,
           pc[p] \in {"rbCert", "failCert"},
           pc' = [pc EXCEPT ![p] = IF pc[p] = "rbCert" THEN "rbWrite" ELSE "failSet"],
           Remember(p, "cert", cert[DomainFor(p)])
    PROVE  LifecycleInv'
<1>1. Grows
  BY DEF Grows, rowVars
<1>2. /\ pc' \in [Procs -> PCs]
      /\ \A q \in Procs \ {p} : pc'[q] = pc[q]
  BY DEF LifecycleInv, TypesOK
<1>3. local[p] \in Memory /\ DomainFor(p) \in Domains /\ DomainFor(p)' = DomainFor(p)
  BY DEF LifecycleInv, TypesOK, SchedulerOK, DomainFor
<1>4. cert[DomainFor(p)] \in BOOLEAN
  BY <1>3 DEF LifecycleInv, TypesOK
<1>5. /\ [local[p] EXCEPT !["cert"] = cert[DomainFor(p)]] \in Memory
      /\ [local[p] EXCEPT !["cert"] = cert[DomainFor(p)]].cert = cert[DomainFor(p)]
      /\ [local[p] EXCEPT !["cert"] = cert[DomainFor(p)]].verified = local[p].verified
  BY <1>3, <1>4 DEF Memory
<1>6. local' = [local EXCEPT ![p] = [local[p] EXCEPT !["cert"] = cert[DomainFor(p)]]]
  BY DEF Remember
<1>7. local' \in [Procs -> Memory] /\ \A q \in Procs \ {p} : local'[q] = local[q]
  BY <1>5, <1>6 DEF LifecycleInv, TypesOK
<1>8. /\ local'[p].cert = cert[DomainFor(p)] /\ local'[p].verified = local[p].verified
      /\ pc'[p] = IF pc[p] = "rbCert" THEN "rbWrite" ELSE "failSet"
  BY <1>5, <1>6 DEF LifecycleInv, TypesOK
<1>9. Backed(p)
  BY DEF LifecycleInv
<1>10. Backed(p)'
  BY <1>3, <1>8, <1>9 DEF Backed, rowVars
<1>11. \A q \in Procs : Backed(q)'
  BY <1>1, <1>2, <1>7, <1>10, OthersBacked
<1>12. SchedulerOK'
  BY <1>2, <1>8 DEF LifecycleInv, SchedulerOK
<1>13. QED
  BY <1>2, <1>7, <1>11, <1>12 DEF LifecycleInv, TypesOK, RowConsistent, rowVars

LEMMA HandlerKeeps ==
    ASSUME LifecycleInv, NEW o \in Ops, HandlerStep(o)
    PROVE  LifecycleInv'
<1> USE DEF Goto, Quiet, NoRows, schedVars, Forgetful
<1>1. CASE LoadDomain(o)
  BY <1>1, Reads DEF LoadDomain
<1>2. CASE CheckExisting(o)
  BY <1>2, QuietMove DEF CheckExisting, Moves
<1>3. CASE CnameHolds(o)
  BY <1>3, QuietMove DEF CnameHolds, Moves
<1>4. CASE Refuse(o)
  BY <1>4, QuietMove DEF Refuse, Moves
<1>5. CASE RecheckExisting(o)
  BY <1>5, QuietMove DEF RecheckExisting, Moves
<1>6. CASE markDomainCnameVerified(o)
  <2>1. Moves(o)
    BY <1>6 DEF markDomainCnameVerified, Moves
  <2>2. QED
    BY <1>6, <2>1, WritingMove
       DEF markDomainCnameVerified, MarkVerified, Grows, LifecycleInv, TypesOK, RowConsistent
<1>7. CASE LockNeedsCert(o)
  BY <1>7, QuietMove DEF LockNeedsCert, Moves
<1>8. CASE LockRead(o)
  BY <1>8, Reads DEF LockRead, Stale
<1>9. CASE LockInflight(o)
  BY <1>9, QuietMove DEF LockInflight, Moves
<1>10. CASE LockCancel(o)
  BY <1>10, QuietMove DEF LockCancel, Moves
<1>11. CASE LockWait(o)
  BY <1>11, QuietMove DEF LockWait, Moves
<1>12. CASE LockCas(o)
  <2>1. Moves(o)
    BY <1>12 DEF LockCas, Moves
  <2>2. lag[o] \in 0..MaxSince /\ lag[o] # Null
    BY DEF LifecycleInv, TypesOK
  <2>3. QED
    BY <1>12, <2>1, <2>2, WritingMove
       DEF LockCas, Grows, LifecycleInv, TypesOK, RowConsistent
<1>13. CASE LockUser(o)
  BY <1>13, QuietMove DEF LockUser, Moves
<1>14. CASE LockUserMissing(o)
  <2>1. Moves(o)
    BY <1>14 DEF LockUserMissing, Moves
  <2>2. QED
    BY <1>14, <2>1, WritingMove
       DEF LockUserMissing, SetStatus, Grows, LifecycleInv, TypesOK, RowConsistent
<1>15. CASE TakeSlot(o)
  BY <1>15, QuietMove DEF TakeSlot, Moves
<1>16. CASE NoSlot(o)
  BY <1>16, QuietMove DEF NoSlot, Moves
<1>17. CASE StartCertJob(o)
  <2>1. pc[o] = "begin" /\ (pc' = pc \/ pc' = [pc EXCEPT ![o] = "jobStart"])
    BY <1>17 DEF StartCertJob
  <2>2. pc = [pc EXCEPT ![o] = "begin"]
    BY <2>1 DEF LifecycleInv, TypesOK
  <2>3. QED
    BY <1>17, <2>1, <2>2, QuietMove DEF StartCertJob, Moves
<1>18. QED
  BY <1>1, <1>2, <1>3, <1>4, <1>5, <1>6, <1>7, <1>8, <1>9, <1>10, <1>11, <1>12,
     <1>13, <1>14, <1>15, <1>16, <1>17 DEF HandlerStep

LEMMA JobKeeps ==
    ASSUME LifecycleInv, NEW o \in Ops, JobStep(o)
    PROVE  LifecycleInv'
<1> USE DEF Goto, Quiet, NoRows, schedVars, Forgetful
<1>1. CASE JobBegins(o)
  <2>1. pc[o] = "jobStart" /\ pc = [pc EXCEPT ![o] = "jobStart"]
    BY <1>1 DEF JobBegins, LifecycleInv, TypesOK
  <2>2. QED
    BY <1>1, <2>1, QuietMove DEF JobBegins, Moves
<1>2. CASE JobStart(o)
  BY <1>2, QuietMove DEF JobStart, Moves
<1>3. CASE JobCname(o)
  BY <1>3, QuietMove DEF JobCname, Moves
<1>4. CASE JobCert(o)
  BY <1>4, QuietMove DEF JobCert, Moves
<1>5. CASE JobAcme(o)
  BY <1>5, QuietMove DEF JobAcme, Moves
<1>6. CASE JobAbandons(o)
  BY <1>6, QuietMove DEF JobAbandons, Moves
<1>7. CASE JobTakesResult(o)
  <2>1. AfterResult(o) \in PCs
    BY <1>7 DEF JobTakesResult, AfterResult, AcmeResults
  <2>2. QED
    BY <1>7, <2>1, QuietMove DEF JobTakesResult, Moves
<1>8. CASE JobErr(o)
  BY <1>8, QuietMove DEF JobErr, Moves
<1>9. CASE JobCtx(o)
  BY <1>9, QuietMove DEF JobCtx, Moves
<1>10. CASE JobActive(o)
  BY <1>10, QuietMove DEF JobActive, Moves
<1>11. CASE JobSave(o)
  <2>1. Moves(o)
    BY <1>11 DEF JobSave, Moves
  <2>2. QED
    BY <1>11, <2>1, WritingMove
       DEF JobSave, Grows, LifecycleInv, TypesOK, RowConsistent
<1>12. CASE FailCheck(o)
  BY <1>12, QuietMove DEF FailCheck, Moves
<1>13. CASE FailCert(o)
  <2>1. pc[o] = "failCert" /\ DomainFor(o) = DomainOf[o]
    BY <1>13 DEF FailCert, DomainFor
  <2>2. pc' = [pc EXCEPT ![o] = IF pc[o] = "rbCert" THEN "rbWrite" ELSE "failSet"]
    BY <1>13, <2>1 DEF FailCert
  <2>3. Remember(o, "cert", cert[DomainFor(o)])
    BY <1>13, <2>1 DEF FailCert
  <2>4. QED
    BY <1>13, <2>1, <2>2, <2>3, RemembersCert DEF FailCert
<1>14. CASE FailSet(o)
  <2>1. Moves(o)
    BY <1>14 DEF FailSet, Moves
  <2>2. local[o].cert => cert[DomainOf[o]]
    BY DEF LifecycleInv, Backed, DomainFor
  <2>3. QED
    BY <1>14, <2>1, <2>2, WritingMove
       DEF FailSet, SetStatus, Grows, LifecycleInv, TypesOK, RowConsistent
<1>15. CASE CancelActive(o)
  BY <1>15, QuietMove DEF CancelActive, Moves
<1>16. CASE CancelInflight(o)
  BY <1>16, QuietMove DEF CancelInflight, Moves
<1>17. CASE JobReturns(o)
  <2>1. pc[o] \in PCs /\ pc = [pc EXCEPT ![o] = pc[o]]
    BY DEF LifecycleInv, TypesOK
  <2>2. Moves(o)
    BY <1>17, <2>1 DEF JobReturns, Moves
  <2>3. QED
    BY <1>17, <2>2, QuietMove DEF JobReturns
<1>18. QED
  BY <1>1, <1>2, <1>3, <1>4, <1>5, <1>6, <1>7, <1>8, <1>9, <1>10, <1>11, <1>12,
     <1>13, <1>14, <1>15, <1>16, <1>17 DEF JobStep

LEMMA RollbackKeeps ==
    ASSUME LifecycleInv, NEW p \in Procs, rollbackGeneratingDomain(p)
    PROVE  LifecycleInv'
<1> USE DEF Goto, Quiet, schedVars
<1>1. /\ DomainFor(p)' = DomainFor(p) /\ DomainFor(p) \in Domains
      /\ UNCHANGED <<current, lag>>
  BY DEF rollbackGeneratingDomain, RollbackRead, RollbackCert, RollbackWrite,
         DomainFor, LifecycleInv, SchedulerOK
<1>2. AfterRollback(p) \in PCs /\ (p = Scheduler => AfterRollback(p) = "clean")
  BY DEF AfterRollback
<1>3. local[p] \in Memory /\ Backed(p)
  BY DEF LifecycleInv, TypesOK
<1>4. CASE RollbackRead(p)
  <2> DEFINE seen == status[DomainFor(p)] = "generating" /\ verifiedAt[DomainFor(p)]
             to == IF status[DomainFor(p)] = "generating" THEN "rbCert" ELSE AfterRollback(p)
  <2>1. pc[p] = "rbRead" /\ pc' = [pc EXCEPT ![p] = to] /\ UNCHANGED rowVars
    BY <1>4 DEF RollbackRead
  <2>2. to \in PCs
    BY <1>2
  <2>3. pc' \in [Procs -> PCs] /\ pc'[p] = to /\ \A q \in Procs \ {p} : pc'[q] = pc[q]
    BY <2>1, <2>2 DEF LifecycleInv, TypesOK
  <2>4. [local[p] EXCEPT !["verified"] = seen] \in Memory
    BY <1>3 DEF Memory
  <2>5. local' = [local EXCEPT ![p] = [local[p] EXCEPT !["verified"] = seen]]
    BY <1>4 DEF RollbackRead, Remember
  <2>6. local' \in [Procs -> Memory] /\ \A q \in Procs \ {p} : local'[q] = local[q]
    BY <2>4, <2>5 DEF LifecycleInv, TypesOK
  <2>7. local'[p].cert = local[p].cert /\ local'[p].verified = seen
    BY <1>3, <2>5 DEF LifecycleInv, TypesOK, Memory
  <2>8. Backed(p)'
    <3>1. ~local[p].cert
      BY <1>3, <2>1 DEF Backed
    <3>2. seen => to = "rbCert" /\ verifiedAt[DomainFor(p)]
      OBVIOUS
    <3> HIDE DEF seen, to
    <3> QED BY <1>1, <2>1, <2>3, <2>7, <3>1, <3>2 DEF Backed, rowVars
  <2>9. \A q \in Procs : Backed(q)'
    BY <1>1, <2>1, <2>3, <2>6, <2>8, OthersBacked DEF Grows, rowVars
  <2>10. SchedulerOK'
    BY <1>1, <1>2, <2>1, <2>3 DEF LifecycleInv, SchedulerOK
  <2>11. QED
    BY <1>1, <2>1, <2>3, <2>6, <2>9, <2>10 DEF LifecycleInv, TypesOK, RowConsistent, rowVars
<1>5. CASE RollbackCert(p)
  BY <1>1, <1>5, RemembersCert DEF RollbackCert
<1>6. CASE RollbackWrite(p)
  <2>1. /\ pc' \in [Procs -> PCs] /\ pc'[p] = AfterRollback(p)
        /\ \A q \in Procs \ {p} : pc'[q] = pc[q]
    BY <1>2, <1>6 DEF RollbackWrite, LifecycleInv, TypesOK
  <2>2. /\ local' \in [Procs -> Memory] /\ local'[p] = Blank
        /\ \A q \in Procs \ {p} : local'[q] = local[q]
    BY <1>6, BlankMemory DEF RollbackWrite, Forget, LifecycleInv, TypesOK
  <2>3. Backed(p)'
    BY <2>2 DEF Backed, Blank
  <2>4. Grows /\ verifiedAt' \in [Domains -> BOOLEAN] /\ cert' \in [Domains -> BOOLEAN]
    BY <1>6 DEF RollbackWrite, SetStatus, Grows, LifecycleInv, TypesOK
  <2>5. \A q \in Procs : Backed(q)'
    BY <1>1, <2>1, <2>2, <2>3, <2>4, OthersBacked
  <2>6. /\ RolledBackStatus(p) \in {"active", "verified", "error"}
        /\ RolledBackStatus(p) = "active" => cert[DomainFor(p)]
        /\ RolledBackStatus(p) = "verified" => verifiedAt[DomainFor(p)]
    BY <1>3 DEF RolledBackStatus, Backed
  <2>7. /\ status' = [status EXCEPT ![DomainFor(p)] = RolledBackStatus(p)]
        /\ since' = [since EXCEPT ![DomainFor(p)] = Null]
        /\ UNCHANGED <<verifiedAt, cert>>
    BY <1>6 DEF RollbackWrite, SetStatus
  <2>8. /\ status' \in [Domains -> Statuses]
        /\ since' \in [Domains -> 0..MaxSince \union {Null}]
    BY <1>1, <2>6, <2>7 DEF LifecycleInv, TypesOK
  <2>9. RowConsistent'
    BY <1>1, <2>6, <2>7 DEF LifecycleInv, TypesOK, RowConsistent
  <2>10. SchedulerOK'
    BY <1>1, <1>2, <2>1 DEF LifecycleInv, SchedulerOK
  <2>11. QED
    BY <1>1, <2>1, <2>2, <2>4, <2>5, <2>8, <2>9, <2>10 DEF LifecycleInv, TypesOK
<1>7. QED
  BY <1>4, <1>5, <1>6 DEF rollbackGeneratingDomain

\* The scheduler in its own code: it remembers nothing, writes no row and takes
\* up a domain that exists.
LEMMA SchedulerMove ==
    ASSUME LifecycleInv, UNCHANGED <<rowVars, local, lag>>,
           Forgetful(Scheduler),
           NEW to \in {"idle", "rbRead"} \union SchedulerPCs,
           pc' = [pc EXCEPT ![Scheduler] = to],
           to \in {"cleanCancel", "cleanWait", "stuck"} \union RollbackPCs
                => current' \in Domains
    PROVE  LifecycleInv'
<1>1. /\ pc' \in [Procs -> PCs] /\ pc'[Scheduler] = to
      /\ \A q \in Ops : pc'[q] = pc[q]
  BY DEF LifecycleInv, TypesOK
<1>2. Backed(Scheduler)'
  BY NothingKept DEF Backed
<1>3. \A q \in Ops : Backed(q)'
  BY <1>1 DEF LifecycleInv, Backed, DomainFor, rowVars
<1>4. SchedulerOK'
  BY <1>1 DEF SchedulerOK
<1>5. QED
  BY <1>1, <1>2, <1>3, <1>4 DEF LifecycleInv, TypesOK, RowConsistent, rowVars

LEMMA SchedulerKeeps ==
    ASSUME LifecycleInv, SchedulerStep
    PROVE  LifecycleInv'
<1> USE DEF SchedGoto, Goto, NoSchedEffect, Forgetful, schedVars
<1>1. CASE ScanQuery
  BY <1>1, SchedulerMove DEF ScanQuery
<1>2. CASE ScanSkip
  <2>1. pc' = [pc EXCEPT ![Scheduler] = "scan"] /\ pc[Scheduler] = "scan"
    BY <1>2 DEF ScanSkip, LifecycleInv, TypesOK
  <2>2. QED
    BY <1>2, <2>1, SchedulerMove DEF ScanSkip
<1>3. CASE ScanResume
  BY <1>3, SchedulerMove DEF ScanResume
<1>4. CASE RoundEnds
  BY <1>4, SchedulerMove DEF RoundEnds
<1>5. ASSUME NEW o \in Ops, ScanStart(o) PROVE LifecycleInv'
  <2>1. /\ pc' \in [Procs -> PCs] /\ pc'[Scheduler] = "scanOp" /\ pc'[o] = "cname"
        /\ \A q \in Ops \ {o} : pc'[q] = pc[q]
        /\ UNCHANGED <<rowVars, local, lag>>
    BY <1>5 DEF ScanStart, LifecycleInv, TypesOK
  <2>2. Backed(Scheduler)' /\ Backed(o)'
    BY <1>5, <2>1, NothingKept DEF ScanStart, Backed
  <2>3. \A q \in Ops \ {o} : Backed(q)'
    BY <2>1 DEF LifecycleInv, Backed, DomainFor, rowVars
  <2>4. SchedulerOK'
    BY <2>1 DEF SchedulerOK
  <2>5. QED
    BY <2>1, <2>2, <2>3, <2>4 DEF LifecycleInv, TypesOK, RowConsistent, rowVars
<1>6. ASSUME NEW d \in Domains, CleanupPick(d) PROVE LifecycleInv'
  BY <1>6, SchedulerMove DEF CleanupPick
<1>7. CASE CleanupCancel
  BY <1>7, SchedulerMove DEF CleanupCancel, LifecycleInv, SchedulerOK
<1>8. CASE CleanupWait
  BY <1>8, SchedulerMove DEF CleanupWait, LifecycleInv, SchedulerOK
<1>9. CASE rollbackStuckGenerating
  BY <1>9, SchedulerMove DEF rollbackStuckGenerating, LifecycleInv, SchedulerOK
<1>10. CASE rollbackGeneratingDomain(Scheduler)
  BY <1>10, RollbackKeeps
<1>11. QED
  BY <1>1, <1>2, <1>3, <1>4, <1>5, <1>6, <1>7, <1>8, <1>9, <1>10 DEF SchedulerStep

LEMMA TimeKeeps ==
    ASSUME LifecycleInv, TimePasses
    PROVE  LifecycleInv'
<1>1. /\ UNCHANGED <<status, verifiedAt, cert, pc, local, current>>
      /\ since' = [d \in Domains |->
            IF since[d] = Null THEN Null ELSE OlderUpTo(MaxSince, since[d])]
      /\ lag' = [o \in Ops |-> IF pc[o] \in LockWindow THEN lag[o] + 1 ELSE lag[o]]
      /\ \A o \in Ops : pc[o] \in LockWindow => lag[o] < MaxLag
  BY DEF TimePasses, schedVars
<1>2. \A d \in Domains : since[d] \in 0..MaxSince \union {Null}
  BY DEF LifecycleInv, TypesOK
<1>3. \A d \in Domains :
        since[d] # Null => OlderUpTo(MaxSince, since[d]) \in 0..MaxSince
  BY <1>2 DEF OlderUpTo
<1>4. since' \in [Domains -> 0..MaxSince \union {Null}]
  BY <1>1, <1>3
<1>5. lag' \in [Ops -> 0..MaxLag]
  BY <1>1 DEF LifecycleInv, TypesOK
<1>6. \A d \in Domains : since[d] # Null => since'[d] # Null
  BY <1>1, <1>3
<1>7. RowConsistent'
  BY <1>1, <1>6 DEF LifecycleInv, RowConsistent
<1>8. (\A p \in Procs : Backed(p)') /\ SchedulerOK'
  BY <1>1 DEF LifecycleInv, Backed, DomainFor, SchedulerOK
<1>9. QED
  BY <1>1, <1>4, <1>5, <1>7, <1>8 DEF LifecycleInv, TypesOK

LEMMA CrashKeeps ==
    ASSUME LifecycleInv, Crash
    PROVE  LifecycleInv'
<1>1. pc' \in [Procs -> PCs] /\ pc'[Scheduler] = "idle" /\ lag' \in [Ops -> 0..MaxLag]
  BY DEF Crash
<1>2. local' \in [Procs -> Memory] /\ \A p \in Procs : local'[p] = Blank
  BY BlankMemory DEF Crash
<1>3. (\A p \in Procs : Backed(p)') /\ SchedulerOK'
  BY <1>1, <1>2 DEF Backed, Blank, SchedulerOK
<1>4. UNCHANGED rowVars
  BY DEF Crash
<1>5. QED
  BY <1>1, <1>2, <1>3, <1>4 DEF LifecycleInv, TypesOK, RowConsistent, rowVars

LEMMA FaultKeeps ==
    ASSUME LifecycleInv, NEW p \in Procs, StatementFails(p)
    PROVE  LifecycleInv'
<1>1. /\ pc[p] \in FaultPCs /\ pc' = [pc EXCEPT ![p] = AfterFault(p)]
      /\ UNCHANGED <<rowVars, lag, current>>
      /\ IF pc[p] \in {"exists", "rbCert"} THEN UNCHANGED local ELSE Forget(p)
  BY DEF StatementFails, schedVars
<1>2. AfterFault(p) \in PCs
  BY <1>1 DEF AfterFault, AfterRollback, FaultPCs
<1>3. pc[p] = "rbCert" => AfterFault(p) = "rbWrite"
  BY DEF AfterFault
<1>4. p = Scheduler => pc[p] \in RollbackPCs /\ AfterFault(p) \in {"clean", "rbWrite"}
  BY <1>1 DEF LifecycleInv, SchedulerOK, FaultPCs, AfterFault, AfterRollback
<1>5. /\ pc' \in [Procs -> PCs] /\ pc'[p] = AfterFault(p)
      /\ \A q \in Procs \ {p} : pc'[q] = pc[q]
  BY <1>1, <1>2 DEF LifecycleInv, TypesOK
<1>6. local' \in [Procs -> Memory] /\ \A q \in Procs \ {p} : local'[q] = local[q]
  BY <1>1, BlankMemory DEF LifecycleInv, TypesOK, Forget
<1>7. Backed(p)'
  <2>1. CASE pc[p] \in {"exists", "rbCert"}
    <3>1. Backed(p) /\ local'[p] = local[p] /\ DomainFor(p)' = DomainFor(p)
      BY <1>1, <2>1 DEF LifecycleInv, DomainFor
    <3>2. QED
      BY <1>1, <1>3, <1>5, <2>1, <3>1 DEF Backed, rowVars
  <2>2. CASE pc[p] \notin {"exists", "rbCert"}
    BY <1>1, <2>2 DEF Forget, LifecycleInv, TypesOK, Backed, Blank
  <2>3. QED
    BY <2>1, <2>2
<1>8. \A q \in Procs : Backed(q)'
  BY <1>1, <1>5, <1>6, <1>7, OthersBacked DEF Grows, rowVars
<1>9. SchedulerOK'
  BY <1>1, <1>4, <1>5 DEF LifecycleInv, SchedulerOK
<1>10. QED
  BY <1>1, <1>5, <1>6, <1>8, <1>9 DEF LifecycleInv, TypesOK, RowConsistent, rowVars

LEMMA LifecycleStep == LifecycleInv /\ [Next]_vars => LifecycleInv'
<1> SUFFICES ASSUME LifecycleInv, [Next]_vars PROVE LifecycleInv'
  OBVIOUS
<1> USE DEF Goto, Forgetful
<1>1. ASSUME NEW o \in Ops, NEW k \in UserKinds, Arrive(o, k) PROVE LifecycleInv'
  BY <1>1, QuietMove DEF Arrive, Moves, schedVars
<1>2. ASSUME NEW o \in Ops, OpStep(o) PROVE LifecycleInv'
  BY <1>2, HandlerKeeps, JobKeeps, RollbackKeeps DEF OpStep
<1>3. ASSUME NEW o \in Ops, AcmeStart(o) \/ AcmeReturn(o) PROVE LifecycleInv'
  <2>1. UNCHANGED <<rowVars, pc, local, lag, schedVars>>
    BY <1>3 DEF AcmeStart, AcmeReturn, AcmeGoto
  <2>2. QED
    BY <2>1 DEF LifecycleInv, TypesOK, RowConsistent, Backed, DomainFor, SchedulerOK,
                rowVars, schedVars
<1>4. CASE SchedulerStep
  BY <1>4, SchedulerKeeps
<1>5. CASE CleanupQuery
  BY <1>5, SchedulerMove DEF CleanupQuery, SchedGoto, NoSchedEffect
<1>6. ASSUME NEW d \in VerifyDomains, VerifyCname(d) PROVE LifecycleInv'
  <2>1. UNCHANGED <<pc, local, lag, current>>
    BY <1>6 DEF VerifyCname, schedVars
  <2>2. /\ TypesOK' /\ RowConsistent' /\ SchedulerOK'
    BY <1>6, <2>1 DEF VerifyCname, MarkVerified, LifecycleInv, TypesOK, RowConsistent, SchedulerOK
  <2>3. Grows
    BY <1>6 DEF VerifyCname, MarkVerified, Grows, LifecycleInv, TypesOK
  <2>4. ASSUME NEW p \in Procs PROVE Backed(p)'
    BY <2>1, <2>3 DEF LifecycleInv, SchedulerOK, Backed, DomainFor, Grows
  <2>5. QED
    BY <2>2, <2>4 DEF LifecycleInv
<1>7. CASE TimePasses
  BY <1>7, TimeKeeps
<1>8. CASE Crash
  BY <1>8, CrashKeeps
<1>9. ASSUME NEW p \in Procs, StatementFails(p) PROVE LifecycleInv'
  BY <1>9, FaultKeeps
<1>10. CASE UNCHANGED vars
  BY <1>10 DEF vars, LifecycleInv, TypesOK, RowConsistent, Backed, DomainFor, SchedulerOK,
               rowVars, schedVars
<1>11. QED
  BY <1>1, <1>2, <1>3, <1>4, <1>5, <1>6, <1>7, <1>8, <1>9, <1>10 DEF Next

\* Every reachable state satisfies the invariant.
THEOREM LifecycleInvariant == Spec => []LifecycleInv
BY LifecycleInit, LifecycleStep, PTL DEF Spec

\* Whatever the interleaving of handlers, jobs, scheduler, crashes and failing
\* statements, an active domain has a certificate, a verified one has its
\* cname_verified_at, and a generating one the generating_since by which the
\* cleanup finds it.
THEOREM RowsAreConsistent == Spec => []RowConsistent
BY LifecycleInvariant, PTL DEF LifecycleInv

-----------------------------------------------------------------------------
(* The rows keep the promise of DomainRow.  Six updates change what it      *)
(* shows of a row, each in a way it allows.                                 *)

RowsSame == UNCHANGED <<status, verifiedAt, cert>>

\* Row d is reset to a status that its columns back.
LEMMA ResetIsRowStep ==
    ASSUME NEW d \in Domains, NEW st \in {"active", "verified", "error"},
           st = "active" => cert[d], st = "verified" => verifiedAt[d], SetStatus(d, st)
    PROVE  Row!Next
<1>1. Row!Reset(d)
  BY DEF SetStatus, Row!Reset, Row!Backs, Row!SetStatus
<1> QED BY <1>1 DEF Row!Next

LEMMA MarkIsRowStep == ASSUME NEW d \in Domains, MarkVerified(d) PROVE Row!Next
<1>1. Row!Verify(d)
  BY DEF MarkVerified, Row!Verify, Row!SetStatus
<1> QED BY <1>1 DEF Row!Next

LEMMA HandlerRowStep ==
    ASSUME LifecycleInv, NEW o \in Ops, HandlerStep(o)
    PROVE  RowsSame \/ Row!Next
<1>1. DomainOf[o] \in Domains
  OBVIOUS
<1>2. CASE markDomainCnameVerified(o)
  BY <1>1, <1>2, MarkIsRowStep DEF markDomainCnameVerified
<1>3. CASE LockCas(o)
  <2>1. CASE LockFree(DomainOf[o], lag[o])
    <3>1. Row!Lock(DomainOf[o])
      BY <1>3, <2>1 DEF LockCas, Row!Lock, Row!SetStatus
    <3> QED BY <1>1, <3>1 DEF Row!Next
  <2>2. CASE ~LockFree(DomainOf[o], lag[o])
    BY <1>3, <2>2 DEF LockCas, RowsSame
  <2> QED BY <2>1, <2>2
<1>4. CASE LockUserMissing(o)
  BY <1>1, <1>4, ResetIsRowStep DEF LockUserMissing
<1>5. CASE RowsSame
  BY <1>5
<1> QED BY <1>2, <1>3, <1>4, <1>5
    DEF HandlerStep, LoadDomain, CheckExisting, CnameHolds, Refuse, RecheckExisting,
        LockNeedsCert, LockRead, LockInflight, LockCancel, LockWait, LockUser, TakeSlot, NoSlot,
        StartCertJob, Quiet, NoRows, rowVars, RowsSame

LEMMA JobRowStep ==
    ASSUME LifecycleInv, NEW o \in Ops, JobStep(o)
    PROVE  RowsSame \/ Row!Next
<1>1. DomainOf[o] \in Domains
  OBVIOUS
<1>2. CASE JobSave(o)
  <2>1. Row!Save(DomainOf[o])
    BY <1>2 DEF JobSave, Row!Save, Row!SetStatus
  <2> QED BY <1>1, <2>1 DEF Row!Next
<1>3. CASE FailSet(o)
  <2>1. local[o].cert => cert[DomainOf[o]]
    BY DEF LifecycleInv, Backed, DomainFor
  <2> QED BY <1>1, <1>3, <2>1, ResetIsRowStep DEF FailSet
<1>4. CASE RowsSame
  BY <1>4
<1> QED BY <1>2, <1>3, <1>4
    DEF JobStep, JobBegins, JobStart, JobCname, JobCert, JobAcme, JobAbandons, JobTakesResult,
        JobErr, JobCtx, JobActive, FailCheck, FailCert, CancelActive, CancelInflight, JobReturns,
        Quiet, NoRows, rowVars, RowsSame

\* What a rollback read two statements ago still backs the status it writes.
LEMMA RollbackRowStep ==
    ASSUME LifecycleInv, NEW p \in Procs, rollbackGeneratingDomain(p)
    PROVE  RowsSame \/ Row!Next
<1>1. CASE RollbackWrite(p)
  <2>1. DomainFor(p) \in Domains
    BY <1>1 DEF RollbackWrite, Goto, DomainFor, LifecycleInv, SchedulerOK
  <2>2. /\ RolledBackStatus(p) \in {"active", "verified", "error"}
        /\ RolledBackStatus(p) = "active" => cert[DomainFor(p)]
        /\ RolledBackStatus(p) = "verified" => verifiedAt[DomainFor(p)]
    BY DEF LifecycleInv, Backed, RolledBackStatus
  <2> QED BY <1>1, <2>1, <2>2, ResetIsRowStep DEF RollbackWrite
<1>2. CASE RollbackRead(p) \/ RollbackCert(p)
  BY <1>2 DEF RollbackRead, RollbackCert, Quiet, rowVars, RowsSame
<1> QED BY <1>1, <1>2 DEF rollbackGeneratingDomain

LEMMA RowStep == LifecycleInv /\ [Next]_vars => [Row!Next]_Row!rowVars
<1> SUFFICES ASSUME LifecycleInv, [Next]_vars PROVE RowsSame \/ Row!Next
  BY DEF RowsSame, Row!rowVars
<1>1. ASSUME NEW o \in Ops, OpStep(o) PROVE RowsSame \/ Row!Next
  BY <1>1, HandlerRowStep, JobRowStep, RollbackRowStep DEF OpStep
<1>2. ASSUME NEW o \in Ops, AcmeStart(o) \/ AcmeReturn(o) \/ \E k \in UserKinds : Arrive(o, k)
      PROVE  RowsSame
  BY <1>2 DEF AcmeStart, AcmeReturn, AcmeGoto, Arrive, rowVars, RowsSame
<1>3. CASE SchedulerStep \/ CleanupQuery
  BY <1>3, RollbackRowStep
  DEF SchedulerStep, CleanupQuery, ScanQuery, ScanSkip, ScanStart, ScanResume, RoundEnds,
      CleanupPick, CleanupCancel, CleanupWait, rollbackStuckGenerating, NoSchedEffect, rowVars,
      RowsSame
<1>4. ASSUME NEW d \in VerifyDomains, VerifyCname(d) PROVE Row!Next
  BY <1>4, MarkIsRowStep DEF VerifyCname
<1>5. CASE TimePasses \/ Crash \/ (\E p \in Procs : StatementFails(p)) \/ UNCHANGED vars
  BY <1>5 DEF TimePasses, Crash, StatementFails, vars, rowVars, RowsSame
<1> QED BY <1>1, <1>2, <1>3, <1>4, <1>5 DEF Next

LEMMA RowInit == Init => Row!Init
<1> SUFFICES ASSUME Init PROVE Row!Init
  OBVIOUS
<1>1. LifecycleInv
  BY LifecycleInit
<1> QED BY <1>1 DEF LifecycleInv, TypesOK, RowConsistent, Row!Init, Row!Statuses, Row!Backs

\* Certificate operations implement DomainRow: whatever the interleaving, with
\* crashes, failing statements and cname/verify at any time, a row is reset only
\* to a status it backs at that moment, no certificate and no verification is
\* taken back, and no row returns to pending.
THEOREM LifecycleImplementsDomainRow == Spec => RowSpec
BY RowInit, RowStep, LifecycleInvariant, PTL DEF Spec, RowSpec, Row!Spec

-----------------------------------------------------------------------------
(* The composition drives the registry only through the registry's steps. *)

LEMMA HandlerIsRegistryStep ==
    ASSUME NEW o \in Ops, HandlerStep(o)
    PROVE  [RegistryNext]_registryVars
<1>1. CASE LockCancel(o)
  BY <1>1 DEF LockCancel, RegistryNext
<1>2. CASE TakeSlot(o)
  BY <1>2 DEF TakeSlot, RegistryNext, CallerStep
<1>3. CASE StartCertJob(o)
  BY <1>3 DEF StartCertJob, RegistryNext, CallerStep
<1>4. CASE UNCHANGED registryVars
  BY <1>4
<1>5. QED
  BY <1>1, <1>2, <1>3, <1>4
  DEF HandlerStep, LoadDomain, CheckExisting, CnameHolds, Refuse, RecheckExisting,
      markDomainCnameVerified, LockNeedsCert, LockRead, LockInflight, LockWait, LockCas,
      LockUser, LockUserMissing, NoSlot, Quiet

LEMMA JobIsRegistryStep ==
    ASSUME NEW o \in Ops, JobStep(o)
    PROVE  [RegistryNext]_registryVars
<1>1. CASE JobBegins(o)
  BY <1>1 DEF JobBegins, RegistryNext, WorkerStep
<1>2. CASE JobReturns(o)
  BY <1>2 DEF JobReturns, RegistryNext, WorkerStep
<1>3. CASE UNCHANGED registryVars
  BY <1>3
<1>4. QED
  BY <1>1, <1>2, <1>3
  DEF JobStep, JobStart, JobCname, JobCert, JobAcme, JobAbandons, JobTakesResult, JobErr,
      JobCtx, JobActive, JobSave, FailCheck, FailCert, FailSet, CancelActive,
      CancelInflight, Quiet

LEMMA RegistryStep == LifecycleInv /\ [Next]_vars => [RegistryNext]_registryVars
<1> SUFFICES ASSUME LifecycleInv, [Next]_vars PROVE [RegistryNext]_registryVars
  OBVIOUS
<1>1. ASSUME NEW p \in Procs, rollbackGeneratingDomain(p) PROVE UNCHANGED registryVars
  BY <1>1 DEF rollbackGeneratingDomain, RollbackRead, RollbackCert, RollbackWrite, Quiet
<1>2. ASSUME NEW o \in Ops, OpStep(o) PROVE [RegistryNext]_registryVars
  BY <1>1, <1>2, HandlerIsRegistryStep, JobIsRegistryStep DEF OpStep
<1>3. CASE SchedulerStep
  <2>1. CASE CleanupCancel
    <3>1. current \in Domains
      BY <2>1 DEF CleanupCancel, SchedGoto, Goto, LifecycleInv, SchedulerOK
    <3>2. QED
      BY <2>1, <3>1 DEF CleanupCancel, RegistryNext
  <2>2. CASE UNCHANGED registryVars
    BY <2>2
  <2>3. QED
    BY <1>1, <1>3, <2>1, <2>2
    DEF SchedulerStep, ScanQuery, ScanSkip, ScanResume, RoundEnds, ScanStart, CleanupPick,
        CleanupWait, rollbackStuckGenerating
<1>4. CASE TimePasses
  BY <1>4 DEF TimePasses, RegistryNext
<1>5. CASE Crash
  BY <1>5 DEF Crash, RegistryNext
<1>6. CASE UNCHANGED registryVars
  BY <1>6
<1>7. QED
  BY <1>2, <1>3, <1>4, <1>5, <1>6
  DEF Next, Arrive, AcmeStart, AcmeReturn, AcmeGoto, CleanupQuery, VerifyCname,
      StatementFails, vars

\* Handlers, jobs and the scheduler use the semaphore, the registry and the
\* trackers in the order CertJobRegistry allows: the composition implements it.
THEOREM LifecycleImplementsRegistry == Spec => RegistrySpec
<1>1. Init => RegistryInit
  BY DEF Init
<1>2. QED
  BY <1>1, RegistryStep, LifecycleInvariant, PTL DEF Spec, RegistrySpec

\* So what is proved of the registry holds of the whole program: slots are
\* balanced, entries are owned and workers are counted.
THEOREM RegistryHoldsInLifecycle ==
    Spec => [](SlotsBalanced /\ RegistryOwned /\ WorkersCounted)
BY LifecycleImplementsRegistry, RegistryInvariant, PTL DEF RegistryInv

-----------------------------------------------------------------------------
(* Type correctness *)

\* What TypeOK says beyond RegistryTypeOK and TypesOK.  Only a scan starts an
\* automatic renewal, and it runs only where those occur.
RestOK ==
    /\ kind \in [Ops -> Kinds \union {"none"}]
    /\ timer \in [Procs -> 0..GeneratingTimeout]
    /\ acme \in [Ops -> {"none", "launched", "running"} \union AcmeResults]
    /\ todo \subseteq Domains
    /\ current \in Domains \union Ops \union {Null}
    /\ crashes \in 0..MaxCrashes
    /\ faults \in 0..MaxFaults
    /\ pc[Scheduler] \in {"scan", "scanOp"} => "auto" \in Kinds

LEMMA RestInit == Init => RestOK
BY DEF Init, RestOK

\* A step of an operation that leaves all of this alone.
LEMMA RestKept ==
    ASSUME RestOK, UNCHANGED <<kind, timer, acme, schedVars, envVars>>,
           pc'[Scheduler] = pc[Scheduler]
    PROVE  RestOK'
BY DEF RestOK, schedVars, envVars

LEMMA RestHandler ==
    ASSUME LifecycleInv, RestOK, NEW o \in Ops, HandlerStep(o)
    PROVE  RestOK'
<1> USE DEF Goto
<1>1. pc \in [Procs -> PCs] /\ o # Scheduler
  BY DEF LifecycleInv, TypesOK
<1>2. pc'[Scheduler] = pc[Scheduler]
  BY <1>1
  DEF HandlerStep, LoadDomain, CheckExisting, CnameHolds, Refuse, RecheckExisting,
      markDomainCnameVerified, LockNeedsCert, LockRead, LockInflight, LockCancel, LockWait,
      LockCas, LockUser, LockUserMissing, TakeSlot, NoSlot, StartCertJob
<1>3. CASE LockCancel(o) \/ LockWait(o)
  BY <1>2, <1>3 DEF LockCancel, LockWait, RestOK, schedVars, envVars
<1>4. CASE UNCHANGED <<kind, timer, acme, schedVars, envVars>>
  BY <1>2, <1>4, RestKept
<1>5. QED
  BY <1>3, <1>4
  DEF HandlerStep, LoadDomain, CheckExisting, CnameHolds, Refuse, RecheckExisting,
      markDomainCnameVerified, LockNeedsCert, LockRead, LockInflight, LockCas, LockUser,
      LockUserMissing, TakeSlot, NoSlot, StartCertJob, Quiet, NoRows

LEMMA RestJob ==
    ASSUME LifecycleInv, RestOK, NEW o \in Ops, JobStep(o)
    PROVE  RestOK'
<1> USE DEF Goto
<1>1. pc \in [Procs -> PCs] /\ o # Scheduler
  BY DEF LifecycleInv, TypesOK
<1>2. pc'[Scheduler] = pc[Scheduler]
  BY <1>1
  DEF JobStep, JobBegins, JobStart, JobCname, JobCert, JobAcme, JobAbandons, JobTakesResult,
      JobErr, JobCtx, JobActive, JobSave, FailCheck, FailCert, FailSet, CancelActive,
      CancelInflight, JobReturns
<1>3. CASE JobAcme(o) \/ JobTakesResult(o)
  BY <1>2, <1>3 DEF JobAcme, JobTakesResult, RestOK, schedVars, envVars
<1>4. CASE UNCHANGED <<kind, timer, acme, schedVars, envVars>>
  BY <1>2, <1>4, RestKept
<1>5. QED
  BY <1>3, <1>4
  DEF JobStep, JobBegins, JobStart, JobCname, JobCert, JobAbandons, JobErr, JobCtx,
      JobActive, JobSave, FailCheck, FailCert, FailSet, CancelActive, CancelInflight,
      JobReturns, Quiet, NoRows

LEMMA RestRollback ==
    ASSUME LifecycleInv, RestOK, NEW p \in Procs, rollbackGeneratingDomain(p)
    PROVE  RestOK'
<1>1. /\ pc'[Scheduler] = pc[Scheduler] \/ pc'[Scheduler] \notin {"scan", "scanOp"}
      /\ UNCHANGED <<kind, timer, acme, schedVars, envVars>>
  BY DEF LifecycleInv, TypesOK, rollbackGeneratingDomain, RollbackRead, RollbackCert,
         RollbackWrite, AfterRollback, Goto, Quiet
<1>2. QED
  BY <1>1 DEF RestOK, schedVars, envVars

LEMMA RestScheduler ==
    ASSUME LifecycleInv, RestOK, SchedulerStep \/ CleanupQuery
    PROVE  RestOK'
<1> USE DEF SchedGoto, Goto, NoSchedEffect, envVars
<1>1. pc \in [Procs -> PCs]
  BY DEF LifecycleInv, TypesOK
<1>2. CASE ScanQuery
  BY <1>1, <1>2 DEF ScanQuery, RestOK
<1>3. CASE ScanSkip
  BY <1>1, <1>3 DEF ScanSkip, RestOK
<1>4. CASE ScanResume
  BY <1>1, <1>4 DEF ScanResume, RestOK
<1>5. CASE RoundEnds
  BY <1>1, <1>5 DEF RoundEnds, RestOK
<1>6. ASSUME NEW o \in Ops, ScanStart(o) PROVE RestOK'
  BY <1>1, <1>6 DEF ScanStart, RestOK
<1>7. ASSUME NEW d \in Domains, CleanupPick(d) PROVE RestOK'
  BY <1>1, <1>7 DEF CleanupPick, RestOK
<1>8. CASE CleanupCancel \/ CleanupWait \/ rollbackStuckGenerating
  BY <1>1, <1>8 DEF CleanupCancel, CleanupWait, rollbackStuckGenerating, RestOK, schedVars
<1>9. CASE rollbackGeneratingDomain(Scheduler)
  BY <1>9, RestRollback
<1>10. CASE CleanupQuery
  BY <1>1, <1>10 DEF CleanupQuery, RestOK
<1>11. QED
  BY <1>2, <1>3, <1>4, <1>5, <1>6, <1>7, <1>8, <1>9, <1>10 DEF SchedulerStep

LEMMA RestStep == LifecycleInv /\ RestOK /\ [Next]_vars => RestOK'
<1> SUFFICES ASSUME LifecycleInv, RestOK, [Next]_vars PROVE RestOK'
  OBVIOUS
<1> USE DEF Goto
<1>1. pc \in [Procs -> PCs]
  BY DEF LifecycleInv, TypesOK
<1>2. ASSUME NEW o \in Ops, NEW k \in UserKinds, Arrive(o, k) PROVE RestOK'
  BY <1>1, <1>2 DEF Arrive, UserKinds, RestOK, schedVars, envVars
<1>3. ASSUME NEW o \in Ops, OpStep(o) PROVE RestOK'
  BY <1>3, RestHandler, RestJob, RestRollback DEF OpStep
<1>4. ASSUME NEW o \in Ops, AcmeStart(o) \/ AcmeReturn(o) PROVE RestOK'
  BY <1>4 DEF AcmeStart, AcmeReturn, AcmeGoto, Delivered, AcmeResults, RestOK, schedVars, envVars
<1>5. CASE SchedulerStep \/ CleanupQuery
  BY <1>5, RestScheduler
<1>6. ASSUME NEW d \in VerifyDomains, VerifyCname(d) PROVE RestOK'
  BY <1>6, RestKept DEF VerifyCname
<1>7. CASE TimePasses
  BY <1>7 DEF TimePasses, OlderUpTo, RestOK, schedVars, envVars
<1>8. CASE Crash
  BY <1>8 DEF Crash, RestOK
<1>9. ASSUME NEW p \in Procs, StatementFails(p) PROVE RestOK'
  <2>1. pc'[Scheduler] = pc[Scheduler] \/ pc'[Scheduler] \notin {"scan", "scanOp"}
    BY <1>1, <1>9 DEF StatementFails, AfterFault, AfterRollback, FaultPCs
  <2>2. QED
    BY <1>9, <2>1 DEF StatementFails, RestOK, schedVars, envVars
<1>10. CASE UNCHANGED vars
  BY <1>10, RestKept DEF vars
<1>11. QED
  BY <1>2, <1>3, <1>4, <1>5, <1>6, <1>7, <1>8, <1>9, <1>10 DEF Next

\* Type correctness of the whole: locks are never older, and the lock window
\* never longer, than the model's clock bounds say, and slots stay in range.
THEOREM LifecycleTypeCorrect == Spec => []TypeOK
<1>1. LifecycleInv /\ RegistryInv /\ RestOK => TypeOK
  BY DEF LifecycleInv, TypesOK, RegistryInv, RestOK, TypeOK, Memory
<1>2. QED
  BY <1>1, RestInit, RestStep, LifecycleInvariant, LifecycleImplementsRegistry,
     RegistryInvariant, PTL DEF Spec

-----------------------------------------------------------------------------
(* No late write *)

LEMMA BegunStays ==
    ASSUME RegistryInv, [RegistryNext]_registryVars, NEW o \in Ops, Begun(o)
    PROVE  Begun(o)'
<1>1. ASSUME NEW p \in Ops, NEW from \in Phases, NEW to \in Phases \ {"idle"},
             Advance(p, from, to),
             to \in {"slotted", "waiting", "waited"} => from \in {"idle", "slotted", "waiting"}
      PROVE  Begun(o)'
  BY <1>1 DEF Begun, Advance, RegistryInv, RegistryTypeOK, Phases
<1>2. CASE Restart
  BY <1>2 DEF Restart, Begun
<1>3. CASE UNCHANGED phase
  BY <1>3 DEF Begun
<1>4. QED
  BY <1>1, <1>2, <1>3
  DEF RegistryNext, CallerStep, WorkerStep, TryAcquireCertJobSlot, BeginCancel, WaitReturns,
      Register, Spawn, BeginDomainWorker, ReleaseCertJobSlot, EndJob, JobDone, WorkerDone,
      CancelCertJob, CancelAllCertJobs, Tick, registryVars, Phases

\* Only a job that isCertJobActive has just accepted comes to write.
LEMMA WriteIsChecked ==
    ASSUME LifecycleInv, [Next]_vars, NEW o \in Ops, ~isCertJobActive(o),
           pc[o] \notin WritePCs
    PROVE  pc'[o] \notin WritePCs
<1> USE DEF WritePCs, Goto
<1>1. pc \in [Procs -> PCs]
  BY DEF LifecycleInv, TypesOK
<1>2. ASSUME NEW p \in Procs, NEW to \in PCs \ WritePCs, pc' = [pc EXCEPT ![p] = to]
      PROVE  pc'[o] \notin WritePCs
  BY <1>1, <1>2
<1>3. ASSUME NEW p \in Ops, HandlerStep(p) PROVE pc'[o] \notin WritePCs
  BY <1>2, <1>3, <1>1
  DEF HandlerStep, LoadDomain, CheckExisting, CnameHolds, Refuse, RecheckExisting,
      markDomainCnameVerified, LockNeedsCert, LockRead, LockInflight, LockCancel, LockWait,
      LockCas, LockUser, LockUserMissing, TakeSlot, NoSlot, StartCertJob
<1>4. ASSUME NEW p \in Ops, JobStep(p) PROVE pc'[o] \notin WritePCs
  <2>1. CASE JobActive(p) \/ FailCheck(p)
    BY <1>1, <2>1 DEF JobActive, FailCheck
  <2>2. CASE FailCert(p) \/ FailSet(p) \/ JobSave(p)
    BY <1>1, <2>2 DEF FailCert, FailSet, JobSave
  <2>3. CASE JobTakesResult(p)
    BY <1>1, <2>3 DEF JobTakesResult, AfterResult, AcmeResults
  <2>4. QED
    BY <1>2, <1>4, <1>1, <2>1, <2>2, <2>3
    DEF JobStep, JobBegins, JobStart, JobCname, JobCert, JobAcme, JobAbandons, JobErr,
        JobCtx, CancelActive, CancelInflight, JobReturns
<1>5. ASSUME NEW p \in Procs, rollbackGeneratingDomain(p) PROVE pc'[o] \notin WritePCs
  BY <1>1, <1>5
  DEF rollbackGeneratingDomain, RollbackRead, RollbackCert, RollbackWrite, AfterRollback
<1>6. CASE SchedulerStep
  BY <1>1, <1>5, <1>6
  DEF SchedulerStep, ScanQuery, ScanSkip, ScanResume, RoundEnds, ScanStart, CleanupPick,
      CleanupCancel, CleanupWait, rollbackStuckGenerating, SchedGoto
<1>7. ASSUME NEW p \in Procs, StatementFails(p) PROVE pc'[o] \notin WritePCs
  BY <1>1, <1>7 DEF StatementFails, AfterFault, AfterRollback, FaultPCs
<1>8. CASE Crash
  BY <1>8 DEF Crash
<1>9. CASE UNCHANGED pc
  BY <1>9
<1>10. QED
  BY <1>1, <1>3, <1>4, <1>5, <1>6, <1>7, <1>8, <1>9
  DEF Next, OpStep, Arrive, AcmeStart, AcmeReturn, AcmeGoto, CleanupQuery, SchedGoto,
      VerifyCname, TimePasses, vars

\* A job cancelled, superseded or out of time before its last check never writes
\* an outcome, whatever its detached ACME call brings back and whenever.
THEOREM NoJobWritesLate == Spec => NoLateWrite
<1>1. ASSUME LifecycleInv, RegistryInv, [Next]_vars, NEW o \in Ops, Refused(o)
      PROVE  Refused(o)'
  BY <1>1, RegistryStep, BegunStays, InactiveStep, WriteIsChecked DEF Refused
<1>2. LifecycleInv /\ RegistryInv /\ [Next]_vars
        => [\A o \in Ops : Refused(o) => Refused(o)']_vars
  BY <1>1
<1>3. QED
  BY <1>2, LifecycleInvariant, LifecycleImplementsRegistry, RegistryInvariant, PTL
  DEF Spec, NoLateWrite

-----------------------------------------------------------------------------
(* The lock excludes, where nothing takes long enough to time out and only  *)
(* a lock sets a status of a row that is not locked                          *)

Undisturbed == ClockRuns = FALSE /\ "issue" \notin Kinds /\ VerifyDomains = {}

\* No lock gets old, so that nothing is cleaned up; nobody marks a domain verified.
CalmOK ==
    /\ since \in [Domains -> {0, Null}]
    /\ lag = [o \in Ops |-> 0]
    /\ age = [o \in Ops |-> 0]
    /\ pc[Scheduler] \in {"idle", "scan", "scanOp"}
    /\ \A o \in Ops : kind[o] # "issue" /\ pc[o] \notin {"exists", "recheck", "mark"}

LocksOK == LockShows /\ LockExclusive

\* Phases in which beginCertJob's wait for the domain's worker is over.
PastWait == {"waited", "registered", "spawned"} \union WorkerPhases

\* What an operation holds the lock for, and that no two are past the wait of
\* beginCertJob when one of them is a worker.
PhasesOK ==
    /\ \A o \in Ops :
        /\ phase[o] \in {"slotted", "waiting", "waited", "registered"} => pc[o] = "begin"
        /\ phase[o] = "spawned" => pc[o] = "jobStart"
    /\ \A o1, o2 \in Ops :
        o1 # o2 /\ DomainOf[o1] = DomainOf[o2] /\ phase[o1] \in PastWait
            => phase[o2] \notin WorkerPhases

LockInv == CalmOK /\ LocksOK /\ PhasesOK

\* A step of operation o keeps the lock it has or abandons it, takes a free one,
\* or clears it as it gives it up.
LockStep(o) ==
    /\ \A q \in Procs : q # o => pc'[q] = pc[q]
    /\ \/ status' = status /\ (HoldsLock(o)' => HoldsLock(o))
       \/ /\ status[DomainOf[o]] # "generating" /\ HoldsLock(o)'
          /\ status' = [status EXCEPT ![DomainOf[o]] = "generating"]
       \/ /\ HoldsLock(o) /\ ~HoldsLock(o)'
          /\ \E st \in Statuses \ {"generating"} : status' = [status EXCEPT ![DomainOf[o]] = st]

LEMMA LockStepIsLock ==
    ASSUME TypesOK, NEW o \in Ops, LockStep(o)
    PROVE  [Lock!Next]_(Lock!lockVars)
<1> USE DEF LockedRows, LockHolders
<1>1. \A q \in Ops : q # o => (HoldsLock(q)' <=> HoldsLock(q))
  BY DEF LockStep, HoldsLock
<1>2. DomainOf[o] \in Domains /\ status \in [Domains -> Statuses]
  BY RegistryAssumption DEF TypesOK
<1> HIDE DEF PCs, HandlerPCs, JobPCs, RollbackPCs, SchedulerPCs
<1>3. CASE status' = status /\ (HoldsLock(o)' => HoldsLock(o))
  <2>1. CASE HoldsLock(o) /\ ~HoldsLock(o)'
    <3>1. LockedRows' = LockedRows /\ LockHolders' = LockHolders \ {o} /\ o \in LockHolders
      BY <1>1, <1>3, <2>1
    <3> QED BY <3>1 DEF Lock!Next, Lock!Abandon
  <2>2. CASE HoldsLock(o)' <=> HoldsLock(o)
    <3>1. LockedRows' = LockedRows /\ LockHolders' = LockHolders
      BY <1>1, <1>3, <2>2
    <3> QED BY <3>1 DEF Lock!lockVars
  <2> QED BY <1>3, <2>1, <2>2
<1>4. CASE /\ status[DomainOf[o]] # "generating" /\ HoldsLock(o)'
           /\ status' = [status EXCEPT ![DomainOf[o]] = "generating"]
  <2>1. /\ DomainOf[o] \notin LockedRows /\ LockedRows' = LockedRows \union {DomainOf[o]}
        /\ LockHolders' = LockHolders \union {o}
    BY <1>1, <1>2, <1>4
  <2> QED BY <2>1 DEF Lock!Next, Lock!Take
<1>5. CASE /\ HoldsLock(o) /\ ~HoldsLock(o)'
           /\ \E st \in Statuses \ {"generating"} :
                  status' = [status EXCEPT ![DomainOf[o]] = st]
  <2>1. LockedRows' = LockedRows \ {DomainOf[o]} /\ LockHolders' = LockHolders \ {o} /\ o \in LockHolders
    BY <1>1, <1>2, <1>5
  <2> QED BY <2>1 DEF Lock!Next, Lock!Clear
<1> QED BY <1>3, <1>4, <1>5 DEF LockStep

\* A lock of this kind excludes, and shows while it is held.
LEMMA LockKeeps ==
    ASSUME TypesOK, LocksOK, [Lock!Next]_(Lock!lockVars)
    PROVE  LocksOK'
<1>1. /\ \A o \in LockHolders : DomainOf[o] \in LockedRows
      /\ \A o1, o2 \in LockHolders : DomainOf[o1] = DomainOf[o2] => o1 = o2
  BY DEF LocksOK, LockShows, LockExclusive, LockHolders, LockedRows
<1>2. /\ \A o \in LockHolders' : DomainOf[o] \in LockedRows'
      /\ \A o1, o2 \in LockHolders' : DomainOf[o1] = DomainOf[o2] => o1 = o2
  <2> HIDE DEF LockHolders, LockedRows
  <2>1. CASE Lock!Crash
    BY <1>1, <2>1 DEF Lock!Crash, LockHolders, LockedRows
  <2>2. ASSUME NEW o \in Ops, Lock!Take(o) \/ Lock!Clear(o) \/ Lock!Abandon(o)
        PROVE  /\ \A p \in LockHolders' : DomainOf[p] \in LockedRows'
               /\ \A p, q \in LockHolders' : DomainOf[p] = DomainOf[q] => p = q
    <3>1. \/ /\ DomainOf[o] \notin LockedRows /\ LockedRows' = LockedRows \union {DomainOf[o]}
             /\ LockHolders' = LockHolders \union {o}
          \/ o \in LockHolders /\ LockedRows' = LockedRows \ {DomainOf[o]} /\ LockHolders' = LockHolders \ {o}
          \/ LockedRows' = LockedRows /\ LockHolders' = LockHolders \ {o}
      BY <2>2 DEF Lock!Take, Lock!Clear, Lock!Abandon, LockHolders, LockedRows
    <3> QED BY <1>1, <3>1
  <2>3. CASE UNCHANGED Lock!lockVars
    <3>1. LockHolders' = LockHolders /\ LockedRows' = LockedRows
      BY <2>3 DEF Lock!lockVars, LockHolders, LockedRows
    <3> QED BY <1>1, <3>1
  <2> QED BY <2>1, <2>2, <2>3 DEF Lock!Next
<1> QED BY <1>2 DEF LocksOK, LockShows, LockExclusive, LockHolders, LockedRows

LEMMA HandlerLocks ==
    ASSUME LifecycleInv, CalmOK, NEW o \in Ops, HandlerStep(o)
    PROVE  LockStep(o)
<1> USE DEF Goto, LockStep, HoldsLock, LifecycleInv, TypesOK
<1>1. CASE LockCas(o)
  <2>1. LockFree(DomainOf[o], lag[o]) => status[DomainOf[o]] # "generating"
    BY DEF LockFree, StaleSince, CalmOK, RowConsistent
  <2> QED BY <1>1, <2>1 DEF LockCas
<1>2. CASE LockUserMissing(o)
  BY <1>2 DEF LockUserMissing, SetStatus
<1>3. CASE RecheckExisting(o) \/ markDomainCnameVerified(o)
  BY <1>3 DEF RecheckExisting, markDomainCnameVerified, CalmOK
<1>4. ASSUME NEW from \in PCs, NEW to \in PCs, status' = status, Goto(o, from, to),
             to \in {"load", "exists", "cname", "lockCert", "lockRead", "lockInflight",
                     "lockCancel", "lockWait", "lockCas", "done"}
             \/ from \in {"lockUser", "slot", "begin"}
      PROVE  LockStep(o)
  BY <1>4
<1>5. CASE StartCertJob(o)
  BY <1>5 DEF StartCertJob, NoRows, rowVars
<1>6. CASE LoadDomain(o) \/ CheckExisting(o) \/ CnameHolds(o) \/ Refuse(o)
  BY <1>4, <1>6 DEF LoadDomain, CheckExisting, CnameHolds, Refuse, Quiet, rowVars, CalmOK
<1>7. CASE \/ LockNeedsCert(o) \/ LockRead(o) \/ LockInflight(o) \/ LockCancel(o) \/ LockWait(o)
  BY <1>4, <1>7 DEF LockNeedsCert, LockRead, LockInflight, LockCancel, LockWait, Quiet, rowVars
<1>8. CASE LockUser(o) \/ TakeSlot(o) \/ NoSlot(o)
  BY <1>4, <1>8 DEF LockUser, TakeSlot, NoSlot, Quiet, NoRows, rowVars
<1> QED BY <1>1, <1>2, <1>3, <1>5, <1>6, <1>7, <1>8 DEF HandlerStep

LEMMA JobLocks ==
    ASSUME LifecycleInv, NEW o \in Ops, JobStep(o) \/ rollbackGeneratingDomain(o)
    PROVE  LockStep(o)
<1> USE DEF Goto, LockStep, HoldsLock, LifecycleInv, TypesOK
<1>1. CASE JobSave(o) \/ FailSet(o)
  BY <1>1 DEF JobSave, FailSet, SetStatus
<1>2. CASE RollbackWrite(o)
  <2>1. AfterRollback(o) \in {"done", "rolledBack"}
    BY DEF AfterRollback
  <2>2. RolledBackStatus(o) \in Statuses \ {"generating"}
    BY DEF RolledBackStatus
  <2>3. o # Scheduler
    BY LifecycleAssumption
  <2>4. HoldsLock(o) /\ ~HoldsLock(o)'
    BY <1>2, <2>1 DEF RollbackWrite
  <2>5. status' = [status EXCEPT ![DomainOf[o]] = RolledBackStatus(o)]
    BY <1>2, <2>3 DEF RollbackWrite, SetStatus, DomainFor
  <2>6. \A q \in Procs : q # o => pc'[q] = pc[q]
    BY <1>2 DEF RollbackWrite
  <2> QED BY <2>2, <2>4, <2>5, <2>6
<1>3. ASSUME NEW from \in (JobPCs \union RollbackPCs) \ {"return", "rolledBack"}, NEW to \in PCs,
             status' = status, Goto(o, from, to)
      PROVE  LockStep(o)
  BY <1>3
<1>4. CASE RollbackRead(o) \/ RollbackCert(o)
  <2>1. AfterRollback(o) \in PCs
    BY DEF AfterRollback
  <2> QED BY <1>3, <1>4, <2>1 DEF RollbackRead, RollbackCert, Quiet, rowVars
<1>5. CASE JobTakesResult(o)
  <2>1. AfterResult(o) \in PCs
    BY <1>5 DEF JobTakesResult, AfterResult, AcmeResults
  <2> QED BY <1>3, <1>5, <2>1 DEF JobTakesResult, rowVars
<1>6. CASE JobBegins(o) \/ JobReturns(o)
  BY <1>6 DEF JobBegins, JobReturns, NoRows, rowVars
<1>7. CASE JobStart(o) \/ JobCname(o) \/ JobCert(o) \/ JobAcme(o) \/ JobAbandons(o)
  BY <1>3, <1>7 DEF JobStart, JobCname, JobCert, JobAcme, JobAbandons, Quiet, rowVars
<1>8. CASE JobErr(o) \/ JobCtx(o) \/ JobActive(o) \/ FailCheck(o) \/ FailCert(o)
  BY <1>3, <1>8 DEF JobErr, JobCtx, JobActive, FailCheck, FailCert, Quiet, rowVars
<1>9. CASE CancelActive(o) \/ CancelInflight(o)
  BY <1>3, <1>9 DEF CancelActive, CancelInflight, Quiet, rowVars
<1> QED BY <1>1, <1>2, <1>4, <1>5, <1>6, <1>7, <1>8, <1>9 DEF JobStep, rollbackGeneratingDomain

LEMMA CalmStep ==
    ASSUME Undisturbed, LifecycleInv, RestOK, CalmOK, [Next]_vars
    PROVE  CalmOK'
<1> USE DEF Goto, CalmOK, LifecycleInv, TypesOK
<1>1. UserKinds \subseteq {"renew"} /\ "issue" \notin Kinds \union {"none"}
  BY DEF Undisturbed, UserKinds
<1>2. ~TimePasses /\ ~CleanupQuery
  <2>1. ~Tick
    BY DEF Tick, Undisturbed
  <2>2. \A d \in Domains : ~Stale(d)
    BY DEF Stale, StaleSince, RowConsistent
  <2> QED BY <2>1, <2>2 DEF TimePasses, CleanupQuery
<1>3. ASSUME NEW o \in Ops, HandlerStep(o) PROVE CalmOK'
  <2>1. /\ pc'[Scheduler] = pc[Scheduler] /\ kind' = kind
        /\ \A q \in Ops : pc'[q] \notin {"exists", "recheck", "mark"}
    BY <1>3
    DEF HandlerStep, LoadDomain, CheckExisting, CnameHolds, Refuse, RecheckExisting,
        markDomainCnameVerified, LockNeedsCert, LockRead, LockInflight, LockCancel, LockWait,
        LockCas, LockUser, LockUserMissing, TakeSlot, NoSlot, StartCertJob, Quiet, NoRows
  <2>2. lag' = lag
    BY <1>3
    DEF HandlerStep, LoadDomain, CheckExisting, CnameHolds, Refuse, RecheckExisting,
        markDomainCnameVerified, LockNeedsCert, LockRead, LockInflight, LockCancel, LockWait,
        LockCas, LockUser, LockUserMissing, TakeSlot, NoSlot, StartCertJob, Quiet, NoRows
  <2>3. age' = age
    BY <1>3
    DEF HandlerStep, LoadDomain, CheckExisting, CnameHolds, Refuse, RecheckExisting,
        markDomainCnameVerified, LockNeedsCert, LockRead, LockInflight, LockCancel, LockWait,
        LockCas, LockUser, LockUserMissing, TakeSlot, NoSlot, StartCertJob, Quiet, NoRows,
        registryVars, TryAcquireCertJobSlot, BeginCancel, WaitReturns, Register, Spawn,
        CancelCertJob
  <2>4. since' \in [Domains -> {0, Null}]
    BY <1>3
    DEF HandlerStep, LoadDomain, CheckExisting, CnameHolds, Refuse, RecheckExisting,
        markDomainCnameVerified, LockNeedsCert, LockRead, LockInflight, LockCancel, LockWait,
        LockCas, LockUser, LockUserMissing, TakeSlot, NoSlot, StartCertJob, Quiet, NoRows,
        MarkVerified, SetStatus, rowVars
  <2> QED BY <2>1, <2>2, <2>3, <2>4
<1>4. ASSUME NEW o \in Ops, JobStep(o) PROVE CalmOK'
  <2>1. /\ pc'[Scheduler] = pc[Scheduler] /\ kind' = kind /\ lag' = lag
        /\ \A q \in Ops : pc'[q] \notin {"exists", "recheck", "mark"}
    BY <1>4
    DEF JobStep, JobBegins, JobStart, JobCname, JobCert, JobAcme, JobAbandons, JobTakesResult,
        JobErr, JobCtx, JobActive, JobSave, FailCheck, FailCert, FailSet, CancelActive,
        CancelInflight, JobReturns, Quiet, NoRows, AfterResult, AcmeResults
  <2>2. age' = age
    BY <1>4
    DEF JobStep, JobBegins, JobStart, JobCname, JobCert, JobAcme, JobAbandons, JobTakesResult,
        JobErr, JobCtx, JobActive, JobSave, FailCheck, FailCert, FailSet, CancelActive,
        CancelInflight, JobReturns, Quiet, NoRows, registryVars, BeginDomainWorker,
        ReleaseCertJobSlot, EndJob, JobDone, WorkerDone
  <2>3. since' \in [Domains -> {0, Null}]
    BY <1>4
    DEF JobStep, JobBegins, JobStart, JobCname, JobCert, JobAcme, JobAbandons, JobTakesResult,
        JobErr, JobCtx, JobActive, JobSave, FailCheck, FailCert, FailSet, CancelActive,
        CancelInflight, JobReturns, Quiet, NoRows, SetStatus, rowVars
  <2> QED BY <2>1, <2>2, <2>3
<1>5. ASSUME NEW o \in Ops, rollbackGeneratingDomain(o) PROVE CalmOK'
  BY <1>5
  DEF rollbackGeneratingDomain, RollbackRead, RollbackCert, RollbackWrite, AfterRollback, Quiet,
      SetStatus, rowVars, registryVars
<1>6. CASE SchedulerStep
  <2>1. ~rollbackGeneratingDomain(Scheduler)
    BY DEF rollbackGeneratingDomain, RollbackRead, RollbackCert, RollbackWrite
  <2>2. ASSUME NEW o \in Ops, ScanStart(o) PROVE CalmOK'
    BY <2>2 DEF ScanStart, rowVars, registryVars
  <2>3. CASE ScanQuery \/ ScanSkip \/ ScanResume \/ RoundEnds
    BY <2>3 DEF ScanQuery, ScanSkip, ScanResume, RoundEnds, SchedGoto, NoSchedEffect, rowVars,
       registryVars
  <2> QED BY <1>6, <2>1, <2>2, <2>3
      DEF SchedulerStep, CleanupPick, CleanupCancel, CleanupWait, rollbackStuckGenerating, SchedGoto
<1>7. CASE Crash
  BY <1>7 DEF Crash, Restart, rowVars
<1>8. ASSUME NEW p \in Procs, StatementFails(p) PROVE CalmOK'
  BY <1>8 DEF StatementFails, AfterFault, AfterRollback, FaultPCs, rowVars, registryVars
<1>9. ASSUME NEW o \in Ops, NEW k \in UserKinds, Arrive(o, k) PROVE CalmOK'
  BY <1>1, <1>9 DEF Arrive, RestOK, rowVars, registryVars
<1>10. ASSUME NEW o \in Ops, AcmeStart(o) \/ AcmeReturn(o) PROVE CalmOK'
  BY <1>10 DEF AcmeStart, AcmeReturn, AcmeGoto, rowVars, registryVars
<1>11. CASE UNCHANGED vars
  BY <1>11 DEF vars, rowVars, registryVars
<1> QED BY <1>2, <1>3, <1>4, <1>5, <1>6, <1>7, <1>8, <1>9, <1>10, <1>11
        DEF Next, OpStep, Undisturbed

\* A step that changes no phase and leaves from no place where a phase is pending.
LEMMA SamePhases ==
    ASSUME PhasesOK, phase' = phase, NEW p \in Procs,
           \A q \in Procs : q # p => pc'[q] = pc[q],
           pc'[p] = pc[p] \/ pc[p] \notin {"begin", "jobStart"} \/ phase[p] = "running"
    PROVE  PhasesOK'
BY DEF PhasesOK, PastWait, WorkerPhases

\* ... or lets an operation leave the registry's phases in order.
LEMMA PhasesStep ==
    ASSUME RegistryInv, LifecycleInv, LockInv, Undisturbed, [Next]_vars
    PROVE  PhasesOK'
<1> USE DEF Goto, LifecycleInv, TypesOK, LockInv, CalmOK, registryVars, RegistryInv, RegistryTypeOK
<1>1. ASSUME NEW o \in Ops, HandlerStep(o) PROVE PhasesOK'
  <2>1. CASE TakeSlot(o)
    BY <2>1 DEF TakeSlot, TryAcquireCertJobSlot, Advance, PhasesOK, PastWait, WorkerPhases
  <2>2. CASE StartCertJob(o)
    <3>1. CASE BeginCancel(o) \/ Register(o)
      BY <2>2, <3>1 DEF StartCertJob, BeginCancel, Register, Spawn, WaitReturns, Advance, PhasesOK,
         PastWait, WorkerPhases
    <3>2. CASE WaitReturns(o)
      <4>1. \A q \in Ops : DomainOf[q] = DomainOf[o] => phase[q] \notin WorkerPhases
        <5>1. IsFiniteSet(Workers(DomainOf[o])) /\ Cardinality(Workers(DomainOf[o])) = 0
          BY <3>2, FiniteSets DEF WaitReturns, WorkerIdle, WorkersCounted
        <5>2. Workers(DomainOf[o]) = {}
          BY <5>1, FS_EmptySet
        <5> QED BY <5>2 DEF Workers
      <4> QED BY <2>2, <3>2, <4>1 DEF StartCertJob, BeginCancel, Register, Spawn, WaitReturns, Advance,
              PhasesOK, PastWait, WorkerPhases
    <3>3. CASE Spawn(o)
      BY <2>2, <3>3 DEF StartCertJob, BeginCancel, Register, Spawn, WaitReturns, Advance, PhasesOK,
         PastWait, WorkerPhases
    <3> QED BY <2>2, <3>1, <3>2, <3>3 DEF StartCertJob
  <2>3. CASE ~TakeSlot(o) /\ ~StartCertJob(o)
    <3>1. /\ phase' = phase /\ pc[o] \notin {"begin", "jobStart"}
          /\ \A q \in Procs : q # o => pc'[q] = pc[q]
      BY <1>1, <2>3
      DEF HandlerStep, LoadDomain, CheckExisting, CnameHolds, Refuse, RecheckExisting,
          markDomainCnameVerified, LockNeedsCert, LockRead, LockInflight, LockCancel, LockWait,
          LockCas, LockUser, LockUserMissing, NoSlot, Quiet, CancelCertJob
    <3> QED BY <3>1, SamePhases
  <2> QED BY <2>1, <2>2, <2>3
<1>2. ASSUME NEW o \in Ops, JobStep(o) PROVE PhasesOK'
  <2>1. CASE JobBegins(o)
    <3>1. pc[o] = "jobStart" /\ HoldsLock(o)
      BY <2>1 DEF JobBegins, HoldsLock
    <3>2. ASSUME NEW q \in Ops, q # o, DomainOf[q] = DomainOf[o] PROVE phase[q] \notin PastWait
      <4>1. ~HoldsLock(q)
        BY <3>1, <3>2 DEF LocksOK, LockExclusive
      <4>2. phase[q] \notin {"waited", "registered", "spawned"}
        BY <4>1 DEF PhasesOK, HoldsLock
      <4>3. phase[q] \notin WorkerPhases
        BY <2>1, <3>2 DEF JobBegins, BeginDomainWorker, Advance, PhasesOK, PastWait
      <4> QED BY <4>2, <4>3 DEF PastWait
    <3> QED BY <2>1, <3>2 DEF JobBegins, BeginDomainWorker, Advance, NoRows, PhasesOK, PastWait,
            WorkerPhases
  <2>2. CASE JobReturns(o)
    BY <2>2 DEF JobReturns, ReleaseCertJobSlot, EndJob, JobDone, WorkerDone, Advance, PhasesOK,
       PastWait, WorkerPhases
  <2>3. CASE ~JobBegins(o) /\ ~JobReturns(o)
    <3>1. /\ phase' = phase /\ (pc[o] \notin {"begin", "jobStart"} \/ phase[o] = "running")
          /\ \A q \in Procs : q # o => pc'[q] = pc[q]
      BY <1>2, <2>3
      DEF JobStep, JobStart, JobCname, JobCert, JobAcme, JobAbandons, JobTakesResult, JobErr,
          JobCtx, JobActive, JobSave, FailCheck, FailCert, FailSet, CancelActive,
          CancelInflight, Quiet
    <3> QED BY <3>1, SamePhases
  <2> QED BY <2>1, <2>2, <2>3
<1>3. ASSUME NEW p \in Procs, rollbackGeneratingDomain(p) PROVE PhasesOK'
  <2>1. /\ phase' = phase /\ pc[p] \notin {"begin", "jobStart"}
        /\ \A q \in Procs : q # p => pc'[q] = pc[q]
    BY <1>3 DEF rollbackGeneratingDomain, RollbackRead, RollbackCert, RollbackWrite, Quiet
  <2> QED BY <2>1, SamePhases
<1>4. ASSUME NEW p \in Procs, StatementFails(p) PROVE PhasesOK'
  <2>1. /\ phase' = phase /\ pc[p] \notin {"begin", "jobStart"}
        /\ \A q \in Procs : q # p => pc'[q] = pc[q]
    BY <1>4 DEF StatementFails, FaultPCs
  <2> QED BY <2>1, SamePhases
<1>5. CASE SchedulerStep \/ CleanupQuery
  <2>1. CASE UNCHANGED registryVars
    <3>1. \A o \in Ops : pc[o] \in {"begin", "jobStart"} => pc'[o] = pc[o]
      BY <1>3, <1>5
      DEF SchedulerStep, CleanupQuery, ScanQuery, ScanSkip, ScanResume, RoundEnds, ScanStart,
          CleanupPick, CleanupCancel, CleanupWait, rollbackStuckGenerating, SchedGoto,
          rollbackGeneratingDomain, RollbackRead, RollbackCert, RollbackWrite
    <3> QED BY <2>1, <3>1 DEF PhasesOK
  <2> QED BY <1>3, <1>5, <2>1
      DEF SchedulerStep, CleanupQuery, ScanQuery, ScanSkip, ScanResume, RoundEnds, ScanStart,
          CleanupPick, CleanupCancel, CleanupWait, rollbackStuckGenerating, SchedGoto
<1>6. CASE Crash
  BY <1>6 DEF Crash, Restart, PhasesOK, PastWait, WorkerPhases
<1>7. ASSUME NEW o \in Ops, NEW k \in UserKinds, Arrive(o, k) PROVE PhasesOK'
  BY <1>7, SamePhases DEF Arrive
<1>8. ASSUME NEW o \in Ops, AcmeStart(o) \/ AcmeReturn(o) PROVE PhasesOK'
  BY <1>8 DEF AcmeStart, AcmeReturn, AcmeGoto, PhasesOK
<1>9. ~TimePasses
  BY DEF TimePasses, Tick, Undisturbed
<1>10. CASE UNCHANGED vars
  BY <1>10 DEF vars, PhasesOK
<1> QED BY <1>1, <1>2, <1>3, <1>4, <1>5, <1>6, <1>7, <1>8, <1>9, <1>10
        DEF Next, OpStep, Undisturbed

LEMMA NextIsLock ==
    ASSUME LifecycleInv, CalmOK, Undisturbed, [Next]_vars
    PROVE  [Lock!Next]_(Lock!lockVars)
<1>1. ASSUME NEW o \in Ops, OpStep(o) PROVE [Lock!Next]_(Lock!lockVars)
  BY <1>1, HandlerLocks, JobLocks, LockStepIsLock DEF OpStep, LifecycleInv
<1>2. ASSUME status' = status, \A o \in Ops : HoldsLock(o)' <=> HoldsLock(o)
      PROVE  [Lock!Next]_(Lock!lockVars)
  BY <1>2 DEF Lock!lockVars, LockedRows, LockHolders
<1>3. ASSUME NEW o \in Ops, NEW k \in UserKinds, Arrive(o, k)
      PROVE  [Lock!Next]_(Lock!lockVars)
  <2>1. status' = status /\ \A p \in Ops : HoldsLock(p)' <=> HoldsLock(p)
    BY <1>3 DEF Arrive, rowVars, HoldsLock, Goto, LifecycleInv, TypesOK
  <2> QED BY <1>2, <2>1
<1>4. ASSUME NEW o \in Ops, AcmeStart(o) \/ AcmeReturn(o)
      PROVE  [Lock!Next]_(Lock!lockVars)
  <2>1. status' = status /\ pc' = pc
    BY <1>4 DEF AcmeStart, AcmeReturn, AcmeGoto, rowVars
  <2> QED BY <1>2, <2>1 DEF HoldsLock
<1>5. CASE SchedulerStep \/ CleanupQuery
  <2>1. /\ status' = status
        /\ \A o \in Ops : pc'[o] = pc[o] \/ (pc[o] = "idle" /\ pc'[o] = "cname")
    BY <1>5
    DEF SchedulerStep, CleanupQuery, ScanQuery, ScanSkip, ScanResume, RoundEnds, ScanStart,
        CleanupPick, CleanupCancel, CleanupWait, rollbackStuckGenerating, SchedGoto, Goto,
        rollbackGeneratingDomain, RollbackRead, RollbackCert, RollbackWrite, NoSchedEffect, rowVars,
        LifecycleInv, TypesOK, CalmOK
  <2> QED BY <1>2, <2>1 DEF HoldsLock
<1>6. ~TimePasses
  BY DEF TimePasses, Tick, Undisturbed
<1>7. CASE Crash
  <2>1. status' = status /\ \A o \in Ops : ~HoldsLock(o)'
    BY <1>7 DEF Crash, rowVars, HoldsLock
  <2> QED BY <2>1 DEF Lock!Next, Lock!Crash, LockedRows, LockHolders
<1>8. ASSUME NEW p \in Procs, StatementFails(p) PROVE [Lock!Next]_(Lock!lockVars)
  <2>1. p \in Ops
    BY <1>8 DEF StatementFails, FaultPCs, CalmOK
  <2>2. /\ status' = status /\ pc'[p] = AfterFault(p)
        /\ \A q \in Procs : q # p => pc'[q] = pc[q]
    BY <1>8 DEF StatementFails, rowVars, LifecycleInv, TypesOK
  <2>3. HoldsLock(p)' => HoldsLock(p)
    <3>1. CASE pc[p] \in {"lockCert", "lockRead", "lockCas"}
      <4>1. AfterFault(p) = "done"
        BY <3>1 DEF AfterFault
      <4> QED BY <2>2, <4>1 DEF HoldsLock
    <3>2. CASE pc[p] \notin {"lockCert", "lockRead", "lockCas"}
      BY <1>8, <2>1, <3>2 DEF StatementFails, FaultPCs, HoldsLock, CalmOK
    <3> QED BY <3>1, <3>2
  <2>4. LockStep(p)
    BY <2>2, <2>3 DEF LockStep
  <2> QED BY <2>1, <2>4, LockStepIsLock DEF LifecycleInv
<1>9. CASE UNCHANGED vars
  BY <1>2, <1>9 DEF vars, rowVars, HoldsLock
<1> QED BY <1>1, <1>3, <1>4, <1>5, <1>6, <1>7, <1>8, <1>9 DEF Next, Undisturbed

LEMMA LockInvariant == ASSUME Undisturbed PROVE Spec => []LockInv
<1>1. Init => LockInv
  <2> SUFFICES ASSUME Init PROVE LockInv
    OBVIOUS
  <2>1. CalmOK
    BY DEF Init, CalmOK, RegistryInit
  <2>2. LocksOK /\ PhasesOK
    BY DEF Init, RegistryInit, LocksOK, LockShows, LockExclusive, HoldsLock, PhasesOK, PastWait,
       WorkerPhases
  <2> QED BY <2>1, <2>2 DEF LockInv
<1>2. LifecycleInv /\ RegistryInv /\ RestOK /\ LockInv /\ [Next]_vars => LockInv'
  BY CalmStep, NextIsLock, LockKeeps, PhasesStep DEF LockInv, LifecycleInv
<1>3. Spec => []RestOK
  BY RestInit, RestStep, LifecycleInvariant, PTL DEF Spec
<1> QED BY <1>1, <1>2, <1>3, LifecycleInvariant, LifecycleImplementsRegistry, RegistryInvariant, PTL
        DEF Spec

\* Where renewals alone are asked for and nothing takes as long as
\* generating_timeout, the status generating is a lock, for every number of
\* operations and slots, and with crashes and failing statements: it is taken by
\* one operation at a time, and no other one clears it.
THEOREM RowsImplementLocks == ASSUME Undisturbed PROVE Spec => LockSpec
<1>1. Init => Lock!Init
  BY DEF Init, Lock!Init, LockedRows, LockHolders, HoldsLock
<1>2. LifecycleInv /\ LockInv /\ [Next]_vars => [Lock!Next]_(Lock!lockVars)
  BY NextIsLock DEF LockInv
<1> QED BY <1>1, <1>2, LifecycleInvariant, LockInvariant, PTL DEF Spec, LockSpec, Lock!Spec

\* Under these conditions two operations of a domain never hold its lock together,
\* for every number of operations and slots, and with crashes and failing
\* statements.  Without these conditions the code does not promise it: see the
\* issue that marks a locked row verified.
THEOREM LocksExclude == ASSUME Undisturbed PROVE Spec => []LockExclusive
<1>1. LockInv => LockExclusive
  BY DEF LockInv, LocksOK
<1> QED BY <1>1, LockInvariant, PTL

\* ... a lock that is held shows as generating,
THEOREM HeldLocksShow == ASSUME Undisturbed PROVE Spec => []LockShows
<1>1. LockInv => LockShows
  BY DEF LockInv, LocksOK
<1> QED BY <1>1, LockInvariant, PTL

\* ... and a domain never has two job goroutines, although a job gives its slot
\* and its row up before it ends.
THEOREM WorkersExclude == ASSUME Undisturbed PROVE Spec => []WorkersDontOverlap
<1>1. RegistryInv /\ LockInv => WorkersDontOverlap
  <2> SUFFICES ASSUME RegistryInv, LockInv, NEW d \in Domains PROVE Cardinality(Workers(d)) <= 1
    BY DEF WorkersDontOverlap
  <2>1. IsFiniteSet(Workers(d))
    BY FiniteSets
  <2>2. CASE Workers(d) = {}
    BY <2>2, FS_EmptySet
  <2>3. ASSUME NEW o \in Workers(d) PROVE Cardinality(Workers(d)) <= 1
    <3>1. Workers(d) = {o}
      BY <2>3 DEF Workers, LockInv, PhasesOK, PastWait
    <3> QED BY <3>1, FS_Singleton
  <2> QED BY <2>2, <2>3
<1> QED BY <1>1, LockInvariant, LifecycleImplementsRegistry, RegistryInvariant, PTL
=============================================================================
