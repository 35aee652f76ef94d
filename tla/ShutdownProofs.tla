---------------------------- MODULE ShutdownProofs ----------------------------
(***************************************************************************)
(* The shutdown over the certificate operations, for every set of domains  *)
(* and operations: main's rollback keeps the rows consistent, and what it  *)
(* leaves generating was locked after its query.  Everybody else's steps   *)
(* are steps of CertLifecycle, whose invariants are used as they are.      *)
(***************************************************************************)
EXTENDS Shutdown, CertLifecycleProofs

RollingBack == main \in {"rbRead", "rbCert", "rbWrite"}

MainTypes ==
    /\ main \in MainPCs
    /\ httpDone \in BOOLEAN /\ returned \in BOOLEAN /\ quiet \in BOOLEAN
    /\ rows \subseteq Domains
    /\ row \in Domains \union {Null}
    /\ RollingBack => row \in Domains
    /\ saw \in [verified : BOOLEAN, cert : BOOLEAN]
    /\ late \subseteq Domains

\* What main has read of the row is still so when it writes.
MainBacked ==
    /\ saw.cert => main = "rbWrite" /\ cert[row]
    /\ saw.verified => main \in {"rbCert", "rbWrite"} /\ verifiedAt[row]

\* From its query on, a generating row is still to be rolled back or was locked
\* later.
Accounted ==
    main \in {"next", "rbRead", "rbCert", "rbWrite", "stopped"} /\ faults = 0
        => \A d \in Domains : status[d] = "generating"
               => \/ d \in late
                  \/ d \in rows /\ main # "stopped"
                  \/ d = row /\ RollingBack

MainInv == MainTypes /\ MainBacked /\ Accounted

IInv == LifecycleInv /\ RegistryInv /\ RestOK /\ MainInv

USE RegistryAssumption, LifecycleAssumption
    DEF RegistryAssumption, LifecycleAssumption, Procs, PCs, HandlerPCs, JobPCs,
        RollbackPCs, SchedulerPCs, Statuses, MaxSince, MainPCs

-----------------------------------------------------------------------------
(* The steps of the others *)

\* Alongside main the others take steps of CertLifecycle.
LEMMA AlongsideIsNext ==
    ASSUME \/ \E o \in Ops : OpGoesOn(o) \/ AcmeGoesOn(o)
           \/ SchedulerGoesOn \/ Request
    PROVE  Next /\ Alongside
BY DEF OpGoesOn, AcmeGoesOn, SchedulerGoesOn, Request, Next

\* Only the update of lockDomainForCertJob makes a row generating.
LEMMA OnlyLocksGenerate ==
    ASSUME LifecycleInv, Next, NEW d \in Domains, status'[d] = "generating"
    PROVE  status[d] = "generating" \/ d \in Locked
<1> USE DEF Goto, rowVars
<1>1. /\ status \in [Domains -> Statuses] /\ pc \in [Procs -> PCs] /\ Scheduler \notin Ops
      /\ \A o \in Ops : DomainOf[o] \in Domains
  BY DEF LifecycleInv, TypesOK
<1>2. ASSUME NEW o \in Ops, HandlerStep(o) PROVE status[d] = "generating" \/ d \in Locked
  <2>1. CASE LockCas(o)
    <3>1. CASE LockFree(DomainOf[o], lag[o])
      BY <1>1, <2>1, <3>1 DEF LockCas, Locked
    <3>2. CASE ~LockFree(DomainOf[o], lag[o])
      BY <2>1, <3>2 DEF LockCas
    <3> QED BY <3>1, <3>2
  <2>2. CASE LockUserMissing(o) \/ markDomainCnameVerified(o)
    BY <1>1, <2>2 DEF LockUserMissing, markDomainCnameVerified, SetStatus, MarkVerified
  <2>3. CASE status' = status
    BY <2>3
  <2> QED BY <1>2, <2>1, <2>2, <2>3
      DEF HandlerStep, LoadDomain, CheckExisting, CnameHolds, Refuse, RecheckExisting,
          LockNeedsCert, LockRead, LockInflight, LockCancel, LockWait, LockUser, TakeSlot, NoSlot,
          StartCertJob, Quiet, NoRows
<1>3. ASSUME NEW o \in Ops, JobStep(o) PROVE status[d] = "generating"
  <2>1. CASE JobSave(o) \/ FailSet(o)
    BY <1>1, <2>1 DEF JobSave, FailSet, SetStatus
  <2>2. CASE status' = status
    BY <2>2
  <2> QED BY <1>3, <2>1, <2>2
      DEF JobStep, JobBegins, JobStart, JobCname, JobCert, JobAcme, JobAbandons, JobTakesResult,
          JobErr, JobCtx, JobActive, FailCheck, FailCert, CancelActive, CancelInflight,
          JobReturns, Quiet, NoRows
<1>4. ASSUME NEW p \in Procs, rollbackGeneratingDomain(p) PROVE status[d] = "generating"
  <2>1. CASE RollbackWrite(p)
    BY <1>1, <2>1 DEF RollbackWrite, SetStatus, RolledBackStatus
  <2>2. CASE status' = status
    BY <2>2
  <2> QED BY <1>4, <2>1, <2>2
      DEF rollbackGeneratingDomain, RollbackRead, RollbackCert, Quiet
<1>5. CASE SchedulerStep
  BY <1>4, <1>5
  DEF SchedulerStep, ScanQuery, ScanSkip, ScanStart, ScanResume, RoundEnds, CleanupPick,
      CleanupCancel, CleanupWait, rollbackStuckGenerating, NoSchedEffect
<1>6. ASSUME NEW e \in VerifyDomains, VerifyCname(e) PROVE status[d] = "generating"
  BY <1>1, <1>6 DEF VerifyCname, MarkVerified
<1>7. CASE status' = status
  BY <1>7
<1> QED BY <1>2, <1>3, <1>4, <1>5, <1>6, <1>7
    DEF Next, OpStep, Arrive, AcmeStart, AcmeReturn, AcmeGoto, CleanupQuery, NoSchedEffect,
        TimePasses, Crash, StatementFails

\* No step takes a certificate or a verification back.
LEMMA NextGrows ==
    ASSUME LifecycleInv, Next
    PROVE  Grows
<1> USE DEF rowVars
<1>1. cert \in [Domains -> BOOLEAN] /\ verifiedAt \in [Domains -> BOOLEAN]
  BY DEF LifecycleInv, TypesOK
<1>2. ASSUME NEW o \in Ops, markDomainCnameVerified(o) \/ JobSave(o) PROVE Grows
  BY <1>1, <1>2 DEF markDomainCnameVerified, MarkVerified, JobSave, Grows
<1>3. ASSUME NEW d \in VerifyDomains, VerifyCname(d) PROVE Grows
  BY <1>1, <1>3 DEF VerifyCname, MarkVerified, Grows
<1>4. CASE UNCHANGED <<cert, verifiedAt>>
  BY <1>4 DEF Grows
<1>5. ASSUME NEW p \in Procs, rollbackGeneratingDomain(p) PROVE UNCHANGED <<cert, verifiedAt>>
  BY <1>5 DEF rollbackGeneratingDomain, RollbackRead, RollbackCert, RollbackWrite, SetStatus, Quiet
<1>6. ASSUME NEW o \in Ops, HandlerStep(o) PROVE Grows
  BY <1>2, <1>4, <1>6
  DEF HandlerStep, LoadDomain, CheckExisting, CnameHolds, Refuse, RecheckExisting,
      LockNeedsCert, LockRead, LockInflight, LockCancel, LockWait, LockCas, LockUser,
      LockUserMissing, SetStatus, TakeSlot, NoSlot, StartCertJob, Quiet, NoRows
<1>7. ASSUME NEW o \in Ops, JobStep(o) PROVE Grows
  BY <1>2, <1>4, <1>7
  DEF JobStep, JobBegins, JobStart, JobCname, JobCert, JobAcme, JobAbandons, JobTakesResult,
      JobErr, JobCtx, JobActive, FailCheck, FailCert, FailSet, SetStatus, CancelActive,
      CancelInflight, JobReturns, Quiet, NoRows
<1>8. CASE SchedulerStep \/ CleanupQuery
  BY <1>4, <1>5, <1>8
  DEF SchedulerStep, CleanupQuery, ScanQuery, ScanSkip, ScanStart, ScanResume, RoundEnds,
      CleanupPick, CleanupCancel, CleanupWait, rollbackStuckGenerating, NoSchedEffect
<1>9. CASE TimePasses \/ Crash \/ \E p \in Procs : StatementFails(p)
  BY <1>4, <1>9 DEF TimePasses, Crash, StatementFails
<1>10. ASSUME NEW o \in Ops, AcmeStart(o) \/ AcmeReturn(o) \/ \E k \in UserKinds : Arrive(o, k)
       PROVE  Grows
  BY <1>4, <1>10 DEF AcmeStart, AcmeReturn, AcmeGoto, Arrive
<1> QED BY <1>3, <1>4, <1>5, <1>6, <1>7, <1>8, <1>9, <1>10 DEF Next, OpStep

\* The count of failed statements does not fall.
LEMMA FaultsGrow ==
    ASSUME Next
    PROVE  faults' = faults \/ faults' = faults + 1
<1> USE DEF envVars
<1>1. ASSUME NEW p \in Procs, rollbackGeneratingDomain(p) PROVE faults' = faults
  BY <1>1 DEF rollbackGeneratingDomain, RollbackRead, RollbackCert, RollbackWrite, Quiet
<1>2. ASSUME NEW o \in Ops, HandlerStep(o) PROVE faults' = faults
  BY <1>2
  DEF HandlerStep, LoadDomain, CheckExisting, CnameHolds, Refuse, RecheckExisting,
      markDomainCnameVerified, LockNeedsCert, LockRead, LockInflight, LockCancel, LockWait, LockCas,
      LockUser, LockUserMissing, TakeSlot, NoSlot, StartCertJob, Quiet, NoRows
<1>3. ASSUME NEW o \in Ops, JobStep(o) PROVE faults' = faults
  BY <1>3
  DEF JobStep, JobBegins, JobStart, JobCname, JobCert, JobAcme, JobAbandons, JobTakesResult,
      JobErr, JobCtx, JobActive, JobSave, FailCheck, FailCert, FailSet, CancelActive,
      CancelInflight, JobReturns, Quiet, NoRows
<1>4. CASE SchedulerStep \/ CleanupQuery
  BY <1>1, <1>4
  DEF SchedulerStep, CleanupQuery, ScanQuery, ScanSkip, ScanStart, ScanResume, RoundEnds,
      CleanupPick, CleanupCancel, CleanupWait, rollbackStuckGenerating, NoSchedEffect
<1>5. CASE TimePasses \/ Crash \/ \E p \in Procs : StatementFails(p)
  BY <1>5 DEF TimePasses, Crash, StatementFails
<1>6. ASSUME NEW o \in Ops, AcmeStart(o) \/ AcmeReturn(o) \/ \E k \in UserKinds : Arrive(o, k)
      PROVE  faults' = faults
  BY <1>6 DEF AcmeStart, AcmeReturn, AcmeGoto, Arrive
<1>7. ASSUME NEW d \in VerifyDomains, VerifyCname(d) PROVE faults' = faults
  BY <1>7 DEF VerifyCname
<1> QED BY <1>1, <1>2, <1>3, <1>4, <1>5, <1>6, <1>7 DEF Next, OpStep

LEMMA AlongsideKeeps ==
    ASSUME IInv, Next, Alongside
    PROVE  IInv'
<1>1. LifecycleInv' /\ RegistryInv' /\ RestOK'
  <2>1. [Next]_vars
    OBVIOUS
  <2> QED BY <2>1, LifecycleStep, RegistryStep, InvNext, RestStep DEF IInv
<1>2. MainTypes'
  <2>1. Locked \subseteq Domains
    BY DEF Locked
  <2> QED BY <2>1 DEF IInv, MainInv, MainTypes, Alongside, RollingBack
<1>3. MainBacked'
  BY NextGrows DEF IInv, MainInv, MainTypes, MainBacked, Alongside, Grows, RollingBack
<1>4. faults' = 0 => faults = 0
  <2>1. faults \in Nat /\ (faults' = faults \/ faults' = faults + 1)
    BY FaultsGrow DEF IInv, RestOK
  <2> QED BY <2>1
<1>5. Accounted'
  <2> SUFFICES ASSUME main' \in {"next", "rbRead", "rbCert", "rbWrite", "stopped"}, faults' = 0,
                      NEW d \in Domains, status'[d] = "generating"
               PROVE  \/ d \in late'
                      \/ d \in rows' /\ main' # "stopped"
                      \/ d = row' /\ RollingBack'
    BY DEF Accounted
  <2>1. main' = main /\ rows' = rows /\ row' = row /\ Querying /\ late' = late \union Locked
    BY DEF Alongside, Querying
  <2>2. status[d] = "generating" \/ d \in Locked
    BY OnlyLocksGenerate DEF IInv
  <2> QED BY <1>4, <2>1, <2>2 DEF IInv, MainInv, Accounted, RollingBack
<1> QED BY <1>1, <1>2, <1>3, <1>5 DEF IInv, MainInv

-----------------------------------------------------------------------------
(* The steps of main *)

\* Cancelling jobs and the steps that leave CertLifecycle alone.
LEMMA LifecycleKept ==
    ASSUME LifecycleInv, RegistryInv, RestOK,
           UNCHANGED <<rowVars, pc, kind, local, lag, timer, acme, schedVars, crashes>>,
           faults' \in 0..MaxFaults,
           [RegistryNext]_registryVars
    PROVE  LifecycleInv' /\ RegistryInv' /\ RestOK'
<1>1. LifecycleInv'
  BY DEF LifecycleInv, TypesOK, RowConsistent, Backed, DomainFor, SchedulerOK, rowVars, schedVars
<1>2. RestOK'
  BY DEF RestOK, schedVars
<1> QED BY <1>1, <1>2, InvNext

LEMMA MainWriteKeeps ==
    ASSUME IInv, MainWrite
    PROVE  IInv'
<1>1. /\ row \in Domains
      /\ MainStatus \in {"active", "verified", "error"}
      /\ MainStatus = "active" => cert[row]
      /\ MainStatus = "verified" => verifiedAt[row]
  BY DEF IInv, MainInv, MainTypes, MainBacked, RollingBack, MainWrite, MainGoto, MainStatus
<1>2. /\ status' = [status EXCEPT ![row] = MainStatus]
      /\ since' = [since EXCEPT ![row] = Null]
      /\ UNCHANGED <<verifiedAt, cert, registryVars, pc, kind, local, lag, timer, acme,
                     schedVars, envVars>>
  BY DEF MainWrite, SetStatus
<1>3. LifecycleInv'
  <2>1. TypesOK' /\ RowConsistent'
    BY <1>1, <1>2 DEF IInv, LifecycleInv, TypesOK, RowConsistent
  <2>2. SchedulerOK' /\ \A p \in Procs : Backed(p)'
    BY <1>2 DEF IInv, LifecycleInv, Backed, DomainFor, SchedulerOK, schedVars
  <2> QED BY <2>1, <2>2 DEF LifecycleInv
<1>4. RegistryInv' /\ RestOK'
  <2>1. [RegistryNext]_registryVars
    BY <1>2
  <2> QED BY <1>2, <2>1, InvNext DEF IInv, RestOK, schedVars, envVars
<1>5. MainTypes' /\ MainBacked'
  BY DEF IInv, MainInv, MainTypes, MainBacked, RollingBack, MainWrite, MainGoto, Unseen
<1>6. Accounted'
  BY <1>1, <1>2 DEF IInv, LifecycleInv, TypesOK, MainInv, Accounted, RollingBack, MainWrite,
                    MainGoto, envVars
<1> QED BY <1>3, <1>4, <1>5, <1>6 DEF IInv, MainInv

LEMMA MainKeeps ==
    ASSUME IInv, \/ Signal \/ MainStep \/ ShutdownTimesOut \/ WaitTimesOut
                 \/ MainStatementFails \/ SchedulerStops
    PROVE  IInv'
<1>1. CASE MainWrite
  BY <1>1, MainWriteKeeps
<1>2. CASE CancelAll
  <2>1. [RegistryNext]_registryVars /\ envVars' = envVars
    BY <1>2 DEF CancelAll, RegistryNext
  <2>2. LifecycleInv' /\ RegistryInv' /\ RestOK'
    BY <1>2, <2>1, LifecycleKept DEF IInv, RestOK, CancelAll, envVars
  <2>3. quiet' \in BOOLEAN
    BY <1>2, Zenon DEF CancelAll
  <2>4. MainInv'
    BY <1>2, <2>1, <2>3 DEF IInv, MainInv, MainTypes, MainBacked, Accounted, RollingBack,
       CancelAll, MainGoto, envVars
  <2> QED BY <2>2, <2>4 DEF IInv
<1>3. CASE MainStatementFails
  <2>1. faults' \in 0..MaxFaults /\ faults' # 0 /\ [RegistryNext]_registryVars
    BY <1>3 DEF MainStatementFails, IInv, RestOK
  <2>2. LifecycleInv' /\ RegistryInv' /\ RestOK'
    BY <1>3, <2>1, LifecycleKept DEF IInv, MainStatementFails
  <2>3. MainTypes' /\ MainBacked'
    BY <1>3 DEF IInv, MainInv, MainTypes, MainBacked, RollingBack, MainStatementFails,
       rowVars, Unseen
  <2>4. Accounted'
    BY <2>1 DEF Accounted
  <2> QED BY <2>2, <2>3, <2>4 DEF IInv, MainInv
<1>4. CASE UNCHANGED vars /\ MainInv'
  <2>1. [RegistryNext]_registryVars /\ faults' \in 0..MaxFaults
        /\ UNCHANGED <<rowVars, pc, kind, local, lag, timer, acme, schedVars, crashes>>
    BY <1>4 DEF vars, envVars, IInv, RestOK
  <2> QED BY <1>4, <2>1, LifecycleKept DEF IInv
<1>5. CASE Signal \/ ShutdownReturns \/ ShutdownTimesOut \/ WaitCertJobs \/ WaitTimesOut
           \/ SchedulerStops
  <2>1. UNCHANGED vars
    BY <1>5 DEF Signal, ShutdownReturns, ShutdownTimesOut, WaitCertJobs, WaitTimesOut,
                SchedulerStops
  <2>2. MainInv'
    BY <1>5, <2>1 DEF Signal, ShutdownReturns, ShutdownTimesOut, WaitCertJobs, WaitTimesOut,
       SchedulerStops, MainGoto, IInv, MainInv, MainTypes, MainBacked, Accounted, RollingBack,
       vars, rowVars, envVars
  <2> QED BY <1>4, <2>1, <2>2
<1>6. CASE RollbackQuery
  BY <1>4, <1>6 DEF RollbackQuery, MainGoto, IInv, MainInv, MainTypes, MainBacked, Accounted,
     RollingBack, vars, rowVars
<1>7. ASSUME NEW d \in Domains, RollbackPick(d) PROVE IInv'
  BY <1>4, <1>7 DEF RollbackPick, MainGoto, IInv, MainInv, MainTypes, MainBacked, Accounted,
     RollingBack, vars, rowVars, envVars
<1>8. CASE MainRead
  <2>1. saw' \in [verified : BOOLEAN, cert : BOOLEAN]
        /\ (saw'.verified => status[row] = "generating" /\ verifiedAt[row])
        /\ saw'.cert = saw.cert
    BY <1>8 DEF MainRead, MainGoto, IInv, MainInv, MainTypes, LifecycleInv, TypesOK, RollingBack
  <2> QED BY <1>4, <1>8, <2>1 DEF MainRead, MainGoto, IInv, MainInv, MainTypes, MainBacked,
          Accounted, RollingBack, vars, rowVars, envVars
<1>9. CASE MainCert
  <2>1. saw' \in [verified : BOOLEAN, cert : BOOLEAN]
        /\ saw'.verified = saw.verified /\ saw'.cert = cert[row]
    BY <1>9 DEF MainCert, MainGoto, IInv, MainInv, MainTypes, LifecycleInv, TypesOK, RollingBack
  <2> QED BY <1>4, <1>9, <2>1 DEF MainCert, MainGoto, IInv, MainInv, MainTypes, MainBacked,
          Accounted, RollingBack, vars, rowVars, envVars
<1>10. CASE Stops
  BY <1>4, <1>10 DEF Stops, MainGoto, IInv, MainInv, MainTypes, MainBacked, Accounted,
     RollingBack, vars, rowVars, envVars
<1> QED BY <1>1, <1>2, <1>3, <1>5, <1>6, <1>7, <1>8, <1>9, <1>10 DEF MainStep

LEMMA ShutdownInvariant == ShutdownSpec => []IInv
<1>1. ShutdownInit => IInv
  <2> SUFFICES ASSUME ShutdownInit PROVE IInv
    OBVIOUS
  <2>1. LifecycleInv /\ RegistryInv /\ RestOK
    BY LifecycleInit, InvInit, RestInit DEF ShutdownInit, Init
  <2>2. MainInv
    BY DEF ShutdownInit, MainInit, MainInv, MainTypes, MainBacked, Accounted, RollingBack, Unseen
  <2> QED BY <2>1, <2>2 DEF IInv
<1>2. IInv /\ [ShutdownNext]_allVars => IInv'
  <2> SUFFICES ASSUME IInv, [ShutdownNext]_allVars PROVE IInv'
    OBVIOUS
  <2>1. CASE (\E o \in Ops : OpGoesOn(o) \/ AcmeGoesOn(o)) \/ SchedulerGoesOn \/ Request
    BY <2>1, AlongsideIsNext, AlongsideKeeps
  <2>2. CASE Signal \/ MainStep \/ ShutdownTimesOut \/ WaitTimesOut \/ MainStatementFails
             \/ SchedulerStops
    BY <2>2, MainKeeps
  <2>3. CASE UNCHANGED allVars
    <3>1. [RegistryNext]_registryVars /\ faults' \in 0..MaxFaults
          /\ UNCHANGED <<rowVars, pc, kind, local, lag, timer, acme, schedVars, crashes>>
      BY <2>3 DEF allVars, vars, envVars, IInv, RestOK
    <3>2. MainInv'
      BY <2>3 DEF allVars, vars, rowVars, envVars, mainVars, IInv, MainInv, MainTypes, MainBacked,
         Accounted, RollingBack
    <3> QED BY <3>1, <3>2, LifecycleKept DEF IInv
  <2> QED BY <2>1, <2>2, <2>3 DEF ShutdownNext
<1> QED BY <1>1, <1>2, PTL DEF ShutdownSpec

\* Type correctness: in particular main has a row whenever it rolls one back.
THEOREM ShutdownTypeCorrect == ShutdownSpec => []MainTypeOK
<1>1. IInv => MainTypeOK
  BY DEF IInv, LifecycleInv, TypesOK, RegistryInv, RestOK, MainInv, MainTypes, RollingBack,
     MainTypeOK, TypeOK, Memory
<1> QED BY <1>1, ShutdownInvariant, PTL

\* The rows stay consistent while main's rollback runs beside jobs, handlers and
\* the scheduler, none of which it excludes.
THEOREM RowsAreConsistentInShutdown == ShutdownSpec => []RowConsistent
<1>1. IInv => RowConsistent
  BY DEF IInv, LifecycleInv
<1> QED BY <1>1, ShutdownInvariant, PTL

\* A row that is left generating was locked after RollbackAllGeneratingDomains
\* had queried the rows.
THEOREM OnlyLateLocksAreLeft == ShutdownSpec => []LeftGenerating
<1>1. IInv => LeftGenerating
  BY DEF IInv, MainInv, Accounted, RollingBack, LeftGenerating
<1> QED BY <1>1, ShutdownInvariant, PTL

-----------------------------------------------------------------------------
(* A shutdown nobody delays: where no one is left to begin a job when the   *)
(* jobs are cancelled, none is begun, so that the wait for the jobs waits   *)
(* for all of them and nothing is locked after it.                          *)

\* An operation is at a place of its handler or job that fits its phase.
InPlace(o) ==
    /\ pc[o] \notin SchedulerPCs
    /\ pc[o] \in {"idle"} \union (HandlerPCs \ {"begin"}) => phase[o] = "idle"
    /\ pc[o] = "begin" => phase[o] \in {"slotted", "waiting", "waited", "registered"}
    /\ pc[o] = "jobStart" => phase[o] \in {"spawned", "running"}
    /\ pc[o] \in JobPCs \ {"jobStart", "return", "rolledBack"} => phase[o] = "running"
    /\ pc[o] \in {"return", "rolledBack"}
           => phase[o] \in {"running", "unslotted", "released", "jobDone"}
    /\ pc[o] \in RollbackPCs => phase[o] \in {"idle", "running"}
    /\ pc[o] = "done" => phase[o] \in {"idle", "exited"}

\* A handler, or the scan as one, that may still begin a job.
Starting(o) == pc[o] \in HandlerPCs \/ (pc[o] \in RollbackPCs /\ phase[o] = "idle")

Waited == {"list", "next", "rbRead", "rbCert", "rbWrite", "stopped"}

StartersKnown ==
    /\ \A o \in Ops : InPlace(o)
    /\ \A o \in Ops :
        Starting(o) => kind[o] \in UserKinds \/ (pc[Scheduler] = "scanOp" /\ current = o)

Drained ==
    /\ httpDone => /\ main \notin {"serving", "draining"}
                   /\ \A o \in Ops : Starting(o) => kind[o] \notin UserKinds
    /\ returned => main # "serving" /\ pc[Scheduler] = "idle"
    /\ quiet => httpDone /\ returned /\ main \in Waited \union {"waiting"}

NoJobsLeft ==
    /\ quiet /\ main \in Waited => \A o \in Ops : phase[o] \notin JobPhases
    /\ quiet \/ main \notin Waited \ {"list"} => late = {}

StopInv == StartersKnown /\ Drained /\ NoJobsLeft

LEMMA QuietStarters ==
    ASSUME StopInv, quiet, NEW o \in Ops
    PROVE  ~Starting(o)
BY DEF StopInv, StartersKnown, Drained

\* What a step of an operation means to its neighbours: it begins a job only as
\* a starter, and no one becomes a starter by it.
OpEffect(o) ==
    /\ \A q \in Procs : q # o => pc'[q] = pc[q]
    /\ \A q \in Ops : q # o => phase'[q] = phase[q]
    /\ kind' = kind /\ current' = current
    /\ InPlace(o)'
    /\ Starting(o)' => Starting(o)
    /\ phase'[o] \in JobPhases => phase[o] \in JobPhases \/ Starting(o)

LEMMA OpStepEffect ==
    ASSUME LifecycleInv, RegistryTypeOK, NEW o \in Ops, InPlace(o), OpStep(o)
    PROVE  OpEffect(o)
<1> USE DEF Goto, LifecycleInv, TypesOK, RegistryTypeOK, OpEffect, InPlace, Starting, JobPhases
<1>1. ASSUME HandlerStep(o) PROVE OpEffect(o)
  <2>1. CASE TakeSlot(o)
    BY <2>1 DEF TakeSlot, TryAcquireCertJobSlot, Advance, NoRows, schedVars
  <2>2. CASE StartCertJob(o)
    BY <2>2 DEF StartCertJob, BeginCancel, WaitReturns, Register, Spawn, Advance, NoRows,
       schedVars
  <2>3. CASE LockCancel(o)
    BY <2>3 DEF LockCancel, CancelCertJob, schedVars
  <2>4. CASE ~TakeSlot(o) /\ ~StartCertJob(o) /\ ~LockCancel(o)
    <3>1. UNCHANGED <<phase, kind, current>>
      BY <1>1, <2>4
      DEF HandlerStep, LoadDomain, CheckExisting, CnameHolds, Refuse, RecheckExisting,
          markDomainCnameVerified, LockNeedsCert, LockRead, LockInflight, LockWait, LockCas,
          LockUser, LockUserMissing, NoSlot, Quiet, registryVars, schedVars
    <3>2. \E from \in HandlerPCs \ {"begin"},
             to \in (HandlerPCs \ {"begin"}) \union {"done", "rbRead"} : Goto(o, from, to)
      BY <1>1, <2>4
      DEF HandlerStep, LoadDomain, CheckExisting, CnameHolds, Refuse, RecheckExisting,
          markDomainCnameVerified, LockNeedsCert, LockRead, LockInflight, LockWait, LockCas,
          LockUser, LockUserMissing, NoSlot
    <3> QED BY <3>1, <3>2
  <2> QED BY <2>1, <2>2, <2>3, <2>4
<1>2. ASSUME JobStep(o) PROVE OpEffect(o)
  <2>1. CASE JobBegins(o)
    BY <2>1 DEF JobBegins, BeginDomainWorker, Advance, NoRows, schedVars
  <2>2. CASE JobReturns(o)
    BY <2>2 DEF JobReturns, ReleaseCertJobSlot, EndJob, JobDone, WorkerDone, Advance, NoRows,
       schedVars
  <2>3. CASE ~JobBegins(o) /\ ~JobReturns(o)
    <3>1. UNCHANGED <<phase, kind, current>>
      BY <1>2, <2>3
      DEF JobStep, JobStart, JobCname, JobCert, JobAcme, JobAbandons, JobTakesResult, JobErr,
          JobCtx, JobActive, JobSave, FailCheck, FailCert, FailSet, CancelActive,
          CancelInflight, Quiet, registryVars, schedVars
    <3>2. \E from \in JobPCs \ {"return", "rolledBack"},
             to \in (JobPCs \ {"jobStart"}) \union {"rbRead"} :
              Goto(o, from, to) /\ (from = "jobStart" => phase[o] = "running")
      BY <1>2, <2>3
      DEF JobStep, JobStart, JobCname, JobCert, JobAcme, JobAbandons, JobTakesResult, JobErr,
          JobCtx, JobActive, JobSave, FailCheck, FailCert, FailSet, CancelActive,
          CancelInflight, AfterResult, AcmeResults
    <3> QED BY <3>1, <3>2
  <2> QED BY <2>1, <2>2, <2>3
<1>3. ASSUME rollbackGeneratingDomain(o) PROVE OpEffect(o)
  BY <1>3 DEF rollbackGeneratingDomain, RollbackRead, RollbackCert, RollbackWrite, AfterRollback,
     Quiet, registryVars, schedVars
<1> QED BY <1>1, <1>2, <1>3 DEF OpStep

LEMMA OpGoesOnStops ==
    ASSUME IInv, StopInv, NEW o \in Ops, OpGoesOn(o)
    PROVE  StopInv'
<1>1. OpEffect(o) /\ Alongside
  BY OpStepEffect DEF IInv, RegistryInv, OpGoesOn, StopInv, StartersKnown
<1>2. ASSUME NEW q \in Ops
      PROVE  /\ InPlace(q)' /\ (Starting(q)' => Starting(q))
             /\ phase'[q] \in JobPhases => phase[q] \in JobPhases \/ Starting(q)
  <2>1. CASE q = o
    BY <1>1, <2>1 DEF OpEffect
  <2>2. CASE q # o
    BY <1>1, <2>2 DEF OpEffect, InPlace, Starting, StopInv, StartersKnown
  <2> QED BY <2>1, <2>2
<1>3. pc'[Scheduler] = pc[Scheduler]
  BY <1>1 DEF OpEffect, IInv, LifecycleInv, TypesOK
<1>4. StartersKnown'
  BY <1>1, <1>2, <1>3 DEF OpEffect, StopInv, StartersKnown
<1>5. Drained'
  BY <1>1, <1>2, <1>3 DEF OpEffect, Alongside, StopInv, Drained
<1>6. quiet => Locked = {}
  BY QuietStarters DEF Locked, Starting
<1>7. NoJobsLeft'
  BY <1>1, <1>2, <1>6, QuietStarters DEF Alongside, Querying, StopInv, NoJobsLeft, Waited
<1> QED BY <1>4, <1>5, <1>7 DEF StopInv

LEMMA SchedulerGoesOnStops ==
    ASSUME IInv, StopInv, SchedulerGoesOn
    PROVE  StopInv'
<1> USE DEF SchedGoto, Goto
<1>1. ~returned /\ (SchedulerStep \/ CleanupQuery) /\ Alongside
  BY DEF SchedulerGoesOn
<1>2. pc \in [Procs -> PCs] /\ kind \in [Ops -> Kinds \union {"none"}] /\ ~quiet
  BY <1>1 DEF IInv, LifecycleInv, TypesOK, RestOK, StopInv, Drained
<1>3. CASE \E o \in Ops : ScanStart(o)
  <2>1. PICK o \in Ops : ScanStart(o)
    BY <1>3
  <2>2. /\ pc[o] = "idle" /\ pc[Scheduler] = "scan" /\ phase' = phase /\ current' = o
        /\ pc' = [pc EXCEPT ![o] = "cname", ![Scheduler] = "scanOp"]
        /\ kind' = [kind EXCEPT ![o] = "auto"]
    BY <2>1 DEF ScanStart, registryVars
  <2>3. \A q \in Ops : ~(pc[Scheduler] = "scanOp" /\ current = q)
    BY <2>2
  <2>4. StartersKnown'
    BY <1>2, <2>2, <2>3 DEF StopInv, StartersKnown, Starting, InPlace
  <2>5. Drained' /\ NoJobsLeft'
    BY <1>1, <1>2, <2>2 DEF StopInv, Drained, NoJobsLeft, Alongside, Querying, Waited, Starting,
       UserKinds
  <2> QED BY <2>4, <2>5 DEF StopInv
<1>4. CASE ~\E o \in Ops : ScanStart(o)
  <2>1. phase' = phase /\ kind' = kind /\ \A o \in Ops : pc'[o] = pc[o]
    BY <1>1, <1>2, <1>4
    DEF SchedulerStep, CleanupQuery, ScanQuery, ScanSkip, ScanResume, RoundEnds, CleanupPick,
        CleanupCancel, CancelCertJob, CleanupWait, rollbackStuckGenerating, NoSchedEffect,
        registryVars, rollbackGeneratingDomain, RollbackRead, RollbackCert, RollbackWrite, Quiet
  <2>2. \A o \in Ops : InPlace(o)' /\ (Starting(o)' <=> Starting(o))
    BY <2>1 DEF StopInv, StartersKnown, InPlace, Starting
  <2>3. ASSUME NEW o \in Ops, Starting(o), pc[Scheduler] = "scanOp", current = o
        PROVE  pc'[Scheduler] = "scanOp" /\ current' = o
    <3>1. ~ScanResume
      <4>1. pc[o] # "done" /\ phase[o] \notin JobPhases \union WorkerPhases
        BY <2>3 DEF StopInv, StartersKnown, InPlace, Starting, JobPhases, WorkerPhases
      <4> QED BY <2>3, <4>1 DEF ScanResume
    <3> QED BY <1>1, <1>2, <1>4, <2>3, <3>1
        DEF SchedulerStep, CleanupQuery, ScanQuery, ScanSkip, RoundEnds, CleanupPick,
            CleanupCancel, CleanupWait, rollbackStuckGenerating,
            rollbackGeneratingDomain, RollbackRead, RollbackCert, RollbackWrite
  <2>4. StartersKnown'
    BY <2>1, <2>2, <2>3 DEF StopInv, StartersKnown
  <2>5. Drained' /\ NoJobsLeft'
    BY <1>1, <1>2, <2>1, <2>2 DEF StopInv, Drained, NoJobsLeft, Alongside, Querying, Waited
  <2> QED BY <2>4, <2>5 DEF StopInv
<1> QED BY <1>3, <1>4

LEMMA MainStops ==
    ASSUME IInv, StopInv, \/ Signal \/ MainStep \/ ShutdownTimesOut \/ WaitTimesOut
                          \/ MainStatementFails \/ SchedulerStops
    PROVE  StopInv'
<1>1. UNCHANGED <<phase, pc, kind, current>>
  <2>1. CASE CancelAll \/ MainWrite \/ MainStatementFails
    BY <2>1 DEF CancelAll, CancelAllCertJobs, MainWrite, MainStatementFails, registryVars, schedVars
  <2>2. CASE UNCHANGED vars
    BY <2>2 DEF vars, registryVars, schedVars
  <2>3. CASE ~(CancelAll \/ MainWrite \/ MainStatementFails)
    BY <2>2, <2>3
    DEF Signal, MainStep, WaitCertJobs, ShutdownReturns, RollbackQuery, RollbackPick, MainRead,
        MainCert, Stops, ShutdownTimesOut, WaitTimesOut, SchedulerStops
  <2> QED BY <2>1, <2>3
<1>2. StartersKnown'
  BY <1>1 DEF StopInv, StartersKnown, InPlace, Starting
<1>3. \A o \in Ops : Starting(o)' <=> Starting(o)
  BY <1>1 DEF Starting
<1>4. CASE WaitCertJobs
  <2>1. \A o \in Ops : phase[o] \notin JobPhases
    <3>1. IsFiniteSet(Jobs) /\ Cardinality(Jobs) = 0
      BY <1>4, FiniteSets DEF WaitCertJobs, IInv, RegistryInv, JobsCounted
    <3>2. Jobs = {}
      BY <3>1, FS_EmptySet
    <3> QED BY <3>2 DEF Jobs
  <2> QED BY <1>1, <1>2, <1>3, <1>4, <2>1
      DEF WaitCertJobs, MainGoto, StopInv, Drained, NoJobsLeft, Waited
<1>5. CASE ShutdownReturns
  <2>1. \A o \in Ops : Starting(o) => kind[o] \notin UserKinds
    BY <1>5 DEF ShutdownReturns, Handling, Starting
  <2> QED BY <1>1, <1>2, <1>3, <1>5, <2>1
      DEF ShutdownReturns, MainGoto, StopInv, Drained, NoJobsLeft, Waited
<1>6. CASE CancelAll
  <2>1. quiet' => httpDone /\ returned
    BY <1>6 DEF CancelAll
  <2> QED BY <1>1, <1>2, <1>3, <1>6, <2>1
      DEF CancelAll, MainGoto, StopInv, Drained, NoJobsLeft, Waited
<1>7. CASE Signal \/ ShutdownTimesOut \/ WaitTimesOut \/ SchedulerStops
  BY <1>1, <1>2, <1>3, <1>7
  DEF Signal, ShutdownTimesOut, WaitTimesOut, SchedulerStops, MainGoto, StopInv, Drained,
      NoJobsLeft, Waited
<1>8. CASE \/ RollbackQuery \/ (\E d \in Domains : RollbackPick(d)) \/ MainRead \/ MainCert
           \/ MainWrite \/ Stops \/ MainStatementFails
  <2>1. /\ UNCHANGED <<httpDone, returned, quiet, late>>
        /\ main \in Waited /\ main' \in Waited
        /\ main' = "list" => main = "list"
    BY <1>8
    DEF RollbackQuery, RollbackPick, MainRead, MainCert, MainWrite, Stops, MainStatementFails,
        MainGoto, Waited
  <2> QED BY <1>1, <1>2, <1>3, <2>1 DEF StopInv, Drained, NoJobsLeft, Waited
<1> QED BY <1>4, <1>5, <1>6, <1>7, <1>8 DEF MainStep

LEMMA StopInvariant == ShutdownSpec => []StopInv
<1>1. ShutdownInit => StopInv
  BY DEF ShutdownInit, MainInit, Init, RegistryInit, StopInv, StartersKnown, InPlace, Starting,
     Drained, NoJobsLeft, Waited
<1>2. IInv /\ StopInv /\ [ShutdownNext]_allVars => StopInv'
  <2> SUFFICES ASSUME IInv, StopInv, [ShutdownNext]_allVars PROVE StopInv'
    OBVIOUS
  <2>1. ASSUME NEW o \in Ops, OpGoesOn(o) PROVE StopInv'
    BY <2>1, OpGoesOnStops
  <2>2. CASE SchedulerGoesOn
    BY <2>2, SchedulerGoesOnStops
  <2>3. ASSUME NEW o \in Ops, AcmeGoesOn(o) PROVE StopInv'
    <3>1. UNCHANGED <<phase, pc, kind, current>> /\ Alongside
      BY <2>3 DEF AcmeGoesOn, AcmeStart, AcmeReturn, AcmeGoto, registryVars, schedVars
    <3>2. Locked = {}
      BY <3>1 DEF Locked
    <3> QED BY <3>1, <3>2 DEF Alongside, StopInv, StartersKnown, InPlace, Starting, Drained,
            NoJobsLeft
  <2>4. CASE Request
    <3>1. PICK o \in Ops, k \in UserKinds : Arrive(o, k)
      BY <2>4 DEF Request
    <3>2. main = "serving" /\ Alongside /\ UNCHANGED <<phase, current>>
          /\ pc[o] = "idle" /\ pc' = [pc EXCEPT ![o] = "load"] /\ kind' = [kind EXCEPT ![o] = k]
      BY <2>4, <3>1 DEF Request, Arrive, Goto, registryVars, schedVars
    <3>3. pc \in [Procs -> PCs] /\ kind \in [Ops -> Kinds \union {"none"}]
      BY DEF IInv, LifecycleInv, TypesOK, RestOK
    <3>4. StartersKnown'
      <4>1. pc'[Scheduler] = pc[Scheduler] /\ kind'[o] = k /\ pc'[o] = "load"
        BY <3>2, <3>3
      <4>2. ASSUME NEW q \in Ops, q # o
            PROVE  pc'[q] = pc[q] /\ kind'[q] = kind[q] /\ phase'[q] = phase[q]
        BY <3>2, <3>3, <4>2
      <4>3. \A q \in Ops : InPlace(q)'
        BY <3>2, <4>1, <4>2 DEF StopInv, StartersKnown, InPlace
      <4>4. \A q \in Ops : Starting(q)' => q = o \/ Starting(q)
        BY <4>2 DEF Starting
      <4> QED BY <3>2, <4>1, <4>2, <4>3, <4>4 DEF StopInv, StartersKnown
    <3>5. Drained' /\ NoJobsLeft'
      BY <3>2, <3>3 DEF Alongside, Querying, StopInv, Drained, NoJobsLeft, Waited
    <3> QED BY <3>4, <3>5 DEF StopInv
  <2>5. CASE Signal \/ MainStep \/ ShutdownTimesOut \/ WaitTimesOut \/ MainStatementFails
             \/ SchedulerStops
    BY <2>5, MainStops
  <2>6. CASE UNCHANGED allVars
    BY <2>6 DEF allVars, vars, registryVars, schedVars, mainVars, StopInv, StartersKnown, InPlace,
       Starting, Drained, NoJobsLeft
  <2> QED BY <2>1, <2>2, <2>3, <2>4, <2>5, <2>6 DEF ShutdownNext
<1> QED BY <1>1, <1>2, ShutdownInvariant, PTL DEF ShutdownSpec

\* A shutdown that nobody delays, which found no one left to begin a job, exits
\* with no row generating and with no job, registered, running or to come.
THEOREM ShutdownStopsCleanly == ShutdownSpec => []CleanStop
<1>1. IInv /\ StopInv => CleanStop
  <2> SUFFICES ASSUME IInv, StopInv, main = "stopped", quiet, faults = 0
               PROVE  /\ \A d \in Domains : status[d] # "generating" /\ ~certJobInflight(d)
                      /\ \A o \in Ops : phase[o] \notin JobPhases /\ ~Handling(o)
    BY DEF CleanStop
  <2>1. \A o \in Ops : phase[o] \notin JobPhases /\ ~Starting(o)
    BY QuietStarters DEF StopInv, NoJobsLeft, Waited
  <2>2. \A d \in Domains : status[d] # "generating"
    BY DEF IInv, MainInv, Accounted, StopInv, NoJobsLeft, RollingBack
  <2>3. ASSUME NEW d \in Domains, certJobInflight(d) PROVE FALSE
    <3>1. PICK o \in Ops : o = certJobs[d] /\ phase[o] \in EntryPhases
      BY <2>3 DEF IInv, RegistryInv, RegistryOwned, RegistryTypeOK, certJobInflight
    <3>2. phase[o] = "registered" => pc[o] = "begin"
      BY DEF StopInv, StartersKnown, InPlace, IInv, LifecycleInv, TypesOK
    <3> QED BY <2>1, <3>1, <3>2 DEF EntryPhases, JobPhases, Starting
  <2> QED BY <2>1, <2>2, <2>3 DEF Handling, Starting
<1> QED BY <1>1, ShutdownInvariant, StopInvariant, PTL
-----------------------------------------------------------------------------
(* What holds beside main as well: the promises of the rows and of the      *)
(* registry.                                                                *)

\* Main's own steps: cancelling jobs is all they do to the registry, and the
\* update of a rollback all they do to the rows.
LEMMA MainOwnStep ==
    ASSUME IInv, \/ Signal \/ MainStep \/ ShutdownTimesOut \/ WaitTimesOut
                 \/ MainStatementFails \/ SchedulerStops
    PROVE  /\ RowsSame \/ Row!Next
           /\ CancelAllCertJobs \/ UNCHANGED registryVars
<1>1. CASE MainWrite
  <2>1. /\ row \in Domains
        /\ MainStatus \in {"active", "verified", "error"}
        /\ MainStatus = "active" => cert[row]
        /\ MainStatus = "verified" => verifiedAt[row]
    BY <1>1 DEF IInv, MainInv, MainTypes, MainBacked, RollingBack, MainWrite, MainGoto, MainStatus
  <2>2. SetStatus(row, MainStatus) /\ UNCHANGED registryVars
    BY <1>1 DEF MainWrite
  <2> QED BY <2>1, <2>2, ResetIsRowStep
<1>2. CASE CancelAll
  BY <1>2 DEF CancelAll, rowVars, RowsSame
<1>3. CASE MainStatementFails
  BY <1>3 DEF MainStatementFails, rowVars, RowsSame
<1>4. CASE UNCHANGED vars
  BY <1>4 DEF vars, rowVars, RowsSame
<1> QED BY <1>1, <1>2, <1>3, <1>4
    DEF Signal, MainStep, WaitCertJobs, ShutdownReturns, RollbackQuery, RollbackPick, MainRead,
        MainCert, Stops, ShutdownTimesOut, WaitTimesOut, SchedulerStops

LEMMA ShutdownSteps ==
    ASSUME IInv, [ShutdownNext]_allVars
    PROVE  [Row!Next]_Row!rowVars /\ [RegistryNext]_registryVars
<1>1. CASE (\E o \in Ops : OpGoesOn(o) \/ AcmeGoesOn(o)) \/ SchedulerGoesOn \/ Request
  <2>1. [Next]_vars
    BY <1>1, AlongsideIsNext
  <2> QED BY <2>1, RowStep, RegistryStep DEF IInv
<1>2. CASE Signal \/ MainStep \/ ShutdownTimesOut \/ WaitTimesOut \/ MainStatementFails
           \/ SchedulerStops
  BY <1>2, MainOwnStep DEF RowsSame, Row!rowVars, RegistryNext
<1>3. CASE UNCHANGED allVars
  BY <1>3 DEF allVars, vars, rowVars, Row!rowVars
<1> QED BY <1>1, <1>2, <1>3 DEF ShutdownNext

\* Main's rollback, which asks neither the registry nor the lock, resets a row
\* only as DomainRow allows: beside handlers, jobs and scheduler that go on, every
\* status it writes is backed when it is written.
THEOREM ShutdownImplementsDomainRow == ShutdownSpec => RowSpec
<1>1. ShutdownInit => Row!Init
  BY RowInit DEF ShutdownInit
<1>2. IInv /\ [ShutdownNext]_allVars => [Row!Next]_Row!rowVars
  BY ShutdownSteps
<1> QED BY <1>1, <1>2, ShutdownInvariant, PTL DEF ShutdownSpec, RowSpec, Row!Spec

\* Until the process exits the registry is driven through its own steps only, so
\* that what is proved of it holds during a shutdown too.
THEOREM ShutdownImplementsRegistry == ShutdownSpec => RegistrySpec
<1>1. ShutdownInit => RegistryInit
  BY DEF ShutdownInit, Init
<1>2. IInv /\ [ShutdownNext]_allVars => [RegistryNext]_registryVars
  BY ShutdownSteps
<1> QED BY <1>1, <1>2, ShutdownInvariant, PTL DEF ShutdownSpec, RegistrySpec

\* In particular: slots and workers are counted right, no entry outlives its job,
\* and a job refused once is refused for ever, however the shutdown interferes.
THEOREM RegistryHoldsInShutdown ==
    ShutdownSpec => /\ [](SlotsBalanced /\ RegistryOwned /\ WorkersCounted)
                    /\ EntryKept /\ InactiveForever /\ PoolSpec
BY ShutdownImplementsRegistry, RegistryInvariant, EntriesAreKept, InactiveStaysInactive,
   SemaphoreIsSlotPool, PTL DEF RegistryInv
-----------------------------------------------------------------------------
(* What a cancelled job still does *)

LEMMA MainMovesNobody ==
    ASSUME \/ Signal \/ MainStep \/ ShutdownTimesOut \/ WaitTimesOut
           \/ MainStatementFails \/ SchedulerStops
    PROVE  pc' = pc
<1>1. CASE UNCHANGED vars
  BY <1>1 DEF vars
<1> QED BY <1>1
    DEF Signal, MainStep, CancelAll, WaitCertJobs, ShutdownReturns, RollbackQuery, RollbackPick,
        MainRead, MainCert, MainWrite, Stops, ShutdownTimesOut, WaitTimesOut, MainStatementFails,
        SchedulerStops

LEMMA RefusedStays ==
    ASSUME IInv, [ShutdownNext]_allVars, NEW o \in Ops, Refused(o)
    PROVE  Refused(o)'
<1>1. (Begun(o) /\ ~isCertJobActive(o))'
  BY ShutdownSteps, BegunStays, InactiveStep DEF Refused, IInv
<1>2. pc'[o] \notin WritePCs
  <2>1. CASE [Next]_vars
    BY <2>1, WriteIsChecked DEF Refused, IInv
  <2>2. CASE pc' = pc
    BY <2>2 DEF Refused
  <2>3. CASE UNCHANGED allVars
    BY <2>3 DEF allVars, vars, Refused
  <2> QED BY <2>1, <2>2, <2>3, AlongsideIsNext, MainMovesNobody DEF ShutdownNext
<1> QED BY <1>1, <1>2 DEF Refused

\* A job the shutdown cancels before its last check never writes an outcome, even
\* when main has stopped waiting for it and rolls its row back.
THEOREM NoJobWritesLateInShutdown == ShutdownSpec => NoLateWrite
<1>1. IInv /\ [ShutdownNext]_allVars => [\A o \in Ops : Refused(o) => Refused(o)']_vars
  BY RefusedStays
<1> QED BY <1>1, ShutdownInvariant, PTL DEF ShutdownSpec, NoLateWrite

\* Entries of the registry are new only where an operation is in beginCertJob.
LEMMA OnlyStartersRegister ==
    ASSUME LifecycleInv, RegistryTypeOK, Next, NEW d \in Domains, \A o \in Ops : ~Starting(o)
    PROVE  certJobs'[d] \in {certJobs[d], NoJob}
<1> USE DEF registryVars
<1>1. ASSUME NEW o \in Ops, HandlerStep(o) PROVE FALSE
  <2>1. pc[o] \in HandlerPCs
    BY <1>1
    DEF HandlerStep, LoadDomain, CheckExisting, CnameHolds, Refuse, RecheckExisting, Goto,
        markDomainCnameVerified, LockNeedsCert, LockRead, LockInflight, LockCancel, LockWait,
        LockCas, LockUser, LockUserMissing, TakeSlot, NoSlot, StartCertJob
  <2> QED BY <2>1 DEF Starting
<1>2. ASSUME NEW o \in Ops, JobStep(o) PROVE certJobs'[d] \in {certJobs[d], NoJob}
  <2>1. CASE EndJob(o)
    BY <2>1 DEF EndJob, RegistryTypeOK
  <2>2. CASE certJobs' = certJobs
    BY <2>2
  <2> QED BY <1>2, <2>1, <2>2
      DEF JobStep, JobBegins, BeginDomainWorker, JobStart, JobCname, JobCert, JobAcme, JobAbandons,
          JobTakesResult, JobErr, JobCtx, JobActive, JobSave, FailCheck, FailCert, FailSet,
          CancelActive, CancelInflight, JobReturns, ReleaseCertJobSlot, JobDone, WorkerDone, Quiet
<1>3. ASSUME NEW p \in Procs, rollbackGeneratingDomain(p) PROVE certJobs' = certJobs
  BY <1>3 DEF rollbackGeneratingDomain, RollbackRead, RollbackCert, RollbackWrite, Quiet
<1>4. CASE SchedulerStep \/ CleanupQuery
  BY <1>3, <1>4
  DEF SchedulerStep, CleanupQuery, ScanQuery, ScanSkip, ScanStart, ScanResume, RoundEnds,
      CleanupPick, CleanupCancel, CancelCertJob, CleanupWait, rollbackStuckGenerating
<1>5. CASE TimePasses \/ Crash \/ \E p \in Procs : StatementFails(p)
  BY <1>5 DEF TimePasses, Tick, Crash, Restart, StatementFails
<1>6. ASSUME NEW o \in Ops, AcmeStart(o) \/ AcmeReturn(o) \/ \E k \in UserKinds : Arrive(o, k)
      PROVE  certJobs' = certJobs
  BY <1>6 DEF AcmeStart, AcmeReturn, AcmeGoto, Arrive
<1>7. ASSUME NEW e \in VerifyDomains, VerifyCname(e) PROVE certJobs' = certJobs
  BY <1>7 DEF VerifyCname
<1> QED BY <1>1, <1>2, <1>3, <1>4, <1>5, <1>6, <1>7 DEF Next, OpStep

\* After a cancellation that found nobody left to begin a job, every entry of the
\* registry is a cancelled job's, so that isCertJobActive refuses all of them.
CancelledForGood == quiet => \A d \in Domains : certJobInflight(d) => CtxDone(certJobs[d])

\* No operation reaches a write of an outcome that was not at one already.
NobodyComesToWrite == quiet => \A o \in Ops : pc'[o] \in WritePCs => pc[o] \in WritePCs

LEMMA DoneStays ==
    ASSUME RegistryInv, [RegistryNext]_registryVars, NEW d \in Domains,
           certJobInflight(d), CtxDone(certJobs[d]), certJobs'[d] = certJobs[d]
    PROVE  CtxDone(certJobs[d])'
<1> DEFINE o == certJobs[d]
<1>1. o \in Ops /\ Begun(o) /\ DomainOf[o] = d /\ ~isCertJobActive(o)
  BY DEF RegistryInv, RegistryTypeOK, RegistryOwned, certJobInflight, EntryPhases, Begun,
     isCertJobActive
<1>2. ~isCertJobActive(o)'
  BY <1>1, InactiveStep
<1> QED BY <1>1, <1>2 DEF isCertJobActive

LEMMA QuietStep ==
    ASSUME IInv, StopInv, CancelledForGood, [ShutdownNext]_allVars
    PROVE  CancelledForGood'
<1> SUFFICES ASSUME quiet', NEW d \in Domains, certJobInflight(d)'
             PROVE  CtxDone(certJobs[d])'
  BY DEF CancelledForGood
<1>1. CASE CancelAll
  <2>1. certJobs' = certJobs /\ cancelled' = cancelled \union ({certJobs[e] : e \in Domains} \ {NoJob})
    BY <1>1 DEF CancelAll, CancelAllCertJobs, CancelEntries
  <2> QED BY <2>1 DEF CtxDone, certJobInflight
<1>2. CASE ~CancelAll
  <2>1. quiet
    BY <1>2
    DEF ShutdownNext, Signal, MainStep, WaitCertJobs, ShutdownReturns, RollbackQuery, RollbackPick,
        MainRead, MainCert, MainWrite, Stops, ShutdownTimesOut, WaitTimesOut, MainStatementFails,
        SchedulerStops, OpGoesOn, AcmeGoesOn, SchedulerGoesOn, Request, Alongside, allVars, mainVars
  <2>2. certJobs'[d] = certJobs[d]
    <3>1. CASE Next
      BY <2>1, <3>1, OnlyStartersRegister, QuietStarters DEF IInv, RegistryInv, certJobInflight
    <3>2. CASE UNCHANGED allVars
      BY <3>2 DEF allVars, vars, registryVars
    <3>3. CASE CancelAllCertJobs \/ UNCHANGED registryVars
      BY <3>3 DEF CancelAllCertJobs, registryVars
    <3> QED BY <3>1, <3>2, <3>3, AlongsideIsNext, MainOwnStep DEF ShutdownNext
  <2>3. certJobInflight(d) /\ CtxDone(certJobs[d])
    BY <2>1, <2>2 DEF CancelledForGood, certJobInflight
  <2> QED BY <2>2, <2>3, DoneStays, ShutdownSteps DEF IInv
<1> QED BY <1>1, <1>2

\* After a cancellation that found no one left to begin a job, no job comes to
\* write any more: what is still written was past its last check at that moment.
THEOREM CancellationIsFinal == ShutdownSpec => [][NobodyComesToWrite]_allVars
<1>1. ShutdownInit => CancelledForGood
  BY DEF ShutdownInit, MainInit, CancelledForGood
<1>2. IInv /\ StopInv /\ CancelledForGood /\ [ShutdownNext]_allVars => CancelledForGood'
  BY QuietStep
<1>3. IInv /\ CancelledForGood /\ [ShutdownNext]_allVars => [NobodyComesToWrite]_allVars
  <2> SUFFICES ASSUME IInv, CancelledForGood, [ShutdownNext]_allVars, quiet,
                      NEW o \in Ops, pc[o] \notin WritePCs
               PROVE  pc'[o] \notin WritePCs
    BY DEF NobodyComesToWrite
  <2>1. ~isCertJobActive(o)
    BY DEF CancelledForGood, isCertJobActive, certJobInflight, IInv, RegistryInv, RegistryOwned,
       RegistryTypeOK
  <2>2. CASE [Next]_vars
    BY <2>1, <2>2, WriteIsChecked DEF IInv
  <2>3. CASE pc' = pc
    BY <2>3
  <2>4. CASE UNCHANGED allVars
    BY <2>4 DEF allVars, vars
  <2> QED BY <2>2, <2>3, <2>4, AlongsideIsNext, MainMovesNobody DEF ShutdownNext
<1> QED BY <1>1, <1>2, <1>3, ShutdownInvariant, StopInvariant, PTL DEF ShutdownSpec
=============================================================================
