------------------------------- MODULE Shutdown -------------------------------
(***************************************************************************)
(* The graceful shutdown of main.go over CertLifecycle: stop the HTTP      *)
(* server, cancel the jobs, wait for them, roll back the rows that are     *)
(* still generating, exit.  The handlers, the jobs and the scheduler go on *)
(* until the process ends, and the two waits may be given up: at whatever  *)
(* point of everybody else's work, so no clock is needed for them.  What   *)
(* happens to the others otherwise (timeouts, failing statements, crashes, *)
(* cname/verify) is the subject of CertLifecycle alone.                    *)
(***************************************************************************)
EXTENDS CertLifecycle

VARIABLES
    main,       \* where main is
    httpDone,   \* srv.Shutdown returned because every handler had
    returned,   \* StartRenewalScheduler has returned
    quiet,      \* history: at the cancellation no one was left to begin a job, and the
                \* wait for the jobs was not given up
    rows,       \* the rows RollbackAllGeneratingDomains has queried
    row,        \* the one it is at
    saw,        \* what its rollback has read of it
    late        \* history: the domains locked since that query

mainVars == <<main, httpDone, returned, quiet, rows, row, saw, late>>
allVars  == <<vars, mainVars>>

MainPCs ==
    {"serving", "draining", "cancel", "waiting", "list", "next", "rbRead", "rbCert", "rbWrite",
     "stopped"}

Unseen == [verified |-> FALSE, cert |-> FALSE]

MainInit ==
    /\ main = "serving"
    /\ httpDone = FALSE /\ returned = FALSE /\ quiet = FALSE
    /\ rows = {} /\ row = Null /\ saw = Unseen /\ late = {}

ShutdownInit == Init /\ MainInit

MainGoto(from, to) == main = from /\ main' = to

-----------------------------------------------------------------------------
(* main *)

\* SIGTERM: the listeners are closed and the context of the scheduler is done.
Signal ==
    /\ MainGoto("serving", "draining")
    /\ UNCHANGED <<vars, httpDone, returned, quiet, rows, row, saw, late>>

\* A user's request that is not answered yet.
Handling(o) ==
    /\ kind[o] \in UserKinds
    /\ pc[o] \in HandlerPCs \/ (pc[o] \in RollbackPCs /\ phase[o] = "idle")

ShutdownReturns ==
    /\ MainGoto("draining", "cancel")
    /\ ~\E o \in Ops : Handling(o)
    /\ httpDone' = TRUE
    /\ UNCHANGED <<vars, returned, quiet, rows, row, saw, late>>

\* httpShutdownTimeout: the handlers that are left go on.
ShutdownTimesOut ==
    /\ MainGoto("draining", "cancel")
    /\ \E o \in Ops : Handling(o)
    /\ UNCHANGED <<vars, httpDone, returned, quiet, rows, row, saw, late>>

CancelAll ==
    /\ MainGoto("cancel", "waiting")
    /\ CancelAllCertJobs
    /\ quiet' = (httpDone /\ returned)
    /\ UNCHANGED <<rowVars, pc, kind, local, lag, timer, acme, schedVars, envVars>>
    /\ UNCHANGED <<httpDone, returned, rows, row, saw, late>>

WaitCertJobs ==
    /\ MainGoto("waiting", "list")
    /\ certJobWG = 0
    /\ UNCHANGED <<vars, httpDone, returned, quiet, rows, row, saw, late>>

\* ACMEWorkDrainBudget has elapsed.
WaitTimesOut ==
    /\ MainGoto("waiting", "list")
    /\ certJobWG # 0
    /\ quiet' = FALSE
    /\ UNCHANGED <<vars, httpDone, returned, rows, row, saw, late>>

\* The query of the cleanup, which leaves younger locks alone.
BugRollbackQuery ==
    /\ MainGoto("list", "next")
    /\ rows' = {d \in Domains : Stale(d)}
    /\ UNCHANGED <<vars, httpDone, returned, quiet, row, saw, late>>

\* RollbackAllGeneratingDomains
RollbackQuery ==
    /\ MainGoto("list", "next")
    /\ rows' = {d \in Domains : status[d] = "generating"}
    /\ UNCHANGED <<vars, httpDone, returned, quiet, row, saw, late>>

\* A registered job keeps its row from being reset.
BugRollbackPick(d) ==
    /\ d \in rows
    /\ MainGoto("next", IF certJobInflight(d) THEN "next" ELSE "rbRead")
    /\ rows' = rows \ {d}
    /\ row' = d
    /\ UNCHANGED <<vars, httpDone, returned, quiet, saw, late>>

\* rollbackStuckGenerating(domain, true): the registry is not asked.
RollbackPick(d) ==
    /\ d \in rows
    /\ MainGoto("next", "rbRead")
    /\ rows' = rows \ {d}
    /\ row' = d
    /\ UNCHANGED <<vars, httpDone, returned, quiet, saw, late>>

\* rollbackGeneratingDomain, as in CertLifecycle.
MainRead ==
    /\ MainGoto("rbRead", IF status[row] = "generating" THEN "rbCert" ELSE "next")
    /\ saw' = [saw EXCEPT !.verified = status[row] = "generating" /\ verifiedAt[row]]
    /\ UNCHANGED <<vars, httpDone, returned, quiet, rows, row, late>>

MainCert ==
    /\ MainGoto("rbCert", "rbWrite")
    /\ saw' = [saw EXCEPT !.cert = cert[row]]
    /\ UNCHANGED <<vars, httpDone, returned, quiet, rows, row, late>>

\* Whatever was read, the domain was issued once.
BugMainStatus == "active"

MainStatus == IF saw.cert THEN "active" ELSE IF saw.verified THEN "verified" ELSE "error"

MainWrite ==
    /\ MainGoto("rbWrite", "next")
    /\ SetStatus(row, MainStatus)
    /\ saw' = Unseen
    /\ UNCHANGED <<registryVars, pc, kind, local, lag, timer, acme, schedVars, envVars>>
    /\ UNCHANGED <<httpDone, returned, quiet, rows, row, late>>

Stops ==
    /\ MainGoto("next", "stopped")
    /\ rows = {}
    /\ row' = Null
    /\ UNCHANGED <<vars, httpDone, returned, quiet, rows, saw, late>>

\* The query's error ends the rollback; those of a rollback's statements are as
\* in AfterFault.
MainStatementFails ==
    /\ faults < MaxFaults
    /\ faults' = faults + 1
    /\ main \in {"list", "rbRead", "rbCert", "rbWrite"}
    /\ main' = IF main = "rbCert" THEN "rbWrite" ELSE "next"
    /\ saw' = IF main = "rbCert" THEN saw ELSE Unseen
    /\ UNCHANGED <<registryVars, rowVars, pc, kind, local, lag, timer, acme, schedVars, crashes>>
    /\ UNCHANGED <<httpDone, returned, quiet, rows, row, late>>

MainStep ==
    \/ CancelAll \/ WaitCertJobs \/ ShutdownReturns
    \/ RollbackQuery \/ \E d \in Domains : RollbackPick(d)
    \/ MainRead \/ MainCert \/ MainWrite \/ Stops

-----------------------------------------------------------------------------
(* The others, while the process lives *)

\* The update of lockDomainForCertJob.
Locked == {DomainOf[o] : o \in {o \in Ops : pc[o] = "lockCas" /\ pc'[o] = "lockUser"}}

Querying == main \in {"next", "rbRead", "rbCert", "rbWrite"}

Alongside ==
    /\ main # "stopped"
    /\ late' = IF Querying THEN late \union Locked ELSE late
    /\ UNCHANGED <<main, httpDone, returned, quiet, rows, row, saw>>

OpGoesOn(o) == OpStep(o) /\ Alongside

AcmeGoesOn(o) == (AcmeStart(o) \/ AcmeReturn(o)) /\ Alongside

\* In the select of StartRenewalScheduler a ticker may be chosen although the
\* context is done; a scan or cleanup that has begun is finished.
SchedulerGoesOn == ~returned /\ (SchedulerStep \/ CleanupQuery) /\ Alongside

\* The scheduler's goroutine is forgotten in the middle of its scan.
BugSchedulerStops ==
    /\ main \notin {"serving", "stopped"}
    /\ ~returned
    /\ returned' = TRUE
    /\ UNCHANGED <<vars, main, httpDone, quiet, rows, row, saw, late>>

SchedulerStops ==
    /\ main \notin {"serving", "stopped"}
    /\ ~returned /\ pc[Scheduler] = "idle"
    /\ returned' = TRUE
    /\ UNCHANGED <<vars, main, httpDone, quiet, rows, row, saw, late>>

\* New requests come only while serving.
Request ==
    /\ main = "serving"
    /\ \E o \in Ops, k \in UserKinds : Arrive(o, k)
    /\ Alongside

ShutdownNext ==
    \/ Signal \/ MainStep \/ ShutdownTimesOut \/ WaitTimesOut \/ MainStatementFails
    \/ \E o \in Ops : OpGoesOn(o) \/ AcmeGoesOn(o)
    \/ SchedulerGoesOn \/ SchedulerStops
    \/ Request

ShutdownSpec == ShutdownInit /\ [][ShutdownNext]_allVars

\* As in CertLifecycle, and main goes on.  The two waits need not time out.
ShutdownFairness ==
    /\ WF_allVars(MainStep)
    /\ \A o \in Ops : WF_allVars(OpGoesOn(o))
    /\ WF_allVars(SchedulerGoesOn)

FairShutdownSpec == ShutdownSpec /\ ShutdownFairness

-----------------------------------------------------------------------------
(* Properties *)

\* The types, and what main is at.
MainTypeOK ==
    /\ TypeOK
    /\ main \in MainPCs
    /\ httpDone \in BOOLEAN /\ returned \in BOOLEAN /\ quiet \in BOOLEAN
    /\ rows \subseteq Domains
    /\ row \in Domains \union {Null}
    /\ main \in {"rbRead", "rbCert", "rbWrite"} => row \in Domains
    /\ saw \in [verified : BOOLEAN, cert : BOOLEAN]
    /\ late \subseteq Domains

\* RollbackAllGeneratingDomains "resets every domain stuck in generating": one
\* that is generating when the process exits was locked after its query.
LeftGenerating ==
    main = "stopped" /\ faults = 0
        => \A d \in Domains : status[d] = "generating" => d \in late

\* When nobody was left to begin a job at the cancellation and the wait was not
\* given up, the process exits with no row generating and no job running: nothing
\* is written after the rollback.
CleanStop ==
    main = "stopped" /\ quiet /\ faults = 0
        => /\ \A d \in Domains : status[d] # "generating" /\ ~certJobInflight(d)
           /\ \A o \in Ops : phase[o] \notin JobPhases /\ ~Handling(o)

\* Then, too, cancelling is enough: the jobs end by themselves, however long
\* Obtain and Renew go on, and the drain budget is not needed.
CancelEndsJobs == main = "waiting" /\ quiet ~> main = "stopped"

\* RollbackAllGeneratingDomains "resets every domain stuck in generating (used on
\* shutdown)".
NothingLeftGenerating == main = "stopped" => \A d \in Domains : status[d] # "generating"

\* CancelAllCertJobs "cancels every in-flight certificate job (used during
\* shutdown)": while main waits, whatever job it waits for was cancelled.
AllJobsCancelled ==
    main = "waiting" => \A o \in Ops : phase[o] \in JobPhases => CtxDone(o)

\* ACMEWorkDrainBudget is how long to "wait for in-flight Lego work": when the
\* wait ended in time, there is none.
LegoDrained == main = "stopped" /\ quiet => \A o \in Ops : acme[o] # "running"
=============================================================================
