----------------------- MODULE CertJobRegistryProofs -----------------------
(***************************************************************************)
(* Proofs about the registry of certificate jobs, for every set of         *)
(* domains, every finite set of operations and every limit.                *)
(***************************************************************************)
EXTENDS CertJobRegistry, FiniteSetTheorems, TLAPS

\* The job goroutines WaitCertJobs waits for, and that certJobWG counts them.
Jobs == {o \in Ops : phase[o] \in JobPhases}
JobsCounted == certJobWG = Cardinality(Jobs)

\* The inductive invariant.  The type of the counters depends on their being
\* the sizes of sets of operations: no counter is decremented below zero.
RegistryInv ==
    /\ RegistryTypeOK
    /\ SlotsBalanced
    /\ WorkersCounted
    /\ JobsCounted
    /\ RegistryOwned

-----------------------------------------------------------------------------
(* Sets of operations and their sizes *)

LEMMA OneMore ==
    ASSUME NEW S, IsFiniteSet(S), NEW x, x \notin S
    PROVE  Cardinality(S \union {x}) = Cardinality(S) + 1
BY FS_AddElement

LEMMA OneLess ==
    ASSUME NEW S, IsFiniteSet(S), NEW x, x \in S
    PROVE  /\ Cardinality(S \ {x}) = Cardinality(S) - 1
           /\ Cardinality(S) \in Nat /\ Cardinality(S) > 0
<1>1. Cardinality(S) \in Nat /\ Cardinality(S) # 0
  BY FS_CardinalityType, FS_EmptySet
<1>2. QED
  BY <1>1, FS_RemoveElement

LEMMA FiniteSets ==
    /\ IsFiniteSet(SlotHolders)
    /\ IsFiniteSet(Jobs)
    /\ \A d \in Domains : IsFiniteSet(Workers(d))
<1>1. /\ SlotHolders \in SUBSET Ops
      /\ Jobs \in SUBSET Ops
      /\ \A d \in Domains : Workers(d) \in SUBSET Ops
  BY DEF SlotHolders, Jobs, Workers
<1>2. QED
  BY <1>1, FS_Subset, RegistryAssumption DEF RegistryAssumption

\* A step from one phase to the next moves one operation into a set of phases,
\* out of it, or neither.
LEMMA PhaseStep ==
    ASSUME phase \in [Ops -> Phases], NEW o \in Ops,
           NEW from \in Phases, NEW to \in Phases, Advance(o, from, to)
    PROVE  /\ phase[o] = from
           /\ phase' \in [Ops -> Phases]
           /\ phase'[o] = to
           /\ \A p \in Ops : p # o => phase'[p] = phase[p]
BY DEF Advance

LEMMA SlotsAfter ==
    ASSUME phase \in [Ops -> Phases], NEW o \in Ops,
           NEW from \in Phases, NEW to \in Phases, Advance(o, from, to)
    PROVE  /\ (from \in SlotPhases <=> to \in SlotPhases) => SlotHolders' = SlotHolders
           /\ from \notin SlotPhases /\ to \in SlotPhases =>
                SlotHolders' = SlotHolders \union {o} /\ o \notin SlotHolders
           /\ from \in SlotPhases /\ to \notin SlotPhases =>
                SlotHolders' = SlotHolders \ {o} /\ o \in SlotHolders
BY PhaseStep DEF SlotHolders

LEMMA JobsAfter ==
    ASSUME phase \in [Ops -> Phases], NEW o \in Ops,
           NEW from \in Phases, NEW to \in Phases, Advance(o, from, to)
    PROVE  /\ (from \in JobPhases <=> to \in JobPhases) => Jobs' = Jobs
           /\ from \notin JobPhases /\ to \in JobPhases =>
                Jobs' = Jobs \union {o} /\ o \notin Jobs
           /\ from \in JobPhases /\ to \notin JobPhases =>
                Jobs' = Jobs \ {o} /\ o \in Jobs
BY PhaseStep DEF Jobs

LEMMA WorkersAfter ==
    ASSUME phase \in [Ops -> Phases], NEW o \in Ops, NEW d,
           NEW from \in Phases, NEW to \in Phases, Advance(o, from, to)
    PROVE  /\ (from \in WorkerPhases <=> to \in WorkerPhases) \/ DomainOf[o] # d =>
                Workers(d)' = Workers(d)
           /\ from \notin WorkerPhases /\ to \in WorkerPhases /\ DomainOf[o] = d =>
                Workers(d)' = Workers(d) \union {o} /\ o \notin Workers(d)
           /\ from \in WorkerPhases /\ to \notin WorkerPhases /\ DomainOf[o] = d =>
                Workers(d)' = Workers(d) \ {o} /\ o \in Workers(d)
BY PhaseStep DEF Workers

USE DEF Phases, SlotPhases, JobPhases, WorkerPhases, EntryPhases

-----------------------------------------------------------------------------
(* The invariant is inductive. *)

LEMMA InvInit == RegistryInit => RegistryInv
<1> SUFFICES ASSUME RegistryInit PROVE RegistryInv
  OBVIOUS
<1>1. RegistryTypeOK
  BY RegistryAssumption DEF RegistryAssumption, RegistryInit, RegistryTypeOK
<1>2. SlotHolders = {} /\ Jobs = {} /\ \A d \in Domains : Workers(d) = {}
  BY DEF RegistryInit, SlotHolders, Jobs, Workers
<1>3. SlotsBalanced /\ WorkersCounted /\ JobsCounted
  BY <1>2, FS_EmptySet DEF RegistryInit, SlotsBalanced, WorkersCounted, JobsCounted
<1>4. RegistryOwned
  BY DEF RegistryInit, RegistryOwned, certJobInflight
<1>5. QED
  BY <1>1, <1>3, <1>4 DEF RegistryInv

\* Steps that move an operation without entering or leaving one of the three
\* counted sets, and touch no counter.
LEMMA CountsKept ==
    ASSUME RegistryInv, UNCHANGED <<certJobSlots, domainWorker, certJobWG>>,
           SlotHolders' = SlotHolders, Jobs' = Jobs,
           \A d \in Domains : Workers(d)' = Workers(d)
    PROVE  SlotsBalanced' /\ WorkersCounted' /\ JobsCounted'
BY DEF RegistryInv, SlotsBalanced, WorkersCounted, JobsCounted

LEMMA CancelType ==
    ASSUME RegistryTypeOK, NEW ds \in SUBSET Domains, CancelEntries(ds)
    PROVE  cancelled' \subseteq Ops
BY DEF RegistryTypeOK, CancelEntries

LEMMA AcquireStep ==
    ASSUME RegistryInv, NEW o \in Ops, TryAcquireCertJobSlot(o)
    PROVE  RegistryInv'
<1> USE DEF RegistryInv, TryAcquireCertJobSlot
<1>1. Advance(o, "idle", "slotted") /\ phase \in [Ops -> Phases]
  BY DEF RegistryTypeOK
<1>2. /\ SlotHolders' = SlotHolders \union {o} /\ o \notin SlotHolders
      /\ Jobs' = Jobs
      /\ \A d \in Domains : Workers(d)' = Workers(d)
  BY <1>1, SlotsAfter, JobsAfter, WorkersAfter
<1>3. SlotsBalanced'
  BY <1>2, FiniteSets, OneMore DEF SlotsBalanced
<1>4. WorkersCounted' /\ JobsCounted'
  BY <1>2 DEF WorkersCounted, JobsCounted
<1>5. RegistryTypeOK'
  BY <1>1, PhaseStep, RegistryAssumption DEF RegistryTypeOK, RegistryAssumption
<1>6. RegistryOwned'
  BY <1>1, PhaseStep DEF RegistryOwned, RegistryTypeOK, certJobInflight
<1>7. QED
  BY <1>3, <1>4, <1>5, <1>6

\* The steps of beginCertJob: the operation holds its slot throughout and is
\* no worker yet.
LEMMA BeginStep ==
    ASSUME RegistryInv, NEW o \in Ops, BeginCancel(o) \/ WaitReturns(o) \/ Register(o)
    PROVE  RegistryInv'
<1> USE DEF RegistryInv
<1>1. PICK from \in {"slotted", "waiting", "waited"}, to \in {"waiting", "waited", "registered"} :
        Advance(o, from, to)
  BY DEF BeginCancel, WaitReturns, Register
<1>2. /\ SlotHolders' = SlotHolders /\ Jobs' = Jobs
      /\ \A d \in Domains : Workers(d)' = Workers(d)
  BY <1>1, SlotsAfter, JobsAfter, WorkersAfter DEF RegistryTypeOK
<1> /\ phase[o] = from
    /\ phase' \in [Ops -> Phases] /\ phase'[o] = to
    /\ \A p \in Ops : p # o => phase'[p] = phase[p]
  BY <1>1, PhaseStep DEF RegistryTypeOK
<1>3. UNCHANGED <<certJobSlots, domainWorker, certJobWG>>
  BY DEF BeginCancel, WaitReturns, Register
<1>4. SlotsBalanced' /\ WorkersCounted' /\ JobsCounted'
  BY <1>2, <1>3, CountsKept
<1>5. RegistryTypeOK'
  <2>1. certJobs' \in [Domains -> Ops \union {NoJob}]
    BY RegistryAssumption DEF RegistryAssumption, RegistryTypeOK, BeginCancel, WaitReturns, Register
  <2>2. cancelled' \subseteq Ops
    <3>1. CASE BeginCancel(o)
      <4>1. {DomainOf[o]} \in SUBSET Domains /\ CancelEntries({DomainOf[o]})
        BY <3>1, RegistryAssumption DEF RegistryAssumption, BeginCancel
      <4>2. QED
        BY <4>1, CancelType
    <3>2. CASE WaitReturns(o) \/ Register(o)
      BY <3>2 DEF RegistryTypeOK, WaitReturns, Register
    <3>3. QED
      BY <3>1, <3>2
  <2>3. age' \in [Ops -> 0..GeneratingTimeout]
    BY RegistryAssumption DEF RegistryAssumption, RegistryTypeOK, BeginCancel, WaitReturns, Register
  <2>4. QED
    BY <1>2, <1>3, <2>1, <2>2, <2>3 DEF RegistryTypeOK
<1>6. RegistryOwned'
  <2>1. CASE Register(o)
    <3>1. phase'[o] = "registered"
      BY <2>1, PhaseStep DEF Register, RegistryTypeOK
    <3>2. DomainOf[o] \in Domains /\ certJobs' = [certJobs EXCEPT ![DomainOf[o]] = o]
      BY <2>1, RegistryAssumption DEF RegistryAssumption, Register
    <3>3. QED
      BY <3>1, <3>2 DEF RegistryOwned, RegistryTypeOK, certJobInflight
  <2>2. CASE BeginCancel(o) \/ WaitReturns(o)
    BY <1>2, <2>2 DEF RegistryOwned, RegistryTypeOK, certJobInflight, BeginCancel, WaitReturns
  <2>3. QED
    BY <2>1, <2>2
<1>7. QED
  BY <1>4, <1>5, <1>6

LEMMA SpawnStep ==
    ASSUME RegistryInv, NEW o \in Ops, Spawn(o)
    PROVE  RegistryInv'
<1> USE DEF RegistryInv, Spawn
<1>1. /\ SlotHolders' = SlotHolders
      /\ Jobs' = Jobs \union {o} /\ o \notin Jobs
      /\ \A d \in Domains : Workers(d)' = Workers(d)
  BY SlotsAfter, JobsAfter, WorkersAfter DEF RegistryTypeOK
<1> /\ phase' \in [Ops -> Phases] /\ phase'[o] = "spawned" /\ phase[o] = "registered"
    /\ \A p \in Ops : p # o => phase'[p] = phase[p]
  BY PhaseStep DEF RegistryTypeOK
<1>2. JobsCounted'
  BY <1>1, FiniteSets, OneMore DEF JobsCounted
<1>3. SlotsBalanced' /\ WorkersCounted'
  BY <1>1 DEF SlotsBalanced, WorkersCounted
<1>4. RegistryTypeOK'
  BY <1>1 DEF RegistryTypeOK
<1>5. RegistryOwned'
  BY <1>1 DEF RegistryOwned, RegistryTypeOK, certJobInflight
<1>6. QED
  BY <1>2, <1>3, <1>4, <1>5

LEMMA BeginDomainWorkerStep ==
    ASSUME RegistryInv, NEW o \in Ops, BeginDomainWorker(o)
    PROVE  RegistryInv'
<1> USE DEF RegistryInv, BeginDomainWorker
<1> DEFINE d0 == DomainOf[o]
<1>1. /\ SlotHolders' = SlotHolders /\ Jobs' = Jobs
      /\ Workers(d0)' = Workers(d0) \union {o} /\ o \notin Workers(d0)
      /\ \A d \in Domains : d # d0 => Workers(d)' = Workers(d)
  BY SlotsAfter, JobsAfter, WorkersAfter DEF RegistryTypeOK
<1> /\ phase' \in [Ops -> Phases] /\ phase'[o] = "running" /\ phase[o] = "spawned"
    /\ \A p \in Ops : p # o => phase'[p] = phase[p]
  BY PhaseStep DEF RegistryTypeOK
<1>2. d0 \in Domains
  BY RegistryAssumption DEF RegistryAssumption
<1>3. WorkersCounted'
  <2>1. Cardinality(Workers(d0)') = Cardinality(Workers(d0)) + 1
    BY <1>1, <1>2, FiniteSets, OneMore
  <2>2. QED
    BY <1>1, <1>2, <2>1 DEF WorkersCounted, RegistryTypeOK
<1>4. SlotsBalanced' /\ JobsCounted'
  BY <1>1 DEF SlotsBalanced, JobsCounted
<1>5. RegistryTypeOK'
  BY <1>1, <1>2 DEF RegistryTypeOK
<1>6. RegistryOwned'
  BY <1>1 DEF RegistryOwned, RegistryTypeOK, certJobInflight
<1>7. QED
  BY <1>3, <1>4, <1>5, <1>6

\* The deferred calls.  The worker holds its slot until the first of them, so the
\* semaphore is not empty then and the default branch is not taken.
LEMMA ReleaseSlotStep ==
    ASSUME RegistryInv, NEW o \in Ops, ReleaseCertJobSlot(o)
    PROVE  RegistryInv' /\ certJobSlots > 0
<1> USE DEF RegistryInv, ReleaseCertJobSlot
<1>1. /\ SlotHolders' = SlotHolders \ {o} /\ o \in SlotHolders
      /\ Jobs' = Jobs
      /\ \A d \in Domains : Workers(d)' = Workers(d)
  BY SlotsAfter, JobsAfter, WorkersAfter DEF RegistryTypeOK
<1> /\ phase' \in [Ops -> Phases] /\ phase'[o] = "unslotted" /\ phase[o] = "running"
    /\ \A p \in Ops : p # o => phase'[p] = phase[p]
  BY PhaseStep DEF RegistryTypeOK
<1>2. /\ Cardinality(SlotHolders') = Cardinality(SlotHolders) - 1
      /\ Cardinality(SlotHolders) \in Nat /\ Cardinality(SlotHolders) > 0
  BY <1>1, FiniteSets, OneLess
<1>3. SlotsBalanced' /\ certJobSlots > 0
  BY <1>2 DEF SlotsBalanced
<1>4. WorkersCounted' /\ JobsCounted'
  BY <1>1 DEF WorkersCounted, JobsCounted
<1>5. RegistryTypeOK'
  BY <1>3, RegistryAssumption DEF RegistryTypeOK, RegistryAssumption
<1>6. RegistryOwned'
  BY DEF RegistryOwned, RegistryTypeOK, certJobInflight
<1>7. QED
  BY <1>3, <1>4, <1>5, <1>6

\* Whatever entry the domain has now, none is left that belongs to o.
LEMMA EndJobStep ==
    ASSUME RegistryInv, NEW o \in Ops, EndJob(o)
    PROVE  RegistryInv'
<1> USE DEF RegistryInv, EndJob
<1>1. /\ SlotHolders' = SlotHolders /\ Jobs' = Jobs
      /\ \A d \in Domains : Workers(d)' = Workers(d)
  BY SlotsAfter, JobsAfter, WorkersAfter DEF RegistryTypeOK
<1> /\ phase' \in [Ops -> Phases] /\ phase'[o] = "released" /\ phase[o] = "unslotted"
    /\ \A p \in Ops : p # o => phase'[p] = phase[p]
  BY PhaseStep DEF RegistryTypeOK
<1>2. SlotsBalanced' /\ WorkersCounted' /\ JobsCounted'
  BY <1>1, CountsKept
<1>3. RegistryTypeOK'
  BY DEF RegistryTypeOK
<1>4. RegistryOwned'
  <2> SUFFICES ASSUME NEW d \in Domains, certJobs'[d] # NoJob
               PROVE  DomainOf[certJobs'[d]] = d /\ phase'[certJobs'[d]] \in EntryPhases
    BY DEF RegistryOwned, certJobInflight
  <2>1. certJobs'[d] = certJobs[d]
    BY RegistryAssumption DEF RegistryAssumption, RegistryTypeOK
  <2>2. /\ certJobs[d] \in Ops /\ DomainOf[certJobs[d]] = d
        /\ phase[certJobs[d]] \in EntryPhases
    BY <2>1 DEF RegistryTypeOK, RegistryOwned, certJobInflight
  <2>3. certJobs[d] # o
    BY <2>1, <2>2 DEF RegistryTypeOK
  <2>4. QED
    BY <2>1, <2>2, <2>3
<1>5. QED
  BY <1>2, <1>3, <1>4

LEMMA JobDoneStep ==
    ASSUME RegistryInv, NEW o \in Ops, JobDone(o)
    PROVE  RegistryInv'
<1> USE DEF RegistryInv, JobDone
<1>1. /\ SlotHolders' = SlotHolders
      /\ Jobs' = Jobs \ {o} /\ o \in Jobs
      /\ \A d \in Domains : Workers(d)' = Workers(d)
  BY SlotsAfter, JobsAfter, WorkersAfter DEF RegistryTypeOK
<1> /\ phase' \in [Ops -> Phases] /\ phase'[o] = "jobDone" /\ phase[o] = "released"
    /\ \A p \in Ops : p # o => phase'[p] = phase[p]
  BY PhaseStep DEF RegistryTypeOK
<1>2. /\ Cardinality(Jobs') = Cardinality(Jobs) - 1
      /\ Cardinality(Jobs) \in Nat /\ Cardinality(Jobs) > 0
  BY <1>1, FiniteSets, OneLess
<1>3. JobsCounted' /\ certJobWG' \in Nat
  BY <1>2 DEF JobsCounted
<1>4. SlotsBalanced' /\ WorkersCounted'
  BY <1>1 DEF SlotsBalanced, WorkersCounted
<1>5. RegistryTypeOK'
  BY <1>3 DEF RegistryTypeOK
<1>6. RegistryOwned'
  BY DEF RegistryOwned, RegistryTypeOK, certJobInflight
<1>7. QED
  BY <1>3, <1>4, <1>5, <1>6

LEMMA WorkerDoneStep ==
    ASSUME RegistryInv, NEW o \in Ops, WorkerDone(o)
    PROVE  RegistryInv'
<1> USE DEF RegistryInv, WorkerDone
<1> DEFINE d0 == DomainOf[o]
<1>1. /\ SlotHolders' = SlotHolders /\ Jobs' = Jobs
      /\ Workers(d0)' = Workers(d0) \ {o} /\ o \in Workers(d0)
      /\ \A d \in Domains : d # d0 => Workers(d)' = Workers(d)
  BY SlotsAfter, JobsAfter, WorkersAfter DEF RegistryTypeOK
<1> /\ phase' \in [Ops -> Phases] /\ phase'[o] = "exited" /\ phase[o] = "jobDone"
    /\ \A p \in Ops : p # o => phase'[p] = phase[p]
  BY PhaseStep DEF RegistryTypeOK
<1>2. d0 \in Domains
  BY RegistryAssumption DEF RegistryAssumption
<1>3. /\ Cardinality(Workers(d0)') = Cardinality(Workers(d0)) - 1
      /\ Cardinality(Workers(d0)) \in Nat /\ Cardinality(Workers(d0)) > 0
  BY <1>1, <1>2, FiniteSets, OneLess
<1>4. domainWorker' \in [Domains -> Nat]
  BY <1>2, <1>3 DEF WorkersCounted, RegistryTypeOK
<1>5. WorkersCounted'
  BY <1>1, <1>2, <1>3 DEF WorkersCounted, RegistryTypeOK
<1>6. SlotsBalanced' /\ JobsCounted'
  BY <1>1 DEF SlotsBalanced, JobsCounted
<1>7. RegistryTypeOK'
  BY <1>4 DEF RegistryTypeOK
<1>8. RegistryOwned'
  BY DEF RegistryOwned, RegistryTypeOK, certJobInflight
<1>9. QED
  BY <1>5, <1>6, <1>7, <1>8

\* Cancellation, time and a restart.
LEMMA OtherStep ==
    ASSUME RegistryInv,
           \/ \E d \in Domains : CancelCertJob(d)
           \/ CancelAllCertJobs \/ Tick \/ Restart
    PROVE  RegistryInv'
<1> USE DEF RegistryInv
<1>1. CASE (\E d \in Domains : CancelCertJob(d)) \/ CancelAllCertJobs
  <2>1. PICK ds \in SUBSET Domains : CancelEntries(ds)
    BY <1>1 DEF CancelCertJob, CancelAllCertJobs
  <2>2. UNCHANGED <<phase, certJobs, age, certJobSlots, domainWorker, certJobWG>>
    BY <1>1 DEF CancelCertJob, CancelAllCertJobs
  <2>3. cancelled' \subseteq Ops
    BY <2>1, CancelType
  <2>4. QED
    BY <2>2, <2>3 DEF RegistryTypeOK, SlotsBalanced, WorkersCounted, JobsCounted,
       RegistryOwned, SlotHolders, Workers, Jobs, certJobInflight
<1>2. CASE Tick
  <2>1. UNCHANGED <<phase, certJobs, cancelled, certJobSlots, domainWorker, certJobWG>>
    BY <1>2 DEF Tick
  <2>2. age' \in [Ops -> 0..GeneratingTimeout]
    BY <1>2, RegistryAssumption DEF RegistryAssumption, RegistryTypeOK, Tick, Older
  <2>3. QED
    BY <2>1, <2>2 DEF RegistryTypeOK, SlotsBalanced, WorkersCounted, JobsCounted,
       RegistryOwned, SlotHolders, Workers, Jobs, certJobInflight
<1>3. CASE Restart
  <2>1. SlotHolders' = {} /\ Jobs' = {} /\ \A d \in Domains : Workers(d)' = {}
    BY <1>3 DEF Restart, SlotHolders, Jobs, Workers
  <2>2. SlotsBalanced' /\ WorkersCounted' /\ JobsCounted'
    BY <1>3, <2>1, FS_EmptySet DEF Restart, SlotsBalanced, WorkersCounted, JobsCounted
  <2>3. RegistryTypeOK'
    BY <1>3, RegistryAssumption DEF RegistryAssumption, RegistryTypeOK, Restart
  <2>4. RegistryOwned'
    BY <1>3 DEF Restart, RegistryOwned, certJobInflight
  <2>5. QED
    BY <2>2, <2>3, <2>4
<1>4. QED
  BY <1>1, <1>2, <1>3

LEMMA InvNext == RegistryInv /\ [RegistryNext]_registryVars => RegistryInv'
<1> SUFFICES ASSUME RegistryInv, [RegistryNext]_registryVars PROVE RegistryInv'
  OBVIOUS
<1>1. ASSUME NEW o \in Ops, CallerStep(o) PROVE RegistryInv'
  BY <1>1, AcquireStep, BeginStep, SpawnStep DEF CallerStep
<1>2. ASSUME NEW o \in Ops, WorkerStep(o) PROVE RegistryInv'
  BY <1>2, BeginDomainWorkerStep, ReleaseSlotStep, EndJobStep, JobDoneStep, WorkerDoneStep
  DEF WorkerStep
<1>3. CASE UNCHANGED registryVars
  BY <1>3 DEF registryVars, RegistryInv, RegistryTypeOK, SlotsBalanced, WorkersCounted,
     JobsCounted, RegistryOwned, SlotHolders, Workers, Jobs, certJobInflight
<1>4. QED
  BY <1>1, <1>2, <1>3, OtherStep DEF RegistryNext

\* Every reachable state of the registry satisfies the invariant.
THEOREM RegistryInvariant == RegistrySpec => []RegistryInv
BY InvInit, InvNext, PTL DEF RegistrySpec

-----------------------------------------------------------------------------
(* Theorems *)

\* Type correctness of the registry.
THEOREM RegistryTypeCorrect == RegistrySpec => []RegistryTypeOK
BY RegistryInvariant, PTL DEF RegistryInv

\* The semaphore holds one element per operation that took a slot and has not
\* run its deferred releaseCertJobSlot, for every limit and number of operations.
THEOREM SlotsAreBalanced == RegistrySpec => []SlotsBalanced
BY RegistryInvariant, PTL DEF RegistryInv

\* No entry of the registry outlives the release of its job.
THEOREM EntriesAreOwned == RegistrySpec => []RegistryOwned
BY RegistryInvariant, PTL DEF RegistryInv

\* The tracker of each domain counts its worker goroutines.
THEOREM WorkersAreCounted == RegistrySpec => []WorkersCounted
BY RegistryInvariant, PTL DEF RegistryInv

LEMMA EntryKeptStep ==
    ASSUME RegistryInv, [RegistryNext]_registryVars,
           NEW d \in Domains, NEW o \in Ops, certJobs[d] = o, certJobs'[d] = NoJob
    PROVE  phase'[o] \in {"released", "exited"}
<1>1. DomainOf[o] = d /\ phase[o] \in EntryPhases /\ o # NoJob
  BY RegistryAssumption DEF RegistryAssumption, RegistryInv, RegistryOwned, certJobInflight
<1>2. CASE \E p \in Ops : EndJob(p)
  <2>1. PICK p \in Ops : EndJob(p)
    BY <1>2
  <2>2. p = o
    BY <2>1, <1>1 DEF EndJob, RegistryInv, RegistryTypeOK
  <2>3. QED
    BY <2>1, <2>2, PhaseStep DEF EndJob, RegistryInv, RegistryTypeOK
<1>3. CASE Restart
  BY <1>1, <1>3 DEF Restart
<1>4. CASE \E p \in Ops : Register(p)
  <2>1. PICK p \in Ops : certJobs' = [certJobs EXCEPT ![DomainOf[p]] = p]
    BY <1>4 DEF Register
  <2>2. p # NoJob
    BY RegistryAssumption DEF RegistryAssumption
  <2>3. QED
    BY <1>1, <2>1, <2>2 DEF RegistryInv, RegistryTypeOK
<1>5. CASE UNCHANGED certJobs
  BY <1>1, <1>5
<1>6. QED
  BY <1>2, <1>3, <1>4, <1>5
  DEF RegistryNext, CallerStep, WorkerStep, TryAcquireCertJobSlot, BeginCancel, WaitReturns,
      Spawn, BeginDomainWorker, ReleaseCertJobSlot, JobDone, WorkerDone, CancelCertJob,
      CancelAllCertJobs, Tick, registryVars

\* An entry is removed only by its own job's release, or with the process: the
\* release of a superseded job leaves the replacement registered.
THEOREM EntriesAreKept == RegistrySpec => EntryKept
<1>1. RegistryInv /\ [RegistryNext]_registryVars =>
        [\A d \in Domains : \A o \in Ops :
           certJobs[d] = o /\ certJobs'[d] = NoJob
             => phase'[o] \in {"released", "exited"}]_registryVars
  BY EntryKeptStep
<1>2. QED
  BY <1>1, RegistryInvariant, PTL DEF RegistrySpec, EntryKept

\* What isCertJobActive asks of job o cannot become true again once o has been
\* through beginCertJob: every kind of step keeps it false.
LEMMA InactiveStep ==
    ASSUME RegistryInv, [RegistryNext]_registryVars,
           NEW o \in Ops, Begun(o), ~isCertJobActive(o)
    PROVE  ~isCertJobActive(o)'
<1> USE DEF RegistryInv
<1> DEFINE d0 == DomainOf[o]
<1>0. d0 \in Domains /\ o # NoJob
  BY RegistryAssumption DEF RegistryAssumption
<1>1. ASSUME NEW p \in Ops, BeginCancel(p) PROVE ~isCertJobActive(o)'
  <2>1. p # o
    BY <1>1 DEF BeginCancel, Begun, Advance
  <2>2. certJobs' = certJobs /\ age'[o] = age[o] /\ cancelled \subseteq cancelled'
    BY <1>1, <2>1 DEF BeginCancel, CancelEntries, RegistryTypeOK
  <2>3. QED
    BY <2>2 DEF isCertJobActive, CtxDone
<1>2. ASSUME NEW p \in Ops, Register(p) PROVE ~isCertJobActive(o)'
  <2>1. p # o
    BY <1>2 DEF Register, Begun, Advance
  <2>2. age'[o] = age[o] /\ cancelled' = cancelled
    BY <1>2, <2>1 DEF Register, RegistryTypeOK
  <2>3. certJobs'[d0] = certJobs[d0] \/ certJobs'[d0] = p
    BY <1>0, <1>2 DEF Register, RegistryTypeOK
  <2>4. QED
    BY <2>1, <2>2, <2>3 DEF isCertJobActive, CtxDone
<1>3. ASSUME NEW p \in Ops, EndJob(p) PROVE ~isCertJobActive(o)'
  <2>1. certJobs'[d0] = certJobs[d0] \/ certJobs'[d0] = NoJob
    BY <1>0, <1>3 DEF EndJob, RegistryTypeOK
  <2>2. QED
    BY <1>0, <1>3, <2>1 DEF EndJob, isCertJobActive, CtxDone
<1>4. CASE (\E d \in Domains : CancelCertJob(d)) \/ CancelAllCertJobs
  <2>1. certJobs' = certJobs /\ age' = age /\ cancelled \subseteq cancelled'
    BY <1>4 DEF CancelCertJob, CancelAllCertJobs, CancelEntries
  <2>2. QED
    BY <2>1 DEF isCertJobActive, CtxDone
<1>5. CASE Tick
  <2>1. certJobs' = certJobs /\ cancelled' = cancelled
    BY <1>5 DEF Tick
  <2>2. age[o] = GeneratingTimeout => age'[o] = GeneratingTimeout
    BY <1>5, RegistryAssumption DEF RegistryAssumption, RegistryTypeOK, Tick, Older
  <2>3. QED
    BY <2>1, <2>2 DEF isCertJobActive, CtxDone
<1>6. CASE Restart
  BY <1>0, <1>6 DEF Restart, isCertJobActive
<1>7. CASE UNCHANGED <<certJobs, cancelled, age>>
  BY <1>7 DEF isCertJobActive, CtxDone
<1>8. QED
  BY <1>1, <1>2, <1>3, <1>4, <1>5, <1>6, <1>7
  DEF RegistryNext, CallerStep, WorkerStep, TryAcquireCertJobSlot, WaitReturns,
      Spawn, BeginDomainWorker, ReleaseCertJobSlot, JobDone, WorkerDone, registryVars

\* A job refused once by isCertJobActive is refused for ever, so that the checks
\* runCertJob makes before it writes are never overturned.
THEOREM InactiveStaysInactive == RegistrySpec => InactiveForever
<1>1. RegistryInv /\ [RegistryNext]_registryVars =>
        [\A o \in Ops : Begun(o) /\ ~isCertJobActive(o) => ~isCertJobActive(o)']_registryVars
  BY InactiveStep
<1>2. QED
  BY <1>1, RegistryInvariant, PTL DEF RegistrySpec, InactiveForever

-----------------------------------------------------------------------------
(* The semaphore implements the slot pool. *)

LEMMA PoolInit == RegistryInit => Pool!Init
BY DEF RegistryInit, Pool!Init, SlotHolders

LEMMA PoolStep ==
    ASSUME RegistryInv, [RegistryNext]_registryVars
    PROVE  [Pool!Next]_SlotHolders
<1> USE DEF RegistryInv
<1>1. ASSUME NEW o \in Ops, TryAcquireCertJobSlot(o) PROVE Pool!Acquire(o)
  <2>1. SlotHolders' = SlotHolders \union {o} /\ o \notin SlotHolders
    BY <1>1, SlotsAfter DEF TryAcquireCertJobSlot, RegistryTypeOK
  <2>2. Cardinality(SlotHolders) < MaxJobs
    BY <1>1 DEF TryAcquireCertJobSlot, SlotsBalanced
  <2>3. QED
    BY <2>1, <2>2 DEF Pool!Acquire, Pool!Cardinality, Cardinality
<1>2. ASSUME NEW o \in Ops, ReleaseCertJobSlot(o) PROVE Pool!Release(o)
  BY <1>2, SlotsAfter DEF ReleaseCertJobSlot, RegistryTypeOK, Pool!Release
<1>3. CASE Restart
  <2>1. SlotHolders' = {}
    BY <1>3 DEF Restart, SlotHolders
  <2>2. QED
    BY <2>1 DEF Pool!Next, Pool!Restart
<1>4. ASSUME NEW o \in Ops, NEW from \in Phases, NEW to \in Phases, Advance(o, from, to),
             from \in SlotPhases <=> to \in SlotPhases
      PROVE  UNCHANGED SlotHolders
  BY <1>4, SlotsAfter DEF RegistryTypeOK
<1>5. ASSUME NEW o \in Ops,
             \/ BeginCancel(o) \/ WaitReturns(o) \/ Register(o) \/ Spawn(o)
             \/ BeginDomainWorker(o) \/ EndJob(o) \/ JobDone(o) \/ WorkerDone(o)
      PROVE  UNCHANGED SlotHolders
  BY <1>4, <1>5
  DEF BeginCancel, WaitReturns, Register, Spawn, BeginDomainWorker, EndJob, JobDone, WorkerDone
<1>6. CASE UNCHANGED phase
  BY <1>6 DEF SlotHolders
<1>7. QED
  BY <1>1, <1>2, <1>3, <1>5, <1>6
  DEF RegistryNext, CallerStep, WorkerStep, CancelCertJob, CancelAllCertJobs, Tick,
      registryVars, Pool!Next

\* Seen through the set of operations between acquire and release, the semaphore
\* is a slot pool of MaxJobs slots: no operation holds two, none gives back the
\* slot of another, and never more than MaxJobs are out.
THEOREM SemaphoreIsSlotPool == RegistrySpec => PoolSpec
BY PoolInit, PoolStep, RegistryInvariant, PTL DEF RegistrySpec, PoolSpec, Pool!Spec

=============================================================================
