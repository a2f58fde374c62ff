-------------------------- MODULE RunnerPoolProofs --------------------------
(***************************************************************************)
(* Proofs about the runner pool, for every pool, every set of jobs and     *)
(* every number of faults.                                                 *)
(*                                                                         *)
(* Reservations are exclusive.  The proof follows the locks: a process     *)
(* past the acquisition holds its slot lock, a surveying process holds the *)
(* lease and the lock it probes, and so every active run is, for every     *)
(* survey in progress, still to be visited or already excluded.            *)
(*                                                                         *)
(* Nothing is stranded, and SlotLedger is implemented.  Checkpoint, host   *)
(* state and process of a slot are always in step (SlotsFit), a generation *)
(* is minted once (Minted), and when Forgejo applies no creation late the  *)
(* registrations are those the checkpoints name (RegistrationFits).  With  *)
(* late creations, each registration that no recovery finds is paid for by *)
(* a fault (SuspectsCounted).                                              *)
(***************************************************************************)
EXTENDS RunnerPool, FiniteSetTheorems, TLAPS

-----------------------------------------------------------------------------
(* The type invariant, one lemma per group of actions.                     *)

\* Updating a function at any point keeps its type (code: the EXCEPTs below).
LEMMA UpdateType ==
    ASSUME NEW S, NEW T, NEW f \in [S -> T], NEW x, NEW v \in T
    PROVE [f EXCEPT ![x] = v] \in [S -> T]
OBVIOUS

\* A step of the survey keeps the types (pool.peer_assignments, reserve_next_job).
LEMMA SurveyType == ASSUME TypeOK, SurveyConsistent, NEW s \in Slots, Survey(s) PROVE TypeOK'
<1> USE SlotsAssumption, JobsAssumption, BoundsAssumption
    DEF TypeOK, disk, host,
        memory, forgejo, Write, Goto, At, Phases, Controllers, Services, Statuses,
        Labels, Surveying, Admitted, Cleaning, Generations, NoJob, Assignments,
        NothingSeen, Sightings
<1>1. CASE ObserveSelf(s)  BY <1>1 DEF ObserveSelf, ContinueIf
<1>2. CASE ReadPeer(s)  BY <1>2 DEF ReadPeer
<1>3. CASE WatchPeer(s)  BY <1>3 DEF WatchPeer
<1>4. CASE PeerBlocks(s)  BY <1>4 DEF PeerBlocks, GiveUp, NoFault
<1>5. CASE ProbeFree(s)  BY <1>5 DEF ProbeFree
<1>6. CASE ProbeHeld(s)  BY <1>6 DEF ProbeHeld
<1>7. CASE PeerIdle(s)
  <2>1. lock' \in [Slots -> Slots \cup {NoSlot}]  BY <1>7, UpdateType DEF PeerIdle
  <2>2. QED  BY <1>7, <2>1 DEF PeerIdle
<1>8. CASE PeerAssigned(s)
  <2>1. seen[s].peer \in Slots  BY <1>8 DEF PeerAssigned, SurveyConsistent
  <2>2. assignment[seen[s].peer].job \in Jobs \cup {NoJob}  BY <2>1
  <2>3. excluded' \in [Slots -> SUBSET Jobs]  BY <1>8, <2>2 DEF PeerAssigned
  <2>4. QED  BY <1>8, <2>3 DEF PeerAssigned, ContinueIf
<1>9. CASE SurveyDone(s)  BY <1>9 DEF SurveyDone
<1>10. CASE PendingJob(s)  BY <1>10 DEF PendingJob, Candidates
<1>11. CASE NoPendingJob(s)  BY <1>11 DEF NoPendingJob, GiveUp, NoFault, Candidates
<1>12. CASE Reserve(s)  BY <1>12 DEF Reserve
<1>q. QED  BY <1>1, <1>2, <1>3, <1>4, <1>5, <1>6, <1>7, <1>8, <1>9, <1>10, <1>11, <1>12 DEF Survey

\* A step of an admitted run keeps the types (lifecycle.run_slot).
LEMMA RunType == ASSUME TypeOK, NEW s \in Slots, Run(s) PROVE TypeOK'
<1> USE SlotsAssumption, JobsAssumption, BoundsAssumption
    DEF TypeOK, disk, host,
        memory, forgejo, Write, Goto, At, Phases, Controllers, Services, Statuses,
        Labels, Surveying, Admitted, Cleaning, Generations, NoJob, Assignments,
        NothingSeen, Sightings
<1>1. CASE BeginPreparing(s)  BY <1>1 DEF BeginPreparing, WriteCheckpoint
<1>2. CASE MakeRuntime(s)  BY <1>2 DEF MakeRuntime
<1>3. CASE RecordRuntime(s)  BY <1>3 DEF RecordRuntime
<1>3a. CASE MakeEntry(s)  BY <1>3a DEF MakeEntry
<1>3b. CASE RecordEntry(s)  BY <1>3b DEF RecordEntry
<1>4. CASE EnrollSucceeds(s)  BY <1>4 DEF EnrollSucceeds, Runner
<1>5. CASE Confirm(s)  BY <1>5 DEF Confirm, Runner
<1>6. CASE Reconcile(s)  BY <1>6 DEF Reconcile, Runner
<1>7. CASE Register(s)  BY <1>7 DEF Register
<1>8. CASE Admit(s)  BY <1>8 DEF Admit
<1>9. CASE StartWorker(s)  BY <1>9 DEF StartWorker
<1>10. CASE RunController(s)  BY <1>10 DEF RunController
<1>11. CASE ControllerReturns(s)  BY <1>11 DEF ControllerReturns
<1>12. CASE RegistrationRevoked(s)  BY <1>12 DEF RegistrationRevoked, Runner
<1>13. CASE JobDeadline(s)  BY <1>13 DEF JobDeadline
<1>q. QED  BY <1>1, <1>2, <1>3, <1>3a, <1>3b, <1>4, <1>5, <1>6, <1>7, <1>8, <1>9, <1>10, <1>11, <1>12, <1>13 DEF Run

\* A step of the cleanup keeps the types (lifecycle.cleanup_generation).
LEMMA CleanupType == ASSUME TypeOK, NEW s \in Slots, Cleanup(s) PROVE TypeOK'
<1> USE SlotsAssumption, JobsAssumption, BoundsAssumption
    DEF TypeOK, disk, host,
        memory, forgejo, Write, Goto, At, Phases, Controllers, Services, Statuses,
        Labels, Surveying, Admitted, Cleaning, Generations, NoJob, Assignments,
        NothingSeen, Sightings
<1>1. CASE BeginCleaning(s)  BY <1>1 DEF BeginCleaning
<1>2. CASE Retire(s)  BY <1>2 DEF Retire, Runner
<1>3. CASE StopUnit(s)  BY <1>3 DEF StopUnit
<1>4. CASE NothingToDestroy(s)  BY <1>4 DEF NothingToDestroy
<1>5. CASE DestroyRefused(s)  BY <1>5 DEF DestroyRefused
<1>6. CASE RemoveRuntime(s)  BY <1>6 DEF RemoveRuntime
<1>6a. CASE RemoveBlocked(s)  BY <1>6a DEF RemoveBlocked
<1>7. CASE UnlinkReceipt(s)  BY <1>7 DEF UnlinkReceipt
<1>8. CASE FinishClean(s)  BY <1>8 DEF FinishClean, WriteCheckpoint
<1>9. CASE FinishQuarantined(s)  BY <1>9 DEF FinishQuarantined
<1>q. QED  BY <1>1, <1>2, <1>3, <1>4, <1>5, <1>6, <1>6a, <1>7, <1>8, <1>9 DEF Cleanup

\* A failing step keeps the types (the error paths of control and lifecycle).
LEMMA TroubleType == ASSUME TypeOK, NEW s \in Slots, Trouble(s) PROVE TypeOK'
<1> USE SlotsAssumption, JobsAssumption, BoundsAssumption
    DEF TypeOK, disk, host,
        memory, forgejo, Write, Goto, At, Phases, Controllers, Services, Statuses,
        Labels, Surveying, Admitted, Cleaning, Generations, NoJob, Assignments,
        NothingSeen, Sightings
<1>1. CASE Crash(s)  BY <1>1 DEF Crash, ProcessEnds, Fault, ForgetMemory, AfterProcess
<1>2. CASE AdmissionFails(s)  BY <1>2 DEF AdmissionFails, GiveUp, Fault
<1>3. CASE EmptinessUnknown(s)  BY <1>3 DEF EmptinessUnknown, WriteCheckpoint, Fault
<1>4. CASE EnrollUncertain(s)  BY <1>4 DEF EnrollUncertain, Runner, Fault
<1>5. CASE ConfirmFails(s)  BY <1>5 DEF ConfirmFails, Fault
<1>6. CASE StartWorkerUncertain(s)  BY <1>6 DEF StartWorkerUncertain, Fault
<1>7. CASE RunFails(s)  BY <1>7 DEF RunFails, Fault
<1>8. CASE RetireFails(s)  BY <1>8 DEF RetireFails, Runner, Fault
<1>9. CASE DestroyFails(s)  BY <1>9 DEF DestroyFails, Fault
<1>q. QED  BY <1>1, <1>2, <1>3, <1>4, <1>5, <1>6, <1>7, <1>8, <1>9 DEF Trouble

\* A step of the pool, of systemd, of the operator or of Forgejo keeps the types.
LEMMA StepType == ASSUME TypeOK, SurveyConsistent, [Next]_vars PROVE TypeOK'
<1> USE SlotsAssumption, JobsAssumption, BoundsAssumption DEF TypeOK, disk, host,
        memory, forgejo, Write, Goto, At, Phases, Controllers, Services, Statuses,
        Labels, Surveying, Admitted, Cleaning, Generations, NoJob, Assignments,
        NothingSeen, Sightings
<1>1. ASSUME NEW s \in Slots, Enter(s) \/ LockBusy(s) \/ LeaseBusy(s) \/ Exit(s) PROVE TypeOK'
  <2>1. CASE EnterNothing(s)  BY <2>1 DEF EnterNothing, Acquire
  <2>2. CASE EnterRecovery(s)  BY <2>2 DEF EnterRecovery, Acquire
  <2>3. CASE EnterAdmission(s)  BY <2>3 DEF EnterAdmission, Acquire
  <2>4. CASE LockBusy(s)  BY <2>4 DEF LockBusy, ProcessEnds, ForgetMemory, AfterProcess
  <2>5. CASE LeaseBusy(s)  BY <2>5 DEF LeaseBusy
  <2>6. CASE Exit(s)  BY <2>6 DEF Exit, ProcessEnds, ForgetMemory, AfterProcess
  <2>7. QED  BY <1>1, <2>1, <2>2, <2>3, <2>4, <2>5, <2>6 DEF Enter
<1>2. ASSUME NEW s \in Slots, TimerFires(s) PROVE TypeOK'  BY <1>2 DEF TimerFires
<1>3. ASSUME NEW s \in Slots, StopTimer(s) PROVE TypeOK'  BY <1>3 DEF StopTimer, Fault
<1>4. ASSUME NEW s \in Slots, OperatorRecovers(s) PROVE TypeOK'  BY <1>4 DEF OperatorRecovers
<1>5. ASSUME NEW s \in Slots, StartTimer(s) PROVE TypeOK'  BY <1>5 DEF StartTimer
<1>6. ASSUME NEW s \in Slots, TakeLease(s) PROVE TypeOK'  BY <1>6 DEF TakeLease
<1>7. ASSUME NEW s \in Slots, FetchJob(s) PROVE TypeOK'  BY <1>7 DEF FetchJob
<1>8. ASSUME NEW s \in Slots, JobEnds(s) PROVE TypeOK'  BY <1>8 DEF JobEnds
<1>9. CASE HostRestart  BY <1>9 DEF HostRestart, Fault
<1>10. ASSUME NEW j \in Jobs, SubmitJob(j) \/ CancelJob(j) PROVE TypeOK'
  <2>1. CASE SubmitJob(j)  BY <2>1 DEF SubmitJob
  <2>2. CASE CancelJob(j)  BY <2>2 DEF CancelJob, Fault
  <2>3. QED  BY <1>10, <2>1, <2>2
<1>11. ASSUME NEW r \in runners, RevokeRunner(r) PROVE TypeOK'  BY <1>11 DEF RevokeRunner, Fault
<1>12. ASSUME NEW r \in requests, LatePost(r) PROVE TypeOK'  BY <1>12 DEF LatePost
<1>13. CASE UNCHANGED vars  BY <1>13 DEF vars
<1>q. QED
  BY <1>1, <1>2, <1>3, <1>4, <1>5, <1>6, <1>7, <1>8, <1>9, <1>10, <1>11, <1>12, <1>13,
     SurveyType, RunType, CleanupType, TroubleType DEF Next, Supervisor

-----------------------------------------------------------------------------
(* Exclusive reservations.                                                 *)

Structure == LocksHeld /\ SurveyConsistent /\ ActiveRunsCovered /\ ExclusiveReservations

\* A step of s that takes no lock and neither starts a run nor a survey: it may
\* give the lease back, and only a run in progress goes on as a run.
QuietMove(s) ==
    /\ UNCHANGED <<lock, assignment, handle, excluded, todo, seen>>
    /\ lease' = lease \/ (lease = s /\ lease' = NoSlot)
    /\ pc' = [pc EXCEPT ![s] = pc'[s]]
    /\ pc'[s] \notin Surveying
    /\ pc'[s] \notin {"idle", "lock"} => lock[s] = s
    /\ pc'[s] \in Admitted => pc[s] \in Admitted

\* Quiet moves disturb no other process (most steps of lifecycle.run_slot).
LEMMA QuietMovePreserves ==
    ASSUME TypeOK, Structure, NEW s \in Slots, QuietMove(s)
    PROVE Structure'
<1> USE DEF Structure
<1>1. /\ pc'[s] \notin Surveying
      /\ pc'[s] \notin {"idle", "lock"} => lock[s] = s
      /\ pc'[s] \in Admitted => pc[s] \in Admitted
  BY DEF QuietMove
<1>2. UNCHANGED <<lock, assignment, handle, excluded, todo, seen>>  BY DEF QuietMove
<1>3. \A t \in Slots \ {s} : pc'[t] = pc[t]
  <2>1. pc' = [pc EXCEPT ![s] = pc'[s]]  BY DEF QuietMove
  <2>2. QED  BY <2>1 DEF TypeOK
<1>4. LocksHeld'
  <2>1. ASSUME NEW t \in Slots, pc'[t] \in Surveying PROVE lease' = t
    <3>1. t # s /\ pc[t] \in Surveying  BY <1>1, <1>3, <2>1
    <3>2. lease = t  BY <3>1 DEF LocksHeld
    <3>3. QED  BY <3>1, <3>2 DEF QuietMove
  <2>2. ASSUME NEW t \in Slots, pc'[t] \notin {"idle", "lock"} PROVE lock'[t] = t
    BY <1>1, <1>2, <1>3, <2>2 DEF LocksHeld
  <2>3. QED  BY <2>1, <2>2 DEF LocksHeld
<1>5. SurveyConsistent'  BY <1>1, <1>2, <1>3 DEF SurveyConsistent, Surveying
<1>6. \A t \in Slots : ActiveRun(t)' => ActiveRun(t)  BY <1>1, <1>3 DEF ActiveRun
<1>7. ActiveRunsCovered'  BY <1>1, <1>2, <1>3, <1>6 DEF ActiveRunsCovered, ActiveRun, Surveying
<1>8. ExclusiveReservations'  BY <1>2, <1>6 DEF ExclusiveReservations, ActiveRun
<1>q. QED  BY <1>4, <1>5, <1>7, <1>8

\* Everything an admitted run does up to its cleanup is quiet.
LEMMA RunQuiet == ASSUME TypeOK, LocksHeld, NEW s \in Slots, Run(s) PROVE QuietMove(s)
<1> USE DEF TypeOK, QuietMove, LocksHeld, disk, host, memory, Goto, At, Labels, Surveying,
        Admitted, Cleaning
<1>1. CASE BeginPreparing(s)  BY <1>1 DEF BeginPreparing
<1>2. CASE MakeRuntime(s)  BY <1>2 DEF MakeRuntime
<1>3. CASE RecordRuntime(s)  BY <1>3 DEF RecordRuntime
<1>3a. CASE MakeEntry(s)  BY <1>3a DEF MakeEntry
<1>3b. CASE RecordEntry(s)  BY <1>3b DEF RecordEntry
<1>4. CASE EnrollSucceeds(s)  BY <1>4 DEF EnrollSucceeds
<1>5. CASE Confirm(s)  BY <1>5 DEF Confirm
<1>6. CASE Reconcile(s)  BY <1>6 DEF Reconcile
<1>7. CASE Register(s)  BY <1>7 DEF Register
<1>8. CASE Admit(s)  BY <1>8 DEF Admit
<1>9. CASE StartWorker(s)  BY <1>9 DEF StartWorker
<1>10. CASE RunController(s)  BY <1>10 DEF RunController
<1>11. CASE ControllerReturns(s)  BY <1>11 DEF ControllerReturns
<1>12. CASE RegistrationRevoked(s)  BY <1>12 DEF RegistrationRevoked
<1>13. CASE JobDeadline(s)  BY <1>13 DEF JobDeadline
<1>q. QED  BY <1>1, <1>2, <1>3, <1>3a, <1>3b, <1>4, <1>5, <1>6, <1>7, <1>8, <1>9, <1>10, <1>11, <1>12, <1>13 DEF Run

\* The cleanup is quiet.
LEMMA CleanupQuiet == ASSUME TypeOK, LocksHeld, NEW s \in Slots, Cleanup(s) PROVE QuietMove(s)
<1> USE DEF TypeOK, QuietMove, LocksHeld, disk, host, memory, Goto, At, Labels, Surveying,
        Admitted, Cleaning
<1>1. CASE BeginCleaning(s)  BY <1>1 DEF BeginCleaning
<1>2. CASE Retire(s)  BY <1>2 DEF Retire
<1>3. CASE StopUnit(s)  BY <1>3 DEF StopUnit
<1>4. CASE NothingToDestroy(s)  BY <1>4 DEF NothingToDestroy
<1>5. CASE DestroyRefused(s)  BY <1>5 DEF DestroyRefused
<1>6. CASE RemoveRuntime(s)  BY <1>6 DEF RemoveRuntime
<1>6a. CASE RemoveBlocked(s)  BY <1>6a DEF RemoveBlocked
<1>7. CASE UnlinkReceipt(s)  BY <1>7 DEF UnlinkReceipt
<1>8. CASE FinishClean(s)  BY <1>8 DEF FinishClean
<1>9. CASE FinishQuarantined(s)  BY <1>9 DEF FinishQuarantined
<1>q. QED  BY <1>1, <1>2, <1>3, <1>4, <1>5, <1>6, <1>6a, <1>7, <1>8, <1>9 DEF Cleanup

\* A process that ends drops its own locks only (the kernel closes its files).
LEMMA ProcessEndsPreserves ==
    ASSUME TypeOK, Structure, NEW s \in Slots, ProcessEnds(s), assignment' = assignment
    PROVE Structure'
<1> USE DEF Structure
<1>1. /\ pc'[s] \in {"lock", "idle"}
      /\ \A t \in Slots \ {s} : pc'[t] = pc[t] /\ handle'[t] = handle[t]
            /\ excluded'[t] = excluded[t] /\ todo'[t] = todo[t] /\ seen'[t] = seen[t]
  BY DEF ProcessEnds, ForgetMemory, Write, TypeOK
<1>2. \A t \in Slots : lock'[t] = IF lock[t] = s THEN NoSlot ELSE lock[t]
  BY DEF ProcessEnds
<1>3. lease' = IF lease = s THEN NoSlot ELSE lease  BY DEF ProcessEnds
<1>4. LocksHeld'  BY <1>1, <1>2, <1>3 DEF LocksHeld, Surveying
<1>5. SurveyConsistent'
  <2>1. ASSUME NEW t \in Slots, pc'[t] = "probed" PROVE lock'[seen'[t].peer] = t
    <3>1. t # s /\ pc[t] = "probed" /\ seen'[t] = seen[t]  BY <1>1, <2>1
    <3>2. seen[t].peer \in Slots /\ lock[seen[t].peer] = t
      BY <3>1 DEF SurveyConsistent, TypeOK
    <3>3. QED  BY <1>2, <3>1, <3>2
  <2>2. ASSUME NEW t \in Slots
        PROVE /\ pc'[t] \in Surveying \ {"observe"} => t \notin todo'[t]
              /\ pc'[t] \in {"watch", "probe", "probed", "assigned"} => seen'[t].peer \in todo'[t]
              /\ pc'[t] \in {"queue", "reserve"} => todo'[t] = {}
              /\ pc'[t] = "reserve" => handle'[t] \in Jobs \ excluded'[t]
    BY <1>1 DEF SurveyConsistent, Surveying
  <2>3. QED  BY <2>1, <2>2 DEF SurveyConsistent
<1>6. \A t \in Slots : ActiveRun(t)' => ActiveRun(t) /\ t # s  BY <1>1 DEF ActiveRun, Admitted
<1>7. ActiveRunsCovered'  BY <1>1, <1>6 DEF ActiveRunsCovered, ActiveRun, Surveying
<1>8. ExclusiveReservations'  BY <1>6 DEF ExclusiveReservations, ActiveRun
<1>q. QED  BY <1>4, <1>5, <1>7, <1>8

\* A trouble either ends the process or is quiet.
LEMMA TroublePreserves ==
    ASSUME TypeOK, Structure, NEW s \in Slots, Trouble(s)
    PROVE Structure'
<1>1. CASE Crash(s)  BY <1>1, ProcessEndsPreserves DEF Crash, disk
<1>2. ASSUME Trouble(s), ~Crash(s) PROVE QuietMove(s)
  <2> USE DEF TypeOK, Structure, QuietMove, LocksHeld, disk, host, memory, Goto, At, Labels, Surveying,
          Admitted, Cleaning
  <2>1. CASE AdmissionFails(s)  BY <2>1 DEF AdmissionFails, GiveUp
  <2>2. CASE EmptinessUnknown(s)  BY <2>2 DEF EmptinessUnknown
  <2>3. CASE EnrollUncertain(s)  BY <2>3 DEF EnrollUncertain
  <2>4. CASE ConfirmFails(s)  BY <2>4 DEF ConfirmFails
  <2>5. CASE StartWorkerUncertain(s)  BY <2>5 DEF StartWorkerUncertain
  <2>6. CASE RunFails(s)  BY <2>6 DEF RunFails
  <2>7. CASE RetireFails(s)  BY <2>7 DEF RetireFails
  <2>8. CASE DestroyFails(s)  BY <2>8 DEF DestroyFails
  <2>q. QED  BY <1>2, <2>1, <2>2, <2>3, <2>4, <2>5, <2>6, <2>7, <2>8 DEF Trouble
<1>q. QED  BY <1>1, <1>2, QuietMovePreserves

\* A step that leaves processes, locks, assignments and survey memory alone.
LEMMA ElsewherePreserves ==
    ASSUME Structure, UNCHANGED <<assignment, lock, lease, pc, handle, excluded, todo, seen>>
    PROVE Structure'
BY DEF Structure, LocksHeld, SurveyConsistent, ActiveRunsCovered, ExclusiveReservations, ActiveRun

\* Entering perform: the slot lock was free, so no survey was probing it.
LEMMA EnterPreserves ==
    ASSUME TypeOK, Structure, NEW s \in Slots, Enter(s)
    PROVE Structure'
<1> USE DEF Structure
<1>1. /\ pc[s] = "lock" /\ pc'[s] \in {"done", "clean", "lease"}
      /\ \A t \in Slots \ {s} : pc'[t] = pc[t]
  BY DEF Enter, EnterNothing, EnterRecovery, EnterAdmission, Acquire, At, Goto, TypeOK
<1>2. UNCHANGED <<assignment, lease, handle, excluded, todo, seen>>
  BY DEF Enter, EnterNothing, EnterRecovery, EnterAdmission, Acquire, disk, memory
<1>3. /\ lock[s] = NoSlot /\ lock'[s] = s
      /\ \A t \in Slots \ {s} : lock'[t] = lock[t]
  BY DEF Enter, EnterNothing, EnterRecovery, EnterAdmission, Acquire, Write, TypeOK
<1>4. LocksHeld'  BY <1>1, <1>2, <1>3 DEF LocksHeld, Surveying
<1>5. SurveyConsistent'
  <2>1. ASSUME NEW t \in Slots, pc'[t] = "probed" PROVE lock'[seen'[t].peer] = t
    <3>1. pc[t] = "probed"  BY <1>1, <2>1
    <3>2. lock[seen[t].peer] = t /\ seen[t].peer \in Slots  BY <3>1 DEF SurveyConsistent, TypeOK
    <3>3. seen[t].peer # s  BY <1>3, <3>2, SlotsAssumption
    <3>4. QED  BY <1>2, <1>3, <3>2, <3>3
  <2>2. QED  BY <1>1, <1>2, <2>1 DEF SurveyConsistent, Surveying
<1>6. \A t \in Slots : ActiveRun(t)' => ActiveRun(t)  BY <1>1 DEF ActiveRun, Admitted
<1>7. ActiveRunsCovered'  BY <1>1, <1>2, <1>6 DEF ActiveRunsCovered, ActiveRun, Surveying
<1>8. ExclusiveReservations'  BY <1>2, <1>6 DEF ExclusiveReservations, ActiveRun
<1>q. QED  BY <1>4, <1>5, <1>7, <1>8

\* What one step of a survey guarantees about its own process when it stays in
\* the survey: the lease is kept and nobody else moves.
SurveyMove(s) ==
    /\ pc[s] \in Surveying /\ pc'[s] \in Surveying
    /\ \A t \in Slots \ {s} : pc'[t] = pc[t]
    /\ lease' = lease /\ assignment' = assignment

\* Only one process surveys at a time: it holds the lease.
LEMMA OneSurvey ==
    ASSUME LocksHeld, NEW s \in Slots, NEW t \in Slots, pc[s] \in Surveying, pc[t] \in Surveying
    PROVE s = t
BY DEF LocksHeld

\* A survey step preserves the structure when it leaves the surveyor consistent,
\* takes no lock from a live process and drops no active run unexcluded.
LEMMA SurveyMovePreserves ==
    ASSUME TypeOK, Structure, NEW s \in Slots, SurveyMove(s),
           \A t \in Slots : pc[t] \notin {"idle", "lock"} => lock'[t] = t,
           s \notin todo'[s] \/ pc'[s] = "observe",
           pc'[s] \in {"watch", "probe", "probed", "assigned"} => seen'[s].peer \in todo'[s],
           pc'[s] = "probed" => lock'[seen'[s].peer] = s,
           pc'[s] \in {"queue", "reserve"} => todo'[s] = {},
           pc'[s] = "reserve" => handle'[s] \in Jobs \ excluded'[s],
           \A t \in Slots \ {s} : ActiveRun(t) =>
               t \in todo'[s] \/ assignment[t].job \in excluded'[s]
    PROVE Structure'
<1> USE DEF Structure, SurveyMove
<1>1. \A t \in Slots : pc'[t] \in Surveying => t = s  BY OneSurvey
<1>2. LocksHeld'
  <2>1. \A t \in Slots : pc'[t] \notin {"idle", "lock"} => lock'[t] = t
    BY DEF Surveying
  <2>2. QED  BY <1>1, <2>1 DEF LocksHeld
<1>3. SurveyConsistent'  BY <1>1 DEF SurveyConsistent, Surveying
<1>4. \A t \in Slots : ActiveRun(t)' => ActiveRun(t) /\ t # s
  BY DEF ActiveRun, Admitted, Surveying
<1>5. ActiveRunsCovered'  BY <1>1, <1>4 DEF ActiveRunsCovered, ActiveRun
<1>6. ExclusiveReservations'  BY <1>4 DEF ExclusiveReservations, ActiveRun
<1>q. QED  BY <1>2, <1>3, <1>5, <1>6

\* A surveyor that raises: it gives the lease back and leaves through "done".
LEMMA LeavePreserves ==
    ASSUME TypeOK, Structure, NEW s \in Slots, pc[s] \in Surveying,
           pc' = [pc EXCEPT ![s] = "done"], lock' = lock, assignment' = assignment,
           \A t \in Slots \ {s} : /\ handle'[t] = handle[t] /\ excluded'[t] = excluded[t]
                                  /\ todo'[t] = todo[t] /\ seen'[t] = seen[t]
    PROVE Structure'
<1> USE DEF Structure
<1>1. pc'[s] = "done" /\ \A t \in Slots \ {s} : pc'[t] = pc[t]  BY DEF TypeOK
<1>2. \A t \in Slots : pc'[t] \notin Surveying  BY <1>1, OneSurvey DEF Surveying
<1>3. LocksHeld'  BY <1>1, <1>2 DEF LocksHeld, Surveying
<1>4. SurveyConsistent'  BY <1>2 DEF SurveyConsistent, Surveying
<1>5. \A t \in Slots : ActiveRun(t)' => ActiveRun(t)  BY <1>1 DEF ActiveRun, Admitted
<1>6. ActiveRunsCovered'  BY <1>2, <1>5 DEF ActiveRunsCovered, ActiveRun
<1>7. ExclusiveReservations'  BY <1>5 DEF ExclusiveReservations, ActiveRun
<1>q. QED  BY <1>3, <1>4, <1>6, <1>7

\* Reserving under the lease: the survey has excluded the job of every active
\* run, so the job it takes is nobody's (control.reserve_next_job).
LEMMA ReservePreserves ==
    ASSUME TypeOK, Structure, NEW s \in Slots, Reserve(s)
    PROVE Structure'
<1> USE DEF Structure
<1>1. /\ pc[s] = "reserve" /\ pc'[s] = "empty" /\ lease' = NoSlot
      /\ \A t \in Slots \ {s} : pc'[t] = pc[t] /\ assignment'[t] = assignment[t]
      /\ assignment'[s].job = handle[s]
  BY DEF Reserve, At, Goto, Write, TypeOK
<1>2. UNCHANGED <<lock, handle, excluded, todo, seen>>  BY DEF Reserve, memory
<1>3. todo[s] = {} /\ handle[s] \in Jobs \ excluded[s]
  BY <1>1 DEF SurveyConsistent
<1>4. \A t \in Slots : pc'[t] \notin Surveying  BY <1>1, OneSurvey DEF Surveying
<1>5. \A t \in Slots \ {s} : ActiveRun(t) => assignment[t].job \in excluded[s]
  BY <1>1, <1>3 DEF ActiveRunsCovered, Surveying
<1>6. LocksHeld'  BY <1>1, <1>2, <1>4 DEF LocksHeld
<1>7. SurveyConsistent'  BY <1>4 DEF SurveyConsistent, Surveying
<1>8. \A t \in Slots \ {s} : ActiveRun(t)' <=> ActiveRun(t)  BY <1>1 DEF ActiveRun
<1>9. ActiveRunsCovered'
  <2>1. ASSUME NEW t \in Slots, ActiveRun(t)' PROVE assignment'[t].job \in Jobs
    <3>1. CASE t = s  BY <1>1, <1>3, <3>1
    <3>2. CASE t # s  BY <1>1, <1>8, <2>1, <3>2 DEF ActiveRunsCovered
    <3>3. QED  BY <3>1, <3>2
  <2>2. QED  BY <1>4, <2>1 DEF ActiveRunsCovered, ActiveRun
<1>10. ExclusiveReservations'
  <2>1. ASSUME NEW t \in Slots \ {s}, ActiveRun(t)' PROVE assignment'[t].job # assignment'[s].job
    BY <1>1, <1>3, <1>5, <1>8, <2>1
  <2>2. ASSUME NEW t \in Slots \ {s}, NEW u \in Slots \ {s}, t # u, ActiveRun(t)', ActiveRun(u)'
        PROVE assignment'[t].job # assignment'[u].job
    BY <1>1, <1>8, <2>2 DEF ExclusiveReservations
  <2>3. QED  BY <2>1, <2>2 DEF ExclusiveReservations, ActiveRun
<1>q. QED  BY <1>6, <1>7, <1>9, <1>10

\* A peer leaves the survey's agenda only when it has no active run (its lock
\* was free) or when its assignment is excluded (pool.peer_assignments).
LEMMA SurveyPreserves ==
    ASSUME TypeOK, Structure, NEW s \in Slots, Survey(s)
    PROVE Structure'
<1> USE DEF Structure
<1>1. \A t \in Slots \ {s} : pc[s] \in Surveying \ {"observe"} /\ ActiveRun(t) =>
          t \in todo[s] \/ assignment[t].job \in excluded[s]
  BY DEF ActiveRunsCovered
<1>2. \A t \in Slots : pc[t] \notin {"idle", "lock"} => lock[t] = t
  BY DEF LocksHeld
<1>3. \A t \in Slots : ActiveRun(t) => pc[t] \notin {"idle", "lock"} /\ assignment[t].job \in Jobs
  BY DEF ActiveRunsCovered, ActiveRun, Admitted
<1>4. CASE ObserveSelf(s)
  <2>1. CASE pc'[s] = "survey"
    <3>1. todo'[s] = Slots \ {s} /\ UNCHANGED <<assignment, lease, lock>> /\ SurveyMove(s)
      BY <1>4, <2>1 DEF ObserveSelf, ContinueIf, At, Goto, Write, disk, SurveyMove, Surveying, TypeOK
    <3>2. QED  BY <1>2, <2>1, <3>1, SurveyMovePreserves
  <2>2. CASE pc'[s] # "survey"
    <3>1. /\ pc[s] = "observe" /\ lease' = NoSlot
          /\ pc' = [pc EXCEPT ![s] = "done"]
      BY <1>4, <2>2 DEF ObserveSelf, ContinueIf, At, Goto, TypeOK
    <3>2. /\ UNCHANGED <<lock, assignment>>
          /\ \A t \in Slots \ {s} : /\ handle'[t] = handle[t] /\ excluded'[t] = excluded[t]
                                    /\ todo'[t] = todo[t] /\ seen'[t] = seen[t]
      BY <1>4 DEF ObserveSelf, Write, disk, TypeOK
    <3>3. QED  BY <3>1, <3>2, LeavePreserves DEF Surveying
  <2>3. QED  BY <2>1, <2>2
<1>5. CASE ReadPeer(s)
  <2>1. PICK p \in todo[s] :
          seen' = [seen EXCEPT ![s] = [peer |-> p, phase |-> phase[p], generation |-> generation[p]]]
    BY <1>5 DEF ReadPeer, Write
  <2>2. seen'[s].peer = p /\ pc'[s] = "watch" /\ UNCHANGED <<todo, excluded, lock>> /\ SurveyMove(s)
    BY <1>5, <2>1 DEF ReadPeer, At, Goto, disk, host, SurveyMove, Surveying, TypeOK
  <2>3. pc[s] = "survey" /\ s \notin todo[s]  BY <1>5 DEF ReadPeer, At, SurveyConsistent, Surveying
  <2>4. QED  BY <1>1, <1>2, <2>2, <2>3, SurveyMovePreserves DEF Surveying
<1>6. CASE WatchPeer(s) \/ ProbeHeld(s)
  <2>1. /\ pc[s] \in {"watch", "probe"} /\ pc'[s] \in {"probe", "assigned"}
        /\ UNCHANGED <<seen, todo, excluded, lock>> /\ SurveyMove(s)
    BY <1>6 DEF WatchPeer, ProbeHeld, At, Goto, disk, host, memory, SurveyMove, Surveying, TypeOK
  <2>2. s \notin todo[s] /\ seen[s].peer \in todo[s]  BY <2>1 DEF SurveyConsistent, Surveying
  <2>3. QED  BY <1>1, <1>2, <2>1, <2>2, SurveyMovePreserves DEF Surveying
<1>7. CASE ProbeFree(s)
  <2>1. /\ pc[s] = "probe" /\ pc'[s] = "probed"
        /\ UNCHANGED <<seen, todo, excluded>> /\ SurveyMove(s)
    BY <1>7 DEF ProbeFree, At, Goto, disk, memory, SurveyMove, Surveying, TypeOK
  <2>2. s \notin todo[s] /\ seen[s].peer \in todo[s] /\ seen[s].peer \in Slots
    BY <2>1 DEF SurveyConsistent, Surveying, TypeOK
  <2>3. /\ lock[seen[s].peer] = NoSlot /\ lock'[seen[s].peer] = s
        /\ \A t \in Slots \ {seen[s].peer} : lock'[t] = lock[t]
    BY <1>7, <2>2 DEF ProbeFree, Write, TypeOK
  <2>4. \A t \in Slots : pc[t] \notin {"idle", "lock"} => lock'[t] = t
    BY <1>2, <2>2, <2>3, SlotsAssumption
  <2>5. QED  BY <1>1, <2>1, <2>2, <2>3, <2>4, SurveyMovePreserves DEF Surveying
<1>8. CASE PeerIdle(s)
  <2>1. /\ pc[s] = "probed" /\ pc'[s] = "survey" /\ excluded' = excluded /\ SurveyMove(s)
        /\ todo'[s] = todo[s] \ {seen[s].peer}
    BY <1>8 DEF PeerIdle, At, Goto, Write, disk, SurveyMove, Surveying, TypeOK
  <2>2. /\ s \notin todo[s] /\ seen[s].peer \in Slots /\ seen[s].peer # s
        /\ lock[seen[s].peer] = s
    BY <2>1 DEF SurveyConsistent, Surveying, TypeOK
  <2>3. pc[seen[s].peer] \in {"idle", "lock"}  BY <1>2, <2>2
  <2>4. \A t \in Slots \ {seen[s].peer} : lock'[t] = lock[t]
    BY <1>8, <2>2 DEF PeerIdle, Write, TypeOK
  <2>5. \A t \in Slots : pc[t] \notin {"idle", "lock"} => lock'[t] = t  BY <1>2, <2>3, <2>4
  <2>6. \A t \in Slots \ {s} : ActiveRun(t) => t \in todo'[s] \/ assignment[t].job \in excluded'[s]
    BY <1>1, <1>3, <2>1, <2>3 DEF Surveying
  <2>7. QED  BY <2>1, <2>2, <2>5, <2>6, SurveyMovePreserves
<1>9. CASE PeerAssigned(s)
  <2>1. /\ pc[s] = "assigned" /\ lock' = lock /\ assignment' = assignment
        /\ todo'[s] = todo[s] \ {seen[s].peer}
        /\ excluded'[s] = excluded[s] \cup ({assignment[seen[s].peer].job} \ {NoJob})
    BY <1>9 DEF PeerAssigned, At, Write, disk, TypeOK
  <2>2. s \notin todo[s]  BY <2>1 DEF SurveyConsistent, Surveying
  <2>3. CASE pc'[s] = "survey"
    <3>1. SurveyMove(s)
      BY <1>9, <2>1, <2>3 DEF PeerAssigned, ContinueIf, At, Goto, SurveyMove, Surveying, TypeOK
    <3>2. \A t \in Slots \ {s} : ActiveRun(t) => t \in todo'[s] \/ assignment[t].job \in excluded'[s]
      BY <1>1, <1>3, <2>1, JobsAssumption DEF Surveying, NoJob
    <3>3. QED  BY <1>2, <2>1, <2>2, <2>3, <3>1, <3>2, SurveyMovePreserves
  <2>4. CASE pc'[s] # "survey"
    <3>1. lease' = NoSlot /\ pc' = [pc EXCEPT ![s] = "done"]
      BY <1>9, <2>4 DEF PeerAssigned, ContinueIf, At, Goto, TypeOK
    <3>2. \A t \in Slots \ {s} : /\ handle'[t] = handle[t] /\ excluded'[t] = excluded[t]
                                 /\ todo'[t] = todo[t] /\ seen'[t] = seen[t]
      BY <1>9 DEF PeerAssigned, Write, TypeOK
    <3>3. QED  BY <2>1, <3>1, <3>2, LeavePreserves DEF Surveying
  <2>5. QED  BY <2>3, <2>4
<1>10. CASE SurveyDone(s) \/ PendingJob(s)
  <2>1. /\ pc[s] \in {"survey", "queue"} /\ pc'[s] \in {"queue", "reserve"}
        /\ UNCHANGED <<todo, excluded, lock>> /\ SurveyMove(s)
    BY <1>10 DEF SurveyDone, PendingJob, At, Goto, disk, host, memory, SurveyMove, Surveying, TypeOK
  <2>2. s \notin todo[s] /\ todo[s] = {}
    BY <1>10, <2>1 DEF SurveyConsistent, Surveying, SurveyDone, PendingJob, At
  <2>3. pc'[s] = "reserve" => handle'[s] \in Jobs \ excluded[s]
    <3>1. CASE SurveyDone(s)  BY <3>1 DEF SurveyDone, Goto, TypeOK
    <3>2. CASE PendingJob(s)
      <4>1. PICK j \in Candidates(s) : handle' = [handle EXCEPT ![s] = j]
        BY <3>2 DEF PendingJob, Write
      <4>2. QED  BY <4>1 DEF Candidates, TypeOK
    <3>3. QED  BY <1>10, <3>1, <3>2
  <2>4. QED  BY <1>1, <1>2, <2>1, <2>2, <2>3, SurveyMovePreserves DEF Surveying
<1>11. CASE PeerBlocks(s) \/ NoPendingJob(s)
  <2>1. QuietMove(s)
    BY <1>11 DEF PeerBlocks, NoPendingJob, GiveUp, At, Goto, QuietMove, LocksHeld, disk, memory, TypeOK,
        Surveying, Admitted
  <2>2. QED  BY <2>1, QuietMovePreserves
<1>12. CASE Reserve(s)  BY <1>12, ReservePreserves
<1>q. QED  BY <1>4, <1>5, <1>6, <1>7, <1>8, <1>9, <1>10, <1>11, <1>12 DEF Survey

\* Every step preserves the structure.
LEMMA StepStructure ==
    ASSUME TypeOK, Structure, [Next]_vars
    PROVE Structure'
<1>1. ASSUME NEW s \in Slots, Supervisor(s) PROVE Structure'
  <2>1. CASE LockBusy(s) \/ Exit(s)
    BY <2>1, ProcessEndsPreserves DEF LockBusy, Exit, disk
  <2>2. CASE LeaseBusy(s)
    <3>1. QuietMove(s)
      BY <2>2 DEF Structure, LeaseBusy, At, Goto, QuietMove, LocksHeld, disk, host, memory, TypeOK, Surveying,
          Admitted
    <3>2. QED  BY <3>1, QuietMovePreserves
  <2>3. CASE Run(s) \/ Cleanup(s)
    BY <2>3, RunQuiet, CleanupQuiet, QuietMovePreserves DEF Structure
  <2>4. QED  BY <1>1, <2>1, <2>2, <2>3, EnterPreserves, SurveyPreserves DEF Supervisor
<1>2. ASSUME NEW s \in Slots, TimerFires(s) \/ OperatorRecovers(s) PROVE Structure'
  <2>1. UNCHANGED <<assignment, lock, lease, handle, excluded, todo, seen>>
    BY <1>2 DEF TimerFires, OperatorRecovers, disk, memory
  <2>2. pc'[s] = "lock" /\ \A t \in Slots \ {s} : pc'[t] = pc[t]
    BY <1>2 DEF TimerFires, OperatorRecovers, Goto, TypeOK
  <2>3. \A t \in Slots : ActiveRun(t)' => ActiveRun(t)  BY <2>2 DEF ActiveRun, Admitted
  <2>4. LocksHeld' /\ SurveyConsistent'
    BY <2>1, <2>2 DEF Structure, LocksHeld, SurveyConsistent, Surveying
  <2>5. ActiveRunsCovered'
    BY <2>1, <2>2, <2>3 DEF Structure, ActiveRunsCovered, ActiveRun, Surveying
  <2>6. ExclusiveReservations'
    BY <2>1, <2>3 DEF Structure, ExclusiveReservations, ActiveRun
  <2>7. QED  BY <2>4, <2>5, <2>6 DEF Structure
<1>3. ASSUME NEW s \in Slots, TakeLease(s) PROVE Structure'
  <2>1. UNCHANGED <<assignment, lock, handle, excluded, todo, seen>>  BY <1>3 DEF TakeLease, disk, memory
  <2>2. /\ pc[s] = "lease" /\ lease = NoSlot /\ lease' = s /\ pc'[s] = "observe"
        /\ \A t \in Slots \ {s} : pc'[t] = pc[t]
    BY <1>3 DEF TakeLease, At, Goto, TypeOK
  <2>3. \A t \in Slots : pc[t] \notin Surveying
    BY <2>2, SlotsAssumption DEF Structure, LocksHeld
  <2>4. LocksHeld' /\ SurveyConsistent'
    BY <2>1, <2>2, <2>3 DEF Structure, LocksHeld, SurveyConsistent, Surveying
  <2>5. \A t \in Slots : ActiveRun(t)' => ActiveRun(t)  BY <2>2 DEF ActiveRun, Admitted
  <2>6. ActiveRunsCovered'
    BY <2>1, <2>2, <2>3, <2>5 DEF Structure, ActiveRunsCovered, ActiveRun, Surveying
  <2>7. ExclusiveReservations'
    BY <2>1, <2>5 DEF Structure, ExclusiveReservations, ActiveRun
  <2>8. QED  BY <2>4, <2>6, <2>7 DEF Structure
<1>4. ASSUME NEW s \in Slots, StopTimer(s) \/ StartTimer(s) \/ FetchJob(s) \/ JobEnds(s) PROVE Structure'
  BY <1>4, ElsewherePreserves DEF StopTimer, StartTimer, FetchJob, JobEnds, disk, memory
<1>5. CASE HostRestart
  <2>1. \A t \in Slots : pc'[t] = "idle"  BY <1>5 DEF HostRestart
  <2>2. QED
    BY <2>1 DEF Structure, LocksHeld, SurveyConsistent, ActiveRunsCovered, ExclusiveReservations,
        ActiveRun, Surveying, Admitted
<1>6. CASE \/ \E j \in Jobs : SubmitJob(j) \/ CancelJob(j)
           \/ \E r \in runners : RevokeRunner(r)
           \/ \E r \in requests : LatePost(r)
           \/ UNCHANGED vars
  BY <1>6, ElsewherePreserves
     DEF SubmitJob, CancelJob, RevokeRunner, LatePost, vars, disk, host, memory
<1>q. QED  BY <1>1, <1>2, <1>3, <1>4, <1>5, <1>6, TroublePreserves DEF Next

-----------------------------------------------------------------------------
\* The pool starts with every slot idle.
LEMMA InitReservations == ASSUME Init PROVE ReservationInvariant
<1>1. TypeOK
  BY SlotsAssumption, JobsAssumption, BoundsAssumption
     DEF Init, TypeOK, Phases, Controllers, Services, Statuses, Labels, Surveying, Admitted, Cleaning,
         Generations, NoJob, NoAssignment, Assignments, NothingSeen, Sightings
<1>2. \A s \in Slots : pc[s] = "idle"  BY DEF Init
<1>3. QED
  BY <1>1, <1>2 DEF ReservationInvariant, LocksHeld, SurveyConsistent, ActiveRunsCovered,
      ExclusiveReservations, ActiveRun, Surveying, Admitted

\* The reservation invariant holds in every reachable state of every pool: the
\* locks, the survey's bookkeeping and the active runs always agree.
THEOREM ReservationsCorrect == Spec => []ReservationInvariant
<1>1. Init => ReservationInvariant  BY InitReservations
<1>2. ReservationInvariant /\ [Next]_vars => ReservationInvariant'
  BY StepType, StepStructure DEF ReservationInvariant, Structure
<1>q. QED  BY <1>1, <1>2, PTL DEF Spec

\* Every reachable state is well typed (the phases validate_checkpoint accepts,
\* job ids of Forgejo, locks held by slots).
THEOREM TypeCorrect == Spec => []TypeOK
<1>1. ReservationInvariant => TypeOK  BY DEF ReservationInvariant
<1>q. QED  BY <1>1, ReservationsCorrect, PTL

\* Two supervisors between reservation and cleanup never hold the same job,
\* whatever the number of slots, jobs, crashes and restarts.
THEOREM ReservationsExclusive == Spec => []ExclusiveReservations
<1>1. ReservationInvariant => ExclusiveReservations  BY DEF ReservationInvariant
<1>q. QED  BY <1>1, ReservationsCorrect, PTL

-----------------------------------------------------------------------------
(* Nothing is stranded, creations are never repeated.                      *)

Enrolling == {"mkdir", "record", "fill", "own", "enroll", "confirm", "reconcile", "register"}
\* Before the generation is enrolled for the first time.
Unenrolled == {"mkdir", "record", "fill", "own", "enroll"}
Disposing == {"destroy", "remove", "unlink", "finish"}

\* Where the process of s is and what its checkpoint says (control.perform,
\* lifecycle.run_slot, lifecycle.cleanup_generation).
PhaseFits(s) ==
    /\ pc[s] \in {"lease", "empty"} \cup Surveying => phase[s] = "clean"
    /\ pc[s] \in Enrolling => phase[s] = "preparing"
    /\ pc[s] = "admit" => phase[s] = "registered"
    /\ pc[s] \in {"start", "ready", "wait"} => phase[s] = "running"
    /\ pc[s] = "clean" => phase[s] # "clean"
    /\ pc[s] \in {"retire"} \cup Disposing => phase[s] = "cleaning"
    /\ pc[s] = "empty" => assignment[s].generation # 0
    /\ pc[s] \in (Admitted \ {"empty"}) \cup Cleaning => generation[s] # 0
    /\ phase[s] = "clean" => generation[s] = 0

\* What the slot holds on the host belongs to the generation of its checkpoint and
\* is allocated and given back in one order: directory, receipt, unit, controller.
RuntimeFits(s) ==
    /\ runtime[s] \in {0, generation[s]} /\ receipt[s] \in {0, generation[s]}
    /\ unit[s] # 0 =>
           /\ unit[s] = generation[s] /\ receipt[s] = unit[s] /\ runtime[s] = unit[s]
           /\ phase[s] \in {"running", "cleaning", "quarantined"}
    /\ controller[s] # "none" => unit[s] # 0
    /\ pc[s] \in Enrolling \cup {"admit", "start"} => unit[s] = 0
    /\ pc[s] \in {"mkdir", "record"} => receipt[s] = 0
    /\ pc[s] = "mkdir" => runtime[s] = 0
    /\ pc[s] = "record" => runtime[s] = generation[s]
    /\ pc[s] \in (Enrolling \ {"mkdir", "record"}) \cup {"admit", "start"} =>
           receipt[s] = generation[s] /\ runtime[s] = generation[s]
    /\ pc[s] \in {"ready", "wait"} => unit[s] = generation[s]
    /\ stray[s] => runtime[s] # 0 /\ unit[s] = 0
    /\ pc[s] \in (Enrolling \ {"own"}) \cup {"admit", "start"} => ~stray[s]
    /\ pc[s] \in {"remove", "unlink"} => unit[s] = 0
    /\ pc[s] = "unlink" => runtime[s] = 0
    /\ pc[s] = "finish" /\ ~failed[s] => unit[s] = 0 /\ runtime[s] = 0 /\ receipt[s] = 0

\* Generations are minted once; the one about to enroll is known nowhere.
Minted ==
    /\ \A s \in Slots : assignment[s].generation <= fresh /\ generation[s] <= fresh
    /\ \A r \in runners \cup requests : r[2] <= fresh
    /\ \A s \in Slots : pc[s] = "empty" => <<s, assignment[s].generation>> \notin runners \cup requests
    /\ \A s \in Slots : pc[s] \in Unenrolled => Runner(s) \notin runners \cup requests

\* A cleanup without a failure has retired the registration of its generation.
Retired(s) == pc[s] \in Disposing /\ ~failed[s] => Runner(s) \notin runners

\* When Forgejo applies no creation late, nothing appears behind a cleanup.
RegistrationFits ==
    ~LateCreation => requests = {} /\ RegistrationsAreOwned /\ \A s \in Slots : Retired(s)

\* Registrations that no cleanup will find: still in flight, orphaned already, or
\* applied behind a retirement that succeeded.
Suspect(r) ==
    \/ r \in requests
    \/ phase[r[1]] = "clean" \/ generation[r[1]] # r[2]
    \/ pc[r[1]] \in Disposing /\ ~failed[r[1]]

Known == runners \cup requests
Suspects == {r \in Known : Suspect(r)}

SuspectsCounted ==
    IsFiniteSet(runners) /\ IsFiniteSet(requests) /\ Cardinality(Suspects) <= faults

SlotsFit == \A s \in Slots : PhaseFits(s) /\ RuntimeFits(s)

-----------------------------------------------------------------------------
\* A step of s changes what is kept about s only.
Bystanders(s) ==
    \A t \in Slots \ {s} :
        /\ pc'[t] = pc[t] /\ phase'[t] = phase[t] /\ generation'[t] = generation[t]
        /\ assignment'[t] = assignment[t] /\ failed'[t] = failed[t]
        /\ receipt'[t] = receipt[t] /\ runtime'[t] = runtime[t] /\ stray'[t] = stray[t]
        /\ unit'[t] = unit[t] /\ controller'[t] = controller[t]
        /\ \A r : r[1] = t => (r \in runners' <=> r \in runners)

\* What systemd, the operator, the locks and the controller do around a run.
Around(s) ==
    \/ Enter(s) \/ LockBusy(s) \/ LeaseBusy(s) \/ Exit(s) \/ TimerFires(s) \/ StopTimer(s)
    \/ OperatorRecovers(s) \/ StartTimer(s) \/ TakeLease(s) \/ FetchJob(s) \/ JobEnds(s)

SlotStep(s) == Survey(s) \/ Run(s) \/ Cleanup(s) \/ Trouble(s) \/ Around(s)

\* The steps of Next, sorted by what they touch.
LEMMA StepCases ==
    ASSUME Next
    PROVE \/ \E s \in Slots : SlotStep(s)
          \/ HostRestart
          \/ \E j \in Jobs : SubmitJob(j) \/ CancelJob(j)
          \/ \E r \in runners : RevokeRunner(r)
          \/ \E r \in requests : LatePost(r)
BY DEF Next, SlotStep, Around, Supervisor

\* A step of the survey touches no other slot (pool.peer_assignments).
LEMMA SurveyBystanders ==
    ASSUME TypeOK, NEW s \in Slots, Survey(s)
    PROVE Bystanders(s)
<1> USE DEF TypeOK, Bystanders, Runner, disk, host, memory, forgejo, Goto, Write
<1>1. CASE ObserveSelf(s)  BY <1>1 DEF ObserveSelf, ContinueIf
<1>2. CASE ReadPeer(s)  BY <1>2 DEF ReadPeer
<1>3. CASE WatchPeer(s)  BY <1>3 DEF WatchPeer
<1>4. CASE PeerBlocks(s)  BY <1>4 DEF PeerBlocks, GiveUp
<1>5. CASE ProbeFree(s)  BY <1>5 DEF ProbeFree
<1>6. CASE ProbeHeld(s)  BY <1>6 DEF ProbeHeld
<1>7. CASE PeerIdle(s)  BY <1>7 DEF PeerIdle
<1>8. CASE PeerAssigned(s)  BY <1>8 DEF PeerAssigned, ContinueIf
<1>9. CASE SurveyDone(s)  BY <1>9 DEF SurveyDone
<1>10. CASE PendingJob(s)  BY <1>10 DEF PendingJob
<1>11. CASE NoPendingJob(s)  BY <1>11 DEF NoPendingJob, GiveUp
<1>12. CASE Reserve(s)  BY <1>12 DEF Reserve
<1>q. QED  BY <1>1, <1>2, <1>3, <1>4, <1>5, <1>6, <1>7, <1>8, <1>9, <1>10, <1>11, <1>12 DEF Survey

\* A step of a run touches no other slot (lifecycle.run_slot).
LEMMA RunBystanders ==
    ASSUME TypeOK, NEW s \in Slots, Run(s)
    PROVE Bystanders(s)
<1> USE DEF TypeOK, Bystanders, Runner, disk, host, memory, forgejo, Goto, Write
<1>1. CASE BeginPreparing(s)  BY <1>1 DEF BeginPreparing, WriteCheckpoint
<1>2. CASE MakeRuntime(s)  BY <1>2 DEF MakeRuntime
<1>3. CASE RecordRuntime(s)  BY <1>3 DEF RecordRuntime
<1>3a. CASE MakeEntry(s)  BY <1>3a DEF MakeEntry
<1>3b. CASE RecordEntry(s)  BY <1>3b DEF RecordEntry
<1>4. CASE EnrollSucceeds(s)  BY <1>4 DEF EnrollSucceeds
<1>5. CASE Confirm(s)  BY <1>5 DEF Confirm
<1>6. CASE Reconcile(s)  BY <1>6 DEF Reconcile
<1>7. CASE Register(s)  BY <1>7 DEF Register
<1>8. CASE Admit(s)  BY <1>8 DEF Admit
<1>9. CASE StartWorker(s)  BY <1>9 DEF StartWorker
<1>10. CASE RunController(s)  BY <1>10 DEF RunController
<1>11. CASE ControllerReturns(s)  BY <1>11 DEF ControllerReturns
<1>12. CASE RegistrationRevoked(s)  BY <1>12 DEF RegistrationRevoked
<1>13. CASE JobDeadline(s)  BY <1>13 DEF JobDeadline
<1>q. QED  BY <1>1, <1>2, <1>3, <1>3a, <1>3b, <1>4, <1>5, <1>6, <1>7, <1>8, <1>9, <1>10, <1>11, <1>12, <1>13 DEF Run

\* A step of the cleanup touches no other slot (lifecycle.cleanup_generation).
LEMMA CleanupBystanders ==
    ASSUME TypeOK, NEW s \in Slots, Cleanup(s)
    PROVE Bystanders(s)
<1> USE DEF TypeOK, Bystanders, Runner, disk, host, memory, forgejo, Goto, Write
<1>1. CASE BeginCleaning(s)  BY <1>1 DEF BeginCleaning
<1>2. CASE Retire(s)  BY <1>2 DEF Retire
<1>3. CASE StopUnit(s)  BY <1>3 DEF StopUnit
<1>4. CASE NothingToDestroy(s)  BY <1>4 DEF NothingToDestroy, RuntimeAbsent, NothingAllocated
<1>5. CASE DestroyRefused(s)  BY <1>5 DEF DestroyRefused, NothingAllocated
<1>6. CASE RemoveRuntime(s)  BY <1>6 DEF RemoveRuntime
<1>6a. CASE RemoveBlocked(s)  BY <1>6a DEF RemoveBlocked
<1>7. CASE UnlinkReceipt(s)  BY <1>7 DEF UnlinkReceipt
<1>8. CASE FinishClean(s)  BY <1>8 DEF FinishClean, WriteCheckpoint
<1>9. CASE FinishQuarantined(s)  BY <1>9 DEF FinishQuarantined
<1>q. QED  BY <1>1, <1>2, <1>3, <1>4, <1>5, <1>6, <1>6a, <1>7, <1>8, <1>9 DEF Cleanup

\* A failing step touches no other slot.
LEMMA TroubleBystanders ==
    ASSUME TypeOK, NEW s \in Slots, Trouble(s)
    PROVE Bystanders(s)
<1> USE DEF TypeOK, Bystanders, Runner, disk, host, memory, forgejo, Goto, Write
<1>1. CASE Crash(s)  BY <1>1 DEF Crash, ProcessEnds, ForgetMemory, AfterProcess
<1>2. CASE AdmissionFails(s)  BY <1>2 DEF AdmissionFails, GiveUp
<1>3. CASE EmptinessUnknown(s)  BY <1>3 DEF EmptinessUnknown, WriteCheckpoint
<1>4. CASE EnrollUncertain(s)  BY <1>4 DEF EnrollUncertain
<1>5. CASE ConfirmFails(s)  BY <1>5 DEF ConfirmFails
<1>6. CASE StartWorkerUncertain(s)  BY <1>6 DEF StartWorkerUncertain
<1>7. CASE RunFails(s)  BY <1>7 DEF RunFails
<1>8. CASE RetireFails(s)  BY <1>8 DEF RetireFails
<1>9. CASE DestroyFails(s)  BY <1>9 DEF DestroyFails
<1>q. QED  BY <1>1, <1>2, <1>3, <1>4, <1>5, <1>6, <1>7, <1>8, <1>9 DEF Trouble

\* Nor do the steps around a run.
LEMMA AroundBystanders ==
    ASSUME TypeOK, NEW s \in Slots, Around(s)
    PROVE Bystanders(s)
<1> USE DEF TypeOK, Bystanders, Runner, disk, host, memory, forgejo, Goto, Write
<1>1. CASE EnterNothing(s)  BY <1>1 DEF EnterNothing, Acquire, NothingToDo
<1>2. CASE EnterRecovery(s)  BY <1>2 DEF EnterRecovery, Acquire, NothingToDo
<1>3. CASE EnterAdmission(s)  BY <1>3 DEF EnterAdmission, Acquire, NothingToDo
<1>4. CASE LockBusy(s)  BY <1>4 DEF LockBusy, ProcessEnds, ForgetMemory, AfterProcess
<1>5. CASE LeaseBusy(s)  BY <1>5 DEF LeaseBusy
<1>6. CASE Exit(s)  BY <1>6 DEF Exit, ProcessEnds, ForgetMemory, AfterProcess
<1>7. CASE TimerFires(s)  BY <1>7 DEF TimerFires
<1>8. CASE StopTimer(s)  BY <1>8 DEF StopTimer
<1>9. CASE OperatorRecovers(s)  BY <1>9 DEF OperatorRecovers
<1>10. CASE StartTimer(s)  BY <1>10 DEF StartTimer
<1>11. CASE TakeLease(s)  BY <1>11 DEF TakeLease
<1>12. CASE FetchJob(s)  BY <1>12 DEF FetchJob
<1>13. CASE JobEnds(s)  BY <1>13 DEF JobEnds
<1>q. QED  BY <1>1, <1>2, <1>3, <1>4, <1>5, <1>6, <1>7, <1>8, <1>9, <1>10, <1>11, <1>12, <1>13 DEF Around, Enter

\* A survey changes nothing on the host; a reservation mints a generation.
LEMMA SurveyFits ==
    ASSUME TypeOK, NEW s \in Slots, PhaseFits(s), RuntimeFits(s), Survey(s)
    PROVE PhaseFits(s)' /\ RuntimeFits(s)'
<1> USE BoundsAssumption DEF TypeOK, PhaseFits, RuntimeFits, disk, host, memory, At, Goto, Write,
        Surveying, Enrolling, Unenrolled, Disposing, Admitted, Cleaning, Generations, Phases, Controllers, Statuses, Labels, Assignments
<1>1. CASE ObserveSelf(s)  BY <1>1 DEF ObserveSelf, ContinueIf
<1>2. CASE ReadPeer(s)  BY <1>2 DEF ReadPeer
<1>3. CASE WatchPeer(s)  BY <1>3 DEF WatchPeer
<1>4. CASE PeerBlocks(s)  BY <1>4 DEF PeerBlocks, GiveUp
<1>5. CASE ProbeFree(s)  BY <1>5 DEF ProbeFree
<1>6. CASE ProbeHeld(s)  BY <1>6 DEF ProbeHeld
<1>7. CASE PeerIdle(s)  BY <1>7 DEF PeerIdle
<1>8. CASE PeerAssigned(s)  BY <1>8 DEF PeerAssigned, ContinueIf
<1>9. CASE SurveyDone(s)  BY <1>9 DEF SurveyDone
<1>10. CASE PendingJob(s)  BY <1>10 DEF PendingJob
<1>11. CASE NoPendingJob(s)  BY <1>11 DEF NoPendingJob, GiveUp
<1>12. CASE Reserve(s)  BY <1>12 DEF Reserve
<1>q. QED  BY <1>1, <1>2, <1>3, <1>4, <1>5, <1>6, <1>7, <1>8, <1>9, <1>10, <1>11, <1>12 DEF Survey

\* A run allocates in order, under the generation of its checkpoint.
LEMMA RunFits ==
    ASSUME TypeOK, NEW s \in Slots, PhaseFits(s), RuntimeFits(s), Run(s)
    PROVE PhaseFits(s)' /\ RuntimeFits(s)'
<1> USE BoundsAssumption DEF TypeOK, PhaseFits, RuntimeFits, disk, host, memory, At, Goto, Write,
        Surveying, Enrolling, Unenrolled, Disposing, Admitted, Cleaning, Generations, Phases, Controllers, Statuses, Labels, Assignments
<1>1. CASE BeginPreparing(s)  BY <1>1 DEF BeginPreparing, WriteCheckpoint
<1>2. CASE MakeRuntime(s)  BY <1>2 DEF MakeRuntime
<1>3. CASE RecordRuntime(s)  BY <1>3 DEF RecordRuntime
<1>3a. CASE MakeEntry(s)  BY <1>3a DEF MakeEntry
<1>3b. CASE RecordEntry(s)  BY <1>3b DEF RecordEntry
<1>4. CASE EnrollSucceeds(s)  BY <1>4 DEF EnrollSucceeds
<1>5. CASE Confirm(s)  BY <1>5 DEF Confirm
<1>6. CASE Reconcile(s)  BY <1>6 DEF Reconcile
<1>7. CASE Register(s)  BY <1>7 DEF Register
<1>8. CASE Admit(s)  BY <1>8 DEF Admit
<1>9. CASE StartWorker(s)  BY <1>9 DEF StartWorker
<1>10. CASE RunController(s)  BY <1>10 DEF RunController
<1>11. CASE ControllerReturns(s)  BY <1>11 DEF ControllerReturns
<1>12. CASE RegistrationRevoked(s)  BY <1>12 DEF RegistrationRevoked
<1>13. CASE JobDeadline(s)  BY <1>13 DEF JobDeadline
<1>q. QED  BY <1>1, <1>2, <1>3, <1>3a, <1>3b, <1>4, <1>5, <1>6, <1>7, <1>8, <1>9, <1>10, <1>11, <1>12, <1>13 DEF Run

\* The cleanup gives back in the reverse order, or marks its failure.
LEMMA CleanupFits ==
    ASSUME TypeOK, NEW s \in Slots, PhaseFits(s), RuntimeFits(s), Cleanup(s)
    PROVE PhaseFits(s)' /\ RuntimeFits(s)'
<1> USE BoundsAssumption DEF TypeOK, PhaseFits, RuntimeFits, disk, host, memory, At, Goto, Write,
        Surveying, Enrolling, Unenrolled, Disposing, Admitted, Cleaning, Generations, Phases, Controllers, Statuses, Labels, Assignments
<1>1. CASE BeginCleaning(s)  BY <1>1 DEF BeginCleaning
<1>2. CASE Retire(s)  BY <1>2 DEF Retire
<1>3. CASE StopUnit(s)  BY <1>3 DEF StopUnit
<1>4. CASE NothingToDestroy(s)  BY <1>4 DEF NothingToDestroy, RuntimeAbsent, NothingAllocated
<1>5. CASE DestroyRefused(s)  BY <1>5 DEF DestroyRefused, NothingAllocated
<1>6. CASE RemoveRuntime(s)  BY <1>6 DEF RemoveRuntime
<1>6a. CASE RemoveBlocked(s)  BY <1>6a DEF RemoveBlocked
<1>7. CASE UnlinkReceipt(s)  BY <1>7 DEF UnlinkReceipt
<1>8. CASE FinishClean(s)  BY <1>8 DEF FinishClean, WriteCheckpoint
<1>9. CASE FinishQuarantined(s)  BY <1>9 DEF FinishQuarantined
<1>q. QED  BY <1>1, <1>2, <1>3, <1>4, <1>5, <1>6, <1>6a, <1>7, <1>8, <1>9 DEF Cleanup

\* Whatever fails, checkpoint and host still name one generation.
LEMMA TroubleFits ==
    ASSUME TypeOK, NEW s \in Slots, PhaseFits(s), RuntimeFits(s), Trouble(s)
    PROVE PhaseFits(s)' /\ RuntimeFits(s)'
<1> USE BoundsAssumption DEF TypeOK, PhaseFits, RuntimeFits, disk, host, memory, At, Goto, Write,
        Surveying, Enrolling, Unenrolled, Disposing, Admitted, Cleaning, Generations, Phases, Controllers, Statuses, Labels, Assignments
<1>1. CASE Crash(s)  BY <1>1 DEF Crash, ProcessEnds, ForgetMemory, AfterProcess
<1>2. CASE AdmissionFails(s)  BY <1>2 DEF AdmissionFails, GiveUp
<1>3. CASE EmptinessUnknown(s)  BY <1>3 DEF EmptinessUnknown, WriteCheckpoint
<1>4. CASE EnrollUncertain(s)  BY <1>4 DEF EnrollUncertain
<1>5. CASE ConfirmFails(s)  BY <1>5 DEF ConfirmFails
<1>6. CASE StartWorkerUncertain(s)  BY <1>6 DEF StartWorkerUncertain
<1>7. CASE RunFails(s)  BY <1>7 DEF RunFails
<1>8. CASE RetireFails(s)  BY <1>8 DEF RetireFails
<1>9. CASE DestroyFails(s)  BY <1>9 DEF DestroyFails
<1>q. QED  BY <1>1, <1>2, <1>3, <1>4, <1>5, <1>6, <1>7, <1>8, <1>9 DEF Trouble

\* Locks, timers and the controller leave checkpoint and host in step.
LEMMA AroundFits ==
    ASSUME TypeOK, NEW s \in Slots, PhaseFits(s), RuntimeFits(s), Around(s)
    PROVE PhaseFits(s)' /\ RuntimeFits(s)'
<1> USE BoundsAssumption DEF TypeOK, PhaseFits, RuntimeFits, disk, host, memory, At, Goto, Write,
        Surveying, Enrolling, Unenrolled, Disposing, Admitted, Cleaning, Generations, Phases, Controllers, Statuses, Labels, Assignments
<1>1. CASE EnterNothing(s)  BY <1>1 DEF EnterNothing, Acquire, NothingToDo
<1>2. CASE EnterRecovery(s)  BY <1>2 DEF EnterRecovery, Acquire, NothingToDo
<1>3. CASE EnterAdmission(s)  BY <1>3 DEF EnterAdmission, Acquire, NothingToDo
<1>4. CASE LockBusy(s)  BY <1>4 DEF LockBusy, ProcessEnds, ForgetMemory, AfterProcess
<1>5. CASE LeaseBusy(s)  BY <1>5 DEF LeaseBusy
<1>6. CASE Exit(s)  BY <1>6 DEF Exit, ProcessEnds, ForgetMemory, AfterProcess
<1>7. CASE TimerFires(s)  BY <1>7 DEF TimerFires
<1>8. CASE StopTimer(s)  BY <1>8 DEF StopTimer
<1>9. CASE OperatorRecovers(s)  BY <1>9 DEF OperatorRecovers
<1>10. CASE StartTimer(s)  BY <1>10 DEF StartTimer
<1>11. CASE TakeLease(s)  BY <1>11 DEF TakeLease
<1>12. CASE FetchJob(s)  BY <1>12 DEF FetchJob, Fetchable
<1>13. CASE JobEnds(s)  BY <1>13 DEF JobEnds
<1>q. QED  BY <1>1, <1>2, <1>3, <1>4, <1>5, <1>6, <1>7, <1>8, <1>9, <1>10, <1>11, <1>12, <1>13 DEF Around, Enter

\* Every step keeps checkpoint, host and process of each slot in step.
LEMMA StepFits ==
    ASSUME TypeOK, SlotsFit, [Next]_vars
    PROVE SlotsFit'
<1>1. ASSUME NEW s \in Slots, SlotStep(s) PROVE SlotsFit'
  <2>1. Bystanders(s)
    BY <1>1, SurveyBystanders, RunBystanders, CleanupBystanders, TroubleBystanders, AroundBystanders
       DEF SlotStep
  <2>2. PhaseFits(s) /\ RuntimeFits(s)  BY DEF SlotsFit
  <2>3. PhaseFits(s)' /\ RuntimeFits(s)'
    BY <1>1, <2>2, SurveyFits, RunFits, CleanupFits, TroubleFits, AroundFits DEF SlotStep
  <2>4. ASSUME NEW t \in Slots \ {s} PROVE PhaseFits(t)' /\ RuntimeFits(t)'
    <3>1. PhaseFits(t) /\ RuntimeFits(t)  BY DEF SlotsFit
    <3>2. PhaseFits(t)'  BY <2>1, <3>1 DEF Bystanders, PhaseFits
    <3>3. RuntimeFits(t)'  BY <2>1, <3>1 DEF Bystanders, RuntimeFits
    <3>4. QED  BY <3>2, <3>3
  <2>5. QED  BY <2>3, <2>4 DEF SlotsFit
<1>2. CASE HostRestart
  <2>1. ASSUME NEW s \in Slots PROVE PhaseFits(s)' /\ RuntimeFits(s)'
    <3>1. PhaseFits(s) /\ RuntimeFits(s)  BY DEF SlotsFit
    <3>2. /\ pc'[s] = "idle" /\ unit'[s] = 0 /\ controller'[s] = "none"
          /\ UNCHANGED <<phase, generation, receipt, runtime, stray>>
      BY <1>2 DEF HostRestart, disk
    <3>3. PhaseFits(s)'
      BY <3>1, <3>2 DEF PhaseFits, Surveying, Enrolling, Unenrolled, Disposing, Admitted, Cleaning
    <3>4. RuntimeFits(s)'  BY <3>1, <3>2 DEF RuntimeFits, Enrolling
    <3>5. QED  BY <3>3, <3>4
  <2>2. QED  BY <2>1 DEF SlotsFit
<1>3. ASSUME UNCHANGED <<disk, host, pc, memory>> PROVE SlotsFit'
  BY <1>3 DEF SlotsFit, PhaseFits, RuntimeFits, disk, host, memory
<1>4. CASE \/ \E j \in Jobs : SubmitJob(j) \/ CancelJob(j)
           \/ \E r \in runners : RevokeRunner(r)
           \/ \E r \in requests : LatePost(r)
           \/ UNCHANGED vars
  BY <1>3, <1>4 DEF SubmitJob, CancelJob, RevokeRunner, LatePost, vars
<1>q. QED  BY <1>1, <1>2, <1>4, StepCases

-----------------------------------------------------------------------------
(* Generations are minted once.                                            *)

\* A step of s that mints nothing and starts no preparation: the generations stay
\* (or s forgets its own), and what Forgejo knows grows by an enrollment only.
MintQuiet(s) ==
    /\ fresh' = fresh /\ assignment'[s] = assignment[s]
    /\ generation'[s] \in {generation[s], 0}
    /\ pc'[s] = "empty" => pc[s] = "empty" /\ Known' \subseteq Known
    /\ pc'[s] \in Unenrolled =>
           pc[s] \in Unenrolled /\ generation'[s] = generation[s] /\ Known' \subseteq Known
    /\ Known' \subseteq Known \cup {Runner(s)}

\* The two steps of s that move a new generation on.
MintStep(s) == MintQuiet(s) \/ Reserve(s) \/ BeginPreparing(s)

\* A survey mints nothing until it reserves.
LEMMA SurveyMints ==
    ASSUME TypeOK, NEW s \in Slots, Survey(s)
    PROVE MintStep(s)
<1> USE DEF TypeOK, MintStep, MintQuiet, Unenrolled, Known, disk, host, memory, forgejo, At, Goto, Write, Surveying
<1>1. CASE ObserveSelf(s)  BY <1>1 DEF ObserveSelf, ContinueIf, Runner
<1>2. CASE ReadPeer(s)  BY <1>2 DEF ReadPeer, Runner
<1>3. CASE WatchPeer(s)  BY <1>3 DEF WatchPeer, Runner
<1>4. CASE PeerBlocks(s)  BY <1>4 DEF PeerBlocks, GiveUp, NoFault, Runner
<1>5. CASE ProbeFree(s)  BY <1>5 DEF ProbeFree, Runner
<1>6. CASE ProbeHeld(s)  BY <1>6 DEF ProbeHeld, Runner
<1>7. CASE PeerIdle(s)  BY <1>7 DEF PeerIdle, Runner
<1>8. CASE PeerAssigned(s)  BY <1>8 DEF PeerAssigned, ContinueIf, Runner
<1>9. CASE SurveyDone(s)  BY <1>9 DEF SurveyDone, Runner
<1>10. CASE PendingJob(s)  BY <1>10 DEF PendingJob, Runner
<1>11. CASE NoPendingJob(s)  BY <1>11 DEF NoPendingJob, GiveUp, NoFault, Runner
<1>12. CASE Reserve(s)  BY <1>12
<1>q. QED  BY <1>1, <1>2, <1>3, <1>4, <1>5, <1>6, <1>7, <1>8, <1>9, <1>10, <1>11, <1>12 DEF Survey

\* A run uses the generation of its assignment.
LEMMA RunMints ==
    ASSUME TypeOK, NEW s \in Slots, Run(s)
    PROVE MintStep(s)
<1> USE DEF TypeOK, MintStep, MintQuiet, Unenrolled, Known, disk, host, memory, forgejo, At, Goto, Write, Surveying
<1>1. CASE BeginPreparing(s)  BY <1>1
<1>2. CASE MakeRuntime(s)  BY <1>2 DEF MakeRuntime, Runner
<1>3. CASE RecordRuntime(s)  BY <1>3 DEF RecordRuntime, Runner
<1>3a. CASE MakeEntry(s)  BY <1>3a DEF MakeEntry, Runner
<1>3b. CASE RecordEntry(s)  BY <1>3b DEF RecordEntry, Runner
<1>4. CASE EnrollSucceeds(s)  BY <1>4 DEF EnrollSucceeds, Runner
<1>5. CASE Confirm(s)  BY <1>5 DEF Confirm, Runner
<1>6. CASE Reconcile(s)  BY <1>6 DEF Reconcile, Runner
<1>7. CASE Register(s)  BY <1>7 DEF Register, Runner
<1>8. CASE Admit(s)  BY <1>8 DEF Admit, Runner
<1>9. CASE StartWorker(s)  BY <1>9 DEF StartWorker, Runner
<1>10. CASE RunController(s)  BY <1>10 DEF RunController, Runner
<1>11. CASE ControllerReturns(s)  BY <1>11 DEF ControllerReturns, Runner
<1>12. CASE RegistrationRevoked(s)  BY <1>12 DEF RegistrationRevoked, Runner
<1>13. CASE JobDeadline(s)  BY <1>13 DEF JobDeadline, Runner
<1>q. QED  BY <1>1, <1>2, <1>3, <1>3a, <1>3b, <1>4, <1>5, <1>6, <1>7, <1>8, <1>9, <1>10, <1>11, <1>12, <1>13 DEF Run

\* A cleanup mints nothing.
LEMMA CleanupMints ==
    ASSUME TypeOK, NEW s \in Slots, Cleanup(s)
    PROVE MintStep(s)
<1> USE DEF TypeOK, MintStep, MintQuiet, Unenrolled, Known, disk, host, memory, forgejo, At, Goto, Write, Surveying
<1>1. CASE BeginCleaning(s)  BY <1>1 DEF BeginCleaning, Runner
<1>2. CASE Retire(s)  BY <1>2 DEF Retire, Runner
<1>3. CASE StopUnit(s)  BY <1>3 DEF StopUnit, Runner
<1>4. CASE NothingToDestroy(s)  BY <1>4 DEF NothingToDestroy, RuntimeAbsent, NothingAllocated, Runner
<1>5. CASE DestroyRefused(s)  BY <1>5 DEF DestroyRefused, NothingAllocated, Runner
<1>6. CASE RemoveRuntime(s)  BY <1>6 DEF RemoveRuntime, Runner
<1>6a. CASE RemoveBlocked(s)  BY <1>6a DEF RemoveBlocked, Runner
<1>7. CASE UnlinkReceipt(s)  BY <1>7 DEF UnlinkReceipt, Runner
<1>8. CASE FinishClean(s)  BY <1>8 DEF FinishClean, WriteCheckpoint, Runner
<1>9. CASE FinishQuarantined(s)  BY <1>9 DEF FinishQuarantined, Runner
<1>q. QED  BY <1>1, <1>2, <1>3, <1>4, <1>5, <1>6, <1>6a, <1>7, <1>8, <1>9 DEF Cleanup

\* A failing step mints nothing.
LEMMA TroubleMints ==
    ASSUME TypeOK, NEW s \in Slots, Trouble(s)
    PROVE MintStep(s)
<1> USE DEF TypeOK, MintStep, MintQuiet, Unenrolled, Known, disk, host, memory, forgejo, At, Goto, Write, Surveying
<1>1. CASE Crash(s)  BY <1>1 DEF Crash, ProcessEnds, ForgetMemory, AfterProcess, Fault, Runner
<1>2. CASE AdmissionFails(s)  BY <1>2 DEF AdmissionFails, GiveUp, Fault, Runner
<1>3. CASE EmptinessUnknown(s)  BY <1>3 DEF EmptinessUnknown, WriteCheckpoint, Fault, Runner
<1>4. CASE EnrollUncertain(s)  BY <1>4 DEF EnrollUncertain, Runner, Fault
<1>5. CASE ConfirmFails(s)  BY <1>5 DEF ConfirmFails, Fault, Runner
<1>6. CASE StartWorkerUncertain(s)  BY <1>6 DEF StartWorkerUncertain, Fault, Runner
<1>7. CASE RunFails(s)  BY <1>7 DEF RunFails, Fault, Runner
<1>8. CASE RetireFails(s)  BY <1>8 DEF RetireFails, Runner, Fault
<1>9. CASE DestroyFails(s)  BY <1>9 DEF DestroyFails, Fault, Runner
<1>q. QED  BY <1>1, <1>2, <1>3, <1>4, <1>5, <1>6, <1>7, <1>8, <1>9 DEF Trouble

\* Nor do the steps around a run.
LEMMA AroundMints ==
    ASSUME TypeOK, NEW s \in Slots, Around(s)
    PROVE MintStep(s)
<1> USE DEF TypeOK, MintStep, MintQuiet, Unenrolled, Known, disk, host, memory, forgejo, At, Goto, Write, Surveying
<1>1. CASE EnterNothing(s)  BY <1>1 DEF EnterNothing, Acquire, NothingToDo, Runner
<1>2. CASE EnterRecovery(s)  BY <1>2 DEF EnterRecovery, Acquire, NothingToDo, Runner
<1>3. CASE EnterAdmission(s)  BY <1>3 DEF EnterAdmission, Acquire, NothingToDo, Runner
<1>4. CASE LockBusy(s)  BY <1>4 DEF LockBusy, ProcessEnds, ForgetMemory, AfterProcess, Runner
<1>5. CASE LeaseBusy(s)  BY <1>5 DEF LeaseBusy, Runner
<1>6. CASE Exit(s)  BY <1>6 DEF Exit, ProcessEnds, ForgetMemory, AfterProcess, Runner
<1>7. CASE TimerFires(s)  BY <1>7 DEF TimerFires, Runner
<1>8. CASE StopTimer(s)  BY <1>8 DEF StopTimer, Fault, Runner
<1>9. CASE OperatorRecovers(s)  BY <1>9 DEF OperatorRecovers, Runner
<1>10. CASE StartTimer(s)  BY <1>10 DEF StartTimer, Runner
<1>11. CASE TakeLease(s)  BY <1>11 DEF TakeLease, Runner
<1>12. CASE FetchJob(s)  BY <1>12 DEF FetchJob, Fetchable, Runner
<1>13. CASE JobEnds(s)  BY <1>13 DEF JobEnds, Runner
<1>q. QED  BY <1>1, <1>2, <1>3, <1>4, <1>5, <1>6, <1>7, <1>8, <1>9, <1>10, <1>11, <1>12, <1>13 DEF Around, Enter

\* No generation is ever used twice (lifecycle.run_slot, pool.write_assignment).
LEMMA StepMints ==
    ASSUME TypeOK, SlotsFit, Minted, [Next]_vars
    PROVE Minted'
<1>1. ASSUME NEW s \in Slots, SlotStep(s) PROVE Minted'
  <2>1. Bystanders(s)
    BY <1>1, SurveyBystanders, RunBystanders, CleanupBystanders, TroubleBystanders, AroundBystanders
       DEF SlotStep
  <2>2. MintStep(s)
    BY <1>1, SurveyMints, RunMints, CleanupMints, TroubleMints, AroundMints DEF SlotStep
  <2>3. /\ fresh \in Nat /\ \A t \in Slots : assignment[t].generation \in Nat /\ generation[t] \in Nat
        /\ \A r \in Known : r \in Slots \X Generations
    BY BoundsAssumption DEF TypeOK, Assignments, Generations, Known
  <2>4. Known = runners \cup requests /\ Known' = runners' \cup requests'  BY DEF Known
  <2>5. \A t \in Slots \ {s} : <<t, assignment[t].generation>> # Runner(s) /\ Runner(t) # Runner(s)
    BY DEF Runner
  <2>6. CASE MintQuiet(s)
    <3>1. \A t \in Slots : assignment'[t].generation <= fresh' /\ generation'[t] <= fresh'
      BY <2>1, <2>3, <2>6 DEF Minted, Bystanders, MintQuiet
    <3>2. \A r \in Known' : r[2] <= fresh'
      BY <2>3, <2>4, <2>6 DEF Minted, MintQuiet, Runner
    <3>3. \A t \in Slots : pc'[t] = "empty" => <<t, assignment'[t].generation>> \notin Known'
      BY <2>1, <2>4, <2>5, <2>6 DEF Minted, Bystanders, MintQuiet
    <3>4. ASSUME NEW t \in Slots, pc'[t] \in Unenrolled PROVE Runner(t)' \notin Known'
      <4>1. CASE t = s  BY <2>4, <2>6, <3>4, <4>1 DEF Minted, MintQuiet, Runner
      <4>2. CASE t # s
        <5>1. Runner(t)' = Runner(t)  BY <2>1, <4>2 DEF Bystanders, Runner
        <5>2. Runner(t) \notin Known  BY <2>1, <2>4, <3>4, <4>2 DEF Minted, Bystanders
        <5>3. QED  BY <2>5, <2>6, <4>2, <5>1, <5>2 DEF MintQuiet
      <4>3. QED  BY <4>1, <4>2
    <3>5. QED  BY <2>4, <3>1, <3>2, <3>3, <3>4 DEF Minted
  <2>7. CASE Reserve(s)
    <3>1. /\ fresh' = fresh + 1 /\ generation' = generation /\ Known' = Known
          /\ assignment'[s].generation = fresh + 1 /\ pc'[s] = "empty"
      BY <2>7 DEF Reserve, Write, Goto, TypeOK, Known, forgejo
    <3>2. \A t \in Slots : assignment'[t].generation <= fresh' /\ generation'[t] <= fresh'
      BY <2>1, <2>3, <3>1 DEF Minted, Bystanders
    <3>3. \A r \in Known : r[2] <= fresh /\ r[2] \in Nat  BY <2>3, <2>4 DEF Minted, Generations
    <3>4. <<s, fresh + 1>> \notin Known  BY <2>3, <3>3
    <3>5. \A t \in Slots : pc'[t] = "empty" => <<t, assignment'[t].generation>> \notin Known'
      BY <2>1, <2>4, <3>1, <3>4 DEF Minted, Bystanders
    <3>6. \A t \in Slots : pc'[t] \in Unenrolled => Runner(t)' \notin Known'
      BY <2>1, <2>4, <3>1 DEF Minted, Bystanders, Runner, Unenrolled
    <3>7. \A r \in Known' : r[2] <= fresh'  BY <2>3, <3>1, <3>3
    <3>8. QED  BY <2>4, <3>2, <3>5, <3>6, <3>7 DEF Minted
  <2>8. CASE BeginPreparing(s)
    <3>1. /\ fresh' = fresh /\ assignment' = assignment /\ Known' = Known /\ pc[s] = "empty"
          /\ generation'[s] = assignment[s].generation /\ pc'[s] = "mkdir"
      BY <2>8 DEF BeginPreparing, WriteCheckpoint, Write, At, Goto, TypeOK, Known, forgejo
    <3>2. \A t \in Slots : assignment'[t].generation <= fresh' /\ generation'[t] <= fresh'
      BY <2>1, <2>3, <3>1 DEF Minted, Bystanders
    <3>3. \A t \in Slots : pc'[t] = "empty" => <<t, assignment'[t].generation>> \notin Known'
      BY <2>1, <2>4, <3>1 DEF Minted, Bystanders
    <3>4. Runner(s)' \notin Known'  BY <2>4, <3>1 DEF Minted, Runner
    <3>5. \A t \in Slots : pc'[t] \in Unenrolled => Runner(t)' \notin Known'
      BY <2>1, <2>4, <3>1, <3>4 DEF Minted, Bystanders, Runner
    <3>6. QED  BY <2>4, <3>1, <3>2, <3>3, <3>5 DEF Minted
  <2>9. QED  BY <2>2, <2>6, <2>7, <2>8 DEF MintStep
<1>2. CASE HostRestart
  BY <1>2 DEF HostRestart, disk, forgejo, Minted, Unenrolled
<1>3. ASSUME UNCHANGED <<disk, pc, fresh>>, runners' \cup requests' \subseteq runners \cup requests
      PROVE Minted'
  BY <1>3 DEF Minted, Runner, disk
<1>4. CASE \/ \E j \in Jobs : SubmitJob(j) \/ CancelJob(j)
           \/ \E r \in runners : RevokeRunner(r)
           \/ \E r \in requests : LatePost(r)
           \/ UNCHANGED vars
  BY <1>3, <1>4 DEF SubmitJob, CancelJob, RevokeRunner, LatePost, vars, forgejo
<1>q. QED  BY <1>1, <1>2, <1>4, StepCases

-----------------------------------------------------------------------------
(* Registrations are owned when Forgejo applies no creation late.          *)

\* A step of s leaves no registration of s that its checkpoint does not name.
OwnedStep(s) ==
    /\ requests' = {}
    /\ runners' \subseteq runners \cup {Runner(s)}
    /\ \A r \in runners' : r[1] = s => phase'[s] # "clean" /\ generation'[s] = r[2]
    /\ Retired(s)'

\* A survey leaves the registrations alone.
LEMMA SurveyOwned ==
    ASSUME TypeOK, ~LateCreation, requests = {}, RegistrationsAreOwned, NEW s \in Slots,
           PhaseFits(s), Retired(s), Survey(s)
    PROVE OwnedStep(s)
<1>a. \A r \in runners : r = <<r[1], r[2]>> /\ r[1] \in Slots  BY DEF TypeOK
<1>b. \A r \in runners : r[1] = s => phase[s] # "clean" /\ generation[s] = r[2] /\ r = Runner(s)
  BY <1>a DEF RegistrationsAreOwned, Runner
<1> USE <1>b DEF TypeOK, OwnedStep, Runner, Retired, PhaseFits, Disposing, Enrolling, Surveying,
        disk, host, memory, forgejo, At, Goto, Write
<1>1. CASE ObserveSelf(s)  BY <1>1 DEF ObserveSelf, ContinueIf
<1>2. CASE ReadPeer(s)  BY <1>2 DEF ReadPeer
<1>3. CASE WatchPeer(s)  BY <1>3 DEF WatchPeer
<1>4. CASE PeerBlocks(s)  BY <1>4 DEF PeerBlocks, GiveUp, NoFault
<1>5. CASE ProbeFree(s)  BY <1>5 DEF ProbeFree
<1>6. CASE ProbeHeld(s)  BY <1>6 DEF ProbeHeld
<1>7. CASE PeerIdle(s)  BY <1>7 DEF PeerIdle
<1>8. CASE PeerAssigned(s)  BY <1>8 DEF PeerAssigned, ContinueIf
<1>9. CASE SurveyDone(s)  BY <1>9 DEF SurveyDone
<1>10. CASE PendingJob(s)  BY <1>10 DEF PendingJob
<1>11. CASE NoPendingJob(s)  BY <1>11 DEF NoPendingJob, GiveUp, NoFault
<1>12. CASE Reserve(s)  BY <1>12 DEF Reserve
<1>q. QED  BY <1>1, <1>2, <1>3, <1>4, <1>5, <1>6, <1>7, <1>8, <1>9, <1>10, <1>11, <1>12 DEF Survey

\* A run enrolls the generation of its checkpoint.
LEMMA RunOwned ==
    ASSUME TypeOK, ~LateCreation, requests = {}, RegistrationsAreOwned, NEW s \in Slots,
           PhaseFits(s), Retired(s), Run(s)
    PROVE OwnedStep(s)
<1>a. \A r \in runners : r = <<r[1], r[2]>> /\ r[1] \in Slots  BY DEF TypeOK
<1>b. \A r \in runners : r[1] = s => phase[s] # "clean" /\ generation[s] = r[2] /\ r = Runner(s)
  BY <1>a DEF RegistrationsAreOwned, Runner
<1> USE <1>b DEF TypeOK, OwnedStep, Runner, Retired, PhaseFits, Disposing, Enrolling, Surveying,
        disk, host, memory, forgejo, At, Goto, Write
<1>1. CASE BeginPreparing(s)  BY <1>1 DEF BeginPreparing, WriteCheckpoint
<1>2. CASE MakeRuntime(s)  BY <1>2 DEF MakeRuntime
<1>3. CASE RecordRuntime(s)  BY <1>3 DEF RecordRuntime
<1>3a. CASE MakeEntry(s)  BY <1>3a DEF MakeEntry
<1>3b. CASE RecordEntry(s)  BY <1>3b DEF RecordEntry
<1>4. CASE EnrollSucceeds(s)  BY <1>4 DEF EnrollSucceeds
<1>5. CASE Confirm(s)  BY <1>5 DEF Confirm
<1>6. CASE Reconcile(s)  BY <1>6 DEF Reconcile
<1>7. CASE Register(s)  BY <1>7 DEF Register
<1>8. CASE Admit(s)  BY <1>8 DEF Admit
<1>9. CASE StartWorker(s)  BY <1>9 DEF StartWorker
<1>10. CASE RunController(s)  BY <1>10 DEF RunController
<1>11. CASE ControllerReturns(s)  BY <1>11 DEF ControllerReturns
<1>12. CASE RegistrationRevoked(s)  BY <1>12 DEF RegistrationRevoked
<1>13. CASE JobDeadline(s)  BY <1>13 DEF JobDeadline
<1>q. QED  BY <1>1, <1>2, <1>3, <1>3a, <1>3b, <1>4, <1>5, <1>6, <1>7, <1>8, <1>9, <1>10, <1>11, <1>12, <1>13 DEF Run

\* A checkpoint becomes clean only behind a successful retirement.
LEMMA CleanupOwned ==
    ASSUME TypeOK, ~LateCreation, requests = {}, RegistrationsAreOwned, NEW s \in Slots,
           PhaseFits(s), Retired(s), Cleanup(s)
    PROVE OwnedStep(s)
<1>a. \A r \in runners : r = <<r[1], r[2]>> /\ r[1] \in Slots  BY DEF TypeOK
<1>b. \A r \in runners : r[1] = s => phase[s] # "clean" /\ generation[s] = r[2] /\ r = Runner(s)
  BY <1>a DEF RegistrationsAreOwned, Runner
<1> USE <1>b DEF TypeOK, OwnedStep, Runner, Retired, PhaseFits, Disposing, Enrolling, Surveying,
        disk, host, memory, forgejo, At, Goto, Write
<1>1. CASE BeginCleaning(s)  BY <1>1 DEF BeginCleaning
<1>2. CASE Retire(s)  BY <1>2 DEF Retire
<1>3. CASE StopUnit(s)  BY <1>3 DEF StopUnit
<1>4. CASE NothingToDestroy(s)  BY <1>4 DEF NothingToDestroy, RuntimeAbsent, NothingAllocated
<1>5. CASE DestroyRefused(s)  BY <1>5 DEF DestroyRefused, NothingAllocated
<1>6. CASE RemoveRuntime(s)  BY <1>6 DEF RemoveRuntime
<1>6a. CASE RemoveBlocked(s)  BY <1>6a DEF RemoveBlocked
<1>7. CASE UnlinkReceipt(s)  BY <1>7 DEF UnlinkReceipt
<1>8. CASE FinishClean(s)  BY <1>8 DEF FinishClean, WriteCheckpoint
<1>9. CASE FinishQuarantined(s)  BY <1>9 DEF FinishQuarantined
<1>q. QED  BY <1>1, <1>2, <1>3, <1>4, <1>5, <1>6, <1>6a, <1>7, <1>8, <1>9 DEF Cleanup

\* A failed retirement is not forgotten, and an ended process is past no retirement.
LEMMA TroubleOwned ==
    ASSUME TypeOK, ~LateCreation, requests = {}, RegistrationsAreOwned, NEW s \in Slots,
           PhaseFits(s), Retired(s), Trouble(s)
    PROVE OwnedStep(s)
<1>a. \A r \in runners : r = <<r[1], r[2]>> /\ r[1] \in Slots  BY DEF TypeOK
<1>b. \A r \in runners : r[1] = s => phase[s] # "clean" /\ generation[s] = r[2] /\ r = Runner(s)
  BY <1>a DEF RegistrationsAreOwned, Runner
<1> USE <1>b DEF TypeOK, OwnedStep, Runner, Retired, PhaseFits, Disposing, Enrolling, Surveying,
        disk, host, memory, forgejo, At, Goto, Write
<1>1. CASE Crash(s)  BY <1>1 DEF Crash, ProcessEnds, ForgetMemory, AfterProcess, Fault
<1>2. CASE AdmissionFails(s)  BY <1>2 DEF AdmissionFails, GiveUp, Fault
<1>3. CASE EmptinessUnknown(s)  BY <1>3 DEF EmptinessUnknown, WriteCheckpoint, Fault
<1>4. CASE EnrollUncertain(s)  BY <1>4 DEF EnrollUncertain, Fault
<1>5. CASE ConfirmFails(s)  BY <1>5 DEF ConfirmFails, Fault
<1>6. CASE StartWorkerUncertain(s)  BY <1>6 DEF StartWorkerUncertain, Fault
<1>7. CASE RunFails(s)  BY <1>7 DEF RunFails, Fault
<1>8. CASE RetireFails(s)  BY <1>8 DEF RetireFails, Fault
<1>9. CASE DestroyFails(s)  BY <1>9 DEF DestroyFails, Fault
<1>q. QED  BY <1>1, <1>2, <1>3, <1>4, <1>5, <1>6, <1>7, <1>8, <1>9 DEF Trouble

\* Nothing around a run registers anything.
LEMMA AroundOwned ==
    ASSUME TypeOK, ~LateCreation, requests = {}, RegistrationsAreOwned, NEW s \in Slots,
           PhaseFits(s), Retired(s), Around(s)
    PROVE OwnedStep(s)
<1>a. \A r \in runners : r = <<r[1], r[2]>> /\ r[1] \in Slots  BY DEF TypeOK
<1>b. \A r \in runners : r[1] = s => phase[s] # "clean" /\ generation[s] = r[2] /\ r = Runner(s)
  BY <1>a DEF RegistrationsAreOwned, Runner
<1> USE <1>b DEF TypeOK, OwnedStep, Runner, Retired, PhaseFits, Disposing, Enrolling, Surveying,
        disk, host, memory, forgejo, At, Goto, Write
<1>1. CASE EnterNothing(s)  BY <1>1 DEF EnterNothing, Acquire, NothingToDo
<1>2. CASE EnterRecovery(s)  BY <1>2 DEF EnterRecovery, Acquire, NothingToDo
<1>3. CASE EnterAdmission(s)  BY <1>3 DEF EnterAdmission, Acquire, NothingToDo
<1>4. CASE LockBusy(s)  BY <1>4 DEF LockBusy, ProcessEnds, ForgetMemory, AfterProcess
<1>5. CASE LeaseBusy(s)  BY <1>5 DEF LeaseBusy
<1>6. CASE Exit(s)  BY <1>6 DEF Exit, ProcessEnds, ForgetMemory, AfterProcess
<1>7. CASE TimerFires(s)  BY <1>7 DEF TimerFires
<1>8. CASE StopTimer(s)  BY <1>8 DEF StopTimer, Fault
<1>9. CASE OperatorRecovers(s)  BY <1>9 DEF OperatorRecovers
<1>10. CASE StartTimer(s)  BY <1>10 DEF StartTimer
<1>11. CASE TakeLease(s)  BY <1>11 DEF TakeLease
<1>12. CASE FetchJob(s)  BY <1>12 DEF FetchJob, Fetchable
<1>13. CASE JobEnds(s)  BY <1>13 DEF JobEnds
<1>q. QED  BY <1>1, <1>2, <1>3, <1>4, <1>5, <1>6, <1>7, <1>8, <1>9, <1>10, <1>11, <1>12, <1>13 DEF Around, Enter

\* Registrations stay owned (registration.retire, lifecycle.cleanup_generation).
LEMMA StepOwned ==
    ASSUME TypeOK, SlotsFit, RegistrationFits, ~LateCreation, [Next]_vars
    PROVE RegistrationFits'
<1>0. requests = {} /\ RegistrationsAreOwned /\ \A s \in Slots : Retired(s)  BY DEF RegistrationFits
<1>1. ASSUME NEW s \in Slots, SlotStep(s) PROVE RegistrationFits'
  <2>1. Bystanders(s)
    BY <1>1, SurveyBystanders, RunBystanders, CleanupBystanders, TroubleBystanders, AroundBystanders
       DEF SlotStep
  <2>2. PhaseFits(s) /\ Retired(s)  BY <1>0 DEF SlotsFit
  <2>3. OwnedStep(s)
    BY <1>0, <1>1, <2>2, SurveyOwned, RunOwned, CleanupOwned, TroubleOwned, AroundOwned DEF SlotStep
  <2>4. ASSUME NEW r \in runners' PROVE phase'[r[1]] # "clean" /\ generation'[r[1]] = r[2]
    <3>1. CASE r[1] = s  BY <2>3, <3>1 DEF OwnedStep
    <3>2. CASE r[1] # s
      <4>1. r \in runners /\ r[1] \in Slots  BY <2>3, <3>2 DEF OwnedStep, Runner, TypeOK
      <4>2. QED  BY <1>0, <2>1, <3>2, <4>1 DEF RegistrationsAreOwned, Bystanders
    <3>3. QED  BY <3>1, <3>2
  <2>5. ASSUME NEW t \in Slots PROVE Retired(t)'
    <3>1. CASE t = s  BY <2>3, <3>1 DEF OwnedStep
    <3>2. CASE t # s
      <4>1. Runner(t)' = Runner(t) /\ Runner(t) # Runner(s)  BY <2>1, <3>2 DEF Bystanders, Runner
      <4>2. QED  BY <1>0, <2>1, <2>3, <3>2, <4>1 DEF Retired, Bystanders, OwnedStep
    <3>3. QED  BY <3>1, <3>2
  <2>6. QED  BY <2>3, <2>4, <2>5 DEF RegistrationFits, RegistrationsAreOwned, OwnedStep
<1>2. ASSUME UNCHANGED <<phase, generation>>, requests' = {}, runners' \subseteq runners,
             \A s \in Slots : pc'[s] \in Disposing => pc[s] \in Disposing /\ failed'[s] = failed[s]
      PROVE RegistrationFits'
  BY <1>0, <1>2 DEF RegistrationFits, RegistrationsAreOwned, Retired, Runner
<1>3. CASE HostRestart
  BY <1>0, <1>2, <1>3 DEF HostRestart, disk, forgejo, Disposing
<1>4. CASE \/ \E j \in Jobs : SubmitJob(j) \/ CancelJob(j)
           \/ \E r \in runners : RevokeRunner(r)
           \/ UNCHANGED vars
  BY <1>0, <1>2, <1>4 DEF SubmitJob, CancelJob, RevokeRunner, vars, disk, memory, forgejo
<1>q. QED  BY <1>0, <1>1, <1>3, <1>4, StepCases

-----------------------------------------------------------------------------
(* Orphans are paid for by faults.                                         *)

\* What a step of s adds to the suspects, and what it pays.
SuspectStep(s) ==
    /\ runners' \subseteq runners \cup {Runner(s)} /\ requests' \subseteq requests \cup {Runner(s)}
    /\ \/ Suspects' \subseteq Suspects /\ faults' \in {faults, faults + 1}
       \/ Suspects' \subseteq Suspects \cup {Runner(s)} /\ faults' = faults + 1

\* A survey makes no suspect.
LEMMA SurveySuspects ==
    ASSUME TypeOK, NEW s \in Slots, PhaseFits(s), Bystanders(s), Survey(s)
    PROVE SuspectStep(s)
<1>a. /\ \A r \in Known : r = <<r[1], r[2]>> /\ r[1] \in Slots
      /\ Runner(s)[1] = s /\ Runner(s)[2] = generation[s]
  BY DEF TypeOK, Known, Runner
<1>b. \A r : r \in Suspects' <=> r \in Known' /\ Suspect(r)'  BY DEF Suspects
<1>c. \A r : r \in Suspects <=> r \in Known /\ Suspect(r)  BY DEF Suspects
<1> USE <1>a, <1>b, <1>c DEF TypeOK, SuspectStep, Suspect, Known, Runner, PhaseFits, Bystanders, Disposing,
        Enrolling, Surveying, disk, host, memory, forgejo, At, Goto, Write
<1>1. CASE ObserveSelf(s)  BY <1>1 DEF ObserveSelf, ContinueIf
<1>2. CASE ReadPeer(s)  BY <1>2 DEF ReadPeer
<1>3. CASE WatchPeer(s)  BY <1>3 DEF WatchPeer
<1>4. CASE PeerBlocks(s)  BY <1>4 DEF PeerBlocks, GiveUp, NoFault
<1>5. CASE ProbeFree(s)  BY <1>5 DEF ProbeFree
<1>6. CASE ProbeHeld(s)  BY <1>6 DEF ProbeHeld
<1>7. CASE PeerIdle(s)  BY <1>7 DEF PeerIdle
<1>8. CASE PeerAssigned(s)  BY <1>8 DEF PeerAssigned, ContinueIf
<1>9. CASE SurveyDone(s)  BY <1>9 DEF SurveyDone
<1>10. CASE PendingJob(s)  BY <1>10 DEF PendingJob
<1>11. CASE NoPendingJob(s)  BY <1>11 DEF NoPendingJob, GiveUp, NoFault
<1>12. CASE Reserve(s)  BY <1>12 DEF Reserve
<1>q. QED  BY <1>1, <1>2, <1>3, <1>4, <1>5, <1>6, <1>7, <1>8, <1>9, <1>10, <1>11, <1>12 DEF Survey

\* A run enrolls what its checkpoint names, or pays for a lost answer.
LEMMA RunSuspects ==
    ASSUME TypeOK, NEW s \in Slots, PhaseFits(s), Bystanders(s), Run(s)
    PROVE SuspectStep(s)
<1>a. /\ \A r \in Known : r = <<r[1], r[2]>> /\ r[1] \in Slots
      /\ Runner(s)[1] = s /\ Runner(s)[2] = generation[s]
  BY DEF TypeOK, Known, Runner
<1>b. \A r : r \in Suspects' <=> r \in Known' /\ Suspect(r)'  BY DEF Suspects
<1>c. \A r : r \in Suspects <=> r \in Known /\ Suspect(r)  BY DEF Suspects
<1> USE <1>a, <1>b, <1>c DEF TypeOK, SuspectStep, Suspect, Known, Runner, PhaseFits, Bystanders, Disposing,
        Enrolling, Surveying, disk, host, memory, forgejo, At, Goto, Write
<1>1. CASE BeginPreparing(s)  BY <1>1 DEF BeginPreparing, WriteCheckpoint
<1>2. CASE MakeRuntime(s)  BY <1>2 DEF MakeRuntime
<1>3. CASE RecordRuntime(s)  BY <1>3 DEF RecordRuntime
<1>3a. CASE MakeEntry(s)  BY <1>3a DEF MakeEntry
<1>3b. CASE RecordEntry(s)  BY <1>3b DEF RecordEntry
<1>4. CASE EnrollSucceeds(s)  BY <1>4 DEF EnrollSucceeds
<1>5. CASE Confirm(s)  BY <1>5 DEF Confirm
<1>6. CASE Reconcile(s)  BY <1>6 DEF Reconcile
<1>7. CASE Register(s)  BY <1>7 DEF Register
<1>8. CASE Admit(s)  BY <1>8 DEF Admit
<1>9. CASE StartWorker(s)  BY <1>9 DEF StartWorker
<1>10. CASE RunController(s)  BY <1>10 DEF RunController
<1>11. CASE ControllerReturns(s)  BY <1>11 DEF ControllerReturns
<1>12. CASE RegistrationRevoked(s)  BY <1>12 DEF RegistrationRevoked
<1>13. CASE JobDeadline(s)  BY <1>13 DEF JobDeadline
<1>q. QED  BY <1>1, <1>2, <1>3, <1>3a, <1>3b, <1>4, <1>5, <1>6, <1>7, <1>8, <1>9, <1>10, <1>11, <1>12, <1>13 DEF Run

\* A cleanup makes no suspect that was none.
LEMMA CleanupSuspects ==
    ASSUME TypeOK, NEW s \in Slots, PhaseFits(s), Bystanders(s), Cleanup(s)
    PROVE SuspectStep(s)
<1>a. /\ \A r \in Known : r = <<r[1], r[2]>> /\ r[1] \in Slots
      /\ Runner(s)[1] = s /\ Runner(s)[2] = generation[s]
  BY DEF TypeOK, Known, Runner
<1>b. \A r : r \in Suspects' <=> r \in Known' /\ Suspect(r)'  BY DEF Suspects
<1>c. \A r : r \in Suspects <=> r \in Known /\ Suspect(r)  BY DEF Suspects
<1> USE <1>a, <1>b, <1>c DEF TypeOK, SuspectStep, Suspect, Known, Runner, PhaseFits, Bystanders, Disposing,
        Enrolling, Surveying, disk, host, memory, forgejo, At, Goto, Write
<1>1. CASE BeginCleaning(s)  BY <1>1 DEF BeginCleaning
<1>2. CASE Retire(s)  BY <1>2 DEF Retire
<1>3. CASE StopUnit(s)  BY <1>3 DEF StopUnit
<1>4. CASE NothingToDestroy(s)  BY <1>4 DEF NothingToDestroy, RuntimeAbsent, NothingAllocated
<1>5. CASE DestroyRefused(s)  BY <1>5 DEF DestroyRefused, NothingAllocated
<1>6. CASE RemoveRuntime(s)  BY <1>6 DEF RemoveRuntime
<1>6a. CASE RemoveBlocked(s)  BY <1>6a DEF RemoveBlocked
<1>7. CASE UnlinkReceipt(s)  BY <1>7 DEF UnlinkReceipt
<1>8. CASE FinishClean(s)  BY <1>8 DEF FinishClean, WriteCheckpoint
<1>9. CASE FinishQuarantined(s)  BY <1>9 DEF FinishQuarantined
<1>q. QED  BY <1>1, <1>2, <1>3, <1>4, <1>5, <1>6, <1>6a, <1>7, <1>8, <1>9 DEF Cleanup

\* Only a lost enrollment makes a suspect, and it is a fault.
LEMMA TroubleSuspects ==
    ASSUME TypeOK, NEW s \in Slots, PhaseFits(s), Bystanders(s), Trouble(s)
    PROVE SuspectStep(s)
<1>a. /\ \A r \in Known : r = <<r[1], r[2]>> /\ r[1] \in Slots
      /\ Runner(s)[1] = s /\ Runner(s)[2] = generation[s]
  BY DEF TypeOK, Known, Runner
<1>b. \A r : r \in Suspects' <=> r \in Known' /\ Suspect(r)'  BY DEF Suspects
<1>c. \A r : r \in Suspects <=> r \in Known /\ Suspect(r)  BY DEF Suspects
<1> USE <1>a, <1>b, <1>c DEF TypeOK, SuspectStep, Suspect, Known, Runner, PhaseFits, Bystanders, Disposing,
        Enrolling, Surveying, disk, host, memory, forgejo, At, Goto, Write
<1>1. CASE Crash(s)  BY <1>1 DEF Crash, ProcessEnds, ForgetMemory, AfterProcess, Fault
<1>2. CASE AdmissionFails(s)  BY <1>2 DEF AdmissionFails, GiveUp, Fault
<1>3. CASE EmptinessUnknown(s)  BY <1>3 DEF EmptinessUnknown, WriteCheckpoint, Fault
<1>4. CASE EnrollUncertain(s)  BY <1>4 DEF EnrollUncertain, Fault
<1>5. CASE ConfirmFails(s)  BY <1>5 DEF ConfirmFails, Fault
<1>6. CASE StartWorkerUncertain(s)  BY <1>6 DEF StartWorkerUncertain, Fault
<1>7. CASE RunFails(s)  BY <1>7 DEF RunFails, Fault
<1>8. CASE RetireFails(s)  BY <1>8 DEF RetireFails, Fault
<1>9. CASE DestroyFails(s)  BY <1>9 DEF DestroyFails, Fault
<1>q. QED  BY <1>1, <1>2, <1>3, <1>4, <1>5, <1>6, <1>7, <1>8, <1>9 DEF Trouble

\* Nothing around a run makes a suspect.
LEMMA AroundSuspects ==
    ASSUME TypeOK, NEW s \in Slots, PhaseFits(s), Bystanders(s), Around(s)
    PROVE SuspectStep(s)
<1>a. /\ \A r \in Known : r = <<r[1], r[2]>> /\ r[1] \in Slots
      /\ Runner(s)[1] = s /\ Runner(s)[2] = generation[s]
  BY DEF TypeOK, Known, Runner
<1>b. \A r : r \in Suspects' <=> r \in Known' /\ Suspect(r)'  BY DEF Suspects
<1>c. \A r : r \in Suspects <=> r \in Known /\ Suspect(r)  BY DEF Suspects
<1> USE <1>a, <1>b, <1>c DEF TypeOK, SuspectStep, Suspect, Known, Runner, PhaseFits, Bystanders, Disposing,
        Enrolling, Surveying, disk, host, memory, forgejo, At, Goto, Write
<1>1. CASE EnterNothing(s)  BY <1>1 DEF EnterNothing, Acquire, NothingToDo
<1>2. CASE EnterRecovery(s)  BY <1>2 DEF EnterRecovery, Acquire, NothingToDo
<1>3. CASE EnterAdmission(s)  BY <1>3 DEF EnterAdmission, Acquire, NothingToDo
<1>4. CASE LockBusy(s)  BY <1>4 DEF LockBusy, ProcessEnds, ForgetMemory, AfterProcess
<1>5. CASE LeaseBusy(s)  BY <1>5 DEF LeaseBusy
<1>6. CASE Exit(s)  BY <1>6 DEF Exit, ProcessEnds, ForgetMemory, AfterProcess
<1>7. CASE TimerFires(s)  BY <1>7 DEF TimerFires
<1>8. CASE StopTimer(s)  BY <1>8 DEF StopTimer, Fault
<1>9. CASE OperatorRecovers(s)  BY <1>9 DEF OperatorRecovers
<1>10. CASE StartTimer(s)  BY <1>10 DEF StartTimer
<1>11. CASE TakeLease(s)  BY <1>11 DEF TakeLease
<1>12. CASE FetchJob(s)  BY <1>12 DEF FetchJob, Fetchable
<1>13. CASE JobEnds(s)  BY <1>13 DEF JobEnds
<1>q. QED  BY <1>1, <1>2, <1>3, <1>4, <1>5, <1>6, <1>7, <1>8, <1>9, <1>10, <1>11, <1>12, <1>13 DEF Around, Enter

\* A set that gains at most one element gains at most one in number.
LEMMA AtMostOneMore ==
    ASSUME NEW S, NEW T, NEW x, IsFiniteSet(S), T \subseteq S \cup {x}
    PROVE IsFiniteSet(T) /\ Cardinality(T) \in Nat /\ Cardinality(S) \in Nat
          /\ Cardinality(T) <= Cardinality(S) + 1
<1>1. IsFiniteSet(S \cup {x}) /\ Cardinality(S \cup {x}) \in {Cardinality(S), Cardinality(S) + 1}
  BY FS_AddElement
<1>2. IsFiniteSet(T) /\ Cardinality(T) <= Cardinality(S \cup {x})  BY <1>1, FS_Subset
<1>3. Cardinality(S) \in Nat /\ Cardinality(T) \in Nat  BY <1>2, FS_CardinalityType
<1>q. QED  BY <1>1, <1>2, <1>3

\* The account of the suspects stays balanced (registration.create, registration.retire).
LEMMA StepSuspects ==
    ASSUME TypeOK, SlotsFit, SuspectsCounted, [Next]_vars
    PROVE SuspectsCounted'
<1>1. IsFiniteSet(Suspects) /\ Cardinality(Suspects) \in Nat /\ faults \in Nat
  <2>1. IsFiniteSet(Known)  BY FS_Union DEF SuspectsCounted, Known
  <2>2. IsFiniteSet(Suspects)  BY <2>1, FS_Subset DEF Suspects
  <2>3. QED  BY <2>2, FS_CardinalityType, BoundsAssumption DEF TypeOK
<1>2. ASSUME NEW x, Suspects' \subseteq Suspects \cup {x}, faults' = faults + 1
      PROVE Cardinality(Suspects') <= faults'
  <2>1. Cardinality(Suspects') \in Nat /\ Cardinality(Suspects') <= Cardinality(Suspects) + 1
    BY <1>1, <1>2, AtMostOneMore
  <2>2. Cardinality(Suspects) <= faults  BY DEF SuspectsCounted
  <2>3. QED  BY <1>1, <1>2, <2>1, <2>2
<1>3. ASSUME Suspects' \subseteq Suspects, faults' \in {faults, faults + 1}
      PROVE Cardinality(Suspects') <= faults'
  <2>1. Cardinality(Suspects') <= Cardinality(Suspects) /\ Cardinality(Suspects') \in Nat
    BY <1>1, <1>3, FS_Subset, FS_CardinalityType
  <2>2. Cardinality(Suspects) <= faults  BY DEF SuspectsCounted
  <2>3. QED  BY <1>1, <1>3, <2>1, <2>2
<1>4. ASSUME NEW s \in Slots, SlotStep(s) PROVE SuspectsCounted'
  <2>1. Bystanders(s)
    BY <1>4, SurveyBystanders, RunBystanders, CleanupBystanders, TroubleBystanders, AroundBystanders
       DEF SlotStep
  <2>2. PhaseFits(s)  BY DEF SlotsFit
  <2>3. SuspectStep(s)
    BY <1>4, <2>1, <2>2, SurveySuspects, RunSuspects, CleanupSuspects, TroubleSuspects, AroundSuspects
       DEF SlotStep
  <2>4. IsFiniteSet(runners') /\ IsFiniteSet(requests')
    BY <2>3, AtMostOneMore DEF SuspectStep, SuspectsCounted
  <2>5. QED  BY <1>2, <1>3, <2>3, <2>4 DEF SuspectStep, SuspectsCounted
<1>5. ASSUME runners' \subseteq runners, requests' = requests, UNCHANGED <<phase, generation>>,
             \A s \in Slots : pc'[s] \in Disposing => pc[s] \in Disposing /\ failed'[s] = failed[s],
             faults' \in {faults, faults + 1}
      PROVE SuspectsCounted'
  <2>1. \A r \in Known : r[1] \in Slots  BY DEF TypeOK, Known
  <2>2. Suspects' \subseteq Suspects  BY <1>5, <2>1 DEF Suspects, Suspect, Known
  <2>3. IsFiniteSet(runners')  BY <1>5, FS_Subset DEF SuspectsCounted
  <2>4. QED  BY <1>3, <1>5, <2>2, <2>3 DEF SuspectsCounted
<1>6. CASE HostRestart
  BY <1>5, <1>6 DEF HostRestart, Fault, disk, forgejo, Disposing
<1>7. ASSUME NEW r \in requests, LatePost(r) PROVE SuspectsCounted'
  <2>1. Suspects' \subseteq Suspects
    BY <1>7 DEF LatePost, Suspects, Suspect, Known, disk, memory
  <2>2. IsFiniteSet(runners') /\ IsFiniteSet(requests')
    BY <1>7, FS_AddElement, FS_Subset DEF LatePost, SuspectsCounted
  <2>3. QED  BY <1>3, <1>7, <2>1, <2>2 DEF LatePost, SuspectsCounted
<1>8. CASE \/ \E j \in Jobs : SubmitJob(j) \/ CancelJob(j)
           \/ \E r \in runners : RevokeRunner(r)
           \/ UNCHANGED vars
  BY <1>5, <1>8 DEF SubmitJob, CancelJob, RevokeRunner, Fault, vars, disk, memory, forgejo
<1>q. QED  BY <1>4, <1>6, <1>7, <1>8, StepCases

-----------------------------------------------------------------------------
(* The invariant of the pool, and what it says.                            *)

\* Reservations, checkpoints, host state, registrations and their account agree.
PoolInv == ReservationInvariant /\ SlotsFit /\ Minted /\ RegistrationFits /\ SuspectsCounted

\* The invariant of the pool is inductive: recovery never loses track of a slot.
LEMMA PoolHolds == Spec => []PoolInv
<1>1. Init => PoolInv
  <2> SUFFICES ASSUME Init PROVE PoolInv
    OBVIOUS
  <2>1. ReservationInvariant  BY InitReservations
  <2>2. SlotsFit
    BY DEF Init, SlotsFit, PhaseFits, RuntimeFits, Surveying, Enrolling, Unenrolled, Disposing, Admitted, Cleaning
  <2>3. runners = {} /\ requests = {} /\ fresh = 0 /\ faults = 0 /\ \A s \in Slots : pc[s] = "idle"
    BY DEF Init
  <2>4. Minted  BY <2>3 DEF Init, Minted, NoAssignment
  <2>5. RegistrationFits  BY <2>3 DEF RegistrationFits, RegistrationsAreOwned, Retired, Disposing
  <2>6. SuspectsCounted
    <3>1. Suspects = {}  BY <2>3 DEF Suspects, Known
    <3>2. QED  BY <2>3, <3>1, FS_EmptySet DEF SuspectsCounted
  <2>7. QED  BY <2>1, <2>2, <2>4, <2>5, <2>6 DEF PoolInv
<1>2. PoolInv /\ [Next]_vars => PoolInv'
  <2> SUFFICES ASSUME PoolInv, [Next]_vars PROVE PoolInv'
    OBVIOUS
  <2>1. TypeOK /\ Structure  BY DEF PoolInv, ReservationInvariant, Structure
  <2>2. ReservationInvariant'
    BY <2>1, StepType, StepStructure DEF ReservationInvariant, Structure
  <2>3. SlotsFit' /\ Minted' /\ SuspectsCounted'
    BY <2>1, StepFits, StepMints, StepSuspects DEF PoolInv
  <2>4. RegistrationFits'
    <3>1. CASE LateCreation  BY <3>1 DEF RegistrationFits
    <3>2. CASE ~LateCreation  BY <2>1, <3>2, StepOwned DEF PoolInv
    <3>3. QED  BY <3>1, <3>2
  <2>5. QED  BY <2>2, <2>3, <2>4 DEF PoolInv
<1>q. QED  BY <1>1, <1>2, PTL DEF Spec

\* Late answers multiply nothing: a generation enrolls once, and every registration
\* that no recovery finds is one lost enrollment (registration.create).
THEOREM EnrollmentBounded == Spec => []EnrollmentIsBounded
<1>1. PoolInv => EnrollmentIsBounded
  <2> SUFFICES ASSUME PoolInv PROVE EnrollmentIsBounded
    OBVIOUS
  <2>1. SingleEnrollment  BY DEF PoolInv, Minted, Unenrolled, SingleEnrollment, At
  <2>2. Orphans \subseteq Suspects  BY DEF Orphans, Suspects, Suspect, Known
  <2>3. IsFiniteSet(Suspects)
    BY FS_Union, FS_Subset DEF PoolInv, SuspectsCounted, Known, Suspects
  <2>4. Cardinality(Orphans) <= Cardinality(Suspects) /\ Cardinality(Orphans) \in Nat
        /\ Cardinality(Suspects) \in Nat
    BY <2>2, <2>3, FS_Subset, FS_CardinalityType
  <2>5. faults \in Nat  BY BoundsAssumption DEF PoolInv, ReservationInvariant, TypeOK
  <2>6. OrphansAreBounded  BY <2>4, <2>5 DEF PoolInv, SuspectsCounted, OrphansAreBounded
  <2>7. QED  BY <2>1, <2>6 DEF EnrollmentIsBounded
<1>q. QED  BY <1>1, PoolHolds, PTL

\* A live worker is named by checkpoint, receipt and runtime directory, whatever
\* Forgejo applies late (lifecycle.destroy finds what it has to stop).
THEOREM WorkersDisposable == Spec => []DisposableWorker
<1>1. PoolInv => DisposableWorker
  BY DEF PoolInv, SlotsFit, RuntimeFits, DisposableWorker
<1>q. QED  BY <1>1, PoolHolds, PTL

\* When Forgejo applies no creation after its client gave up, the recovery of a slot
\* finds every registration and every worker that the slot ever made.
THEOREM NothingStranded == ASSUME ~LateCreation PROVE Spec => []NothingIsStranded
<1>1. PoolInv => NothingIsStranded
  BY DEF PoolInv, SlotsFit, RuntimeFits, DisposableWorker, RegistrationFits, NothingIsStranded
<1>q. QED  BY <1>1, PoolHolds, PTL

-----------------------------------------------------------------------------
(* The pool implements SlotLedger.                                         *)

Mode(s) == IF ActiveRun(s) THEN "held" ELSE IF phase[s] = "clean" THEN "free" ELSE "dirty"
Left(s) == ~RuntimeAbsent(s) \/ receipt[s] # 0 \/ \E r \in runners : r[1] = s

\* What the ledger sees of a step of s.
LedgerMove(s) ==
    \/ Mode(s)' = Mode(s) /\ Left(s)' = Left(s) /\ assignment'[s] = assignment[s]
    \/ Mode(s) = "held" /\ Mode(s)' = "held" /\ assignment'[s] = assignment[s]
    \/ Mode(s) = "held" /\ Mode(s)' # "held" /\ Left(s)' = Left(s) /\ (Mode(s)' = "free" => ~Left(s))
    \/ Mode(s) = "dirty" /\ Mode(s)' = "dirty" /\ ~Left(s)'
    \/ Mode(s) = "dirty" /\ Mode(s)' = "free" /\ ~Left(s) /\ ~Left(s)'
    \/ Reserve(s) /\ Mode(s) = "free" /\ Mode(s)' = "held" /\ Left(s)' = Left(s)

\* Checkpoint, host and registrations of s agree, and no creation is in flight.
Accounted(s) ==
    /\ PhaseFits(s) /\ RuntimeFits(s) /\ Retired(s)
    /\ \A r \in runners : r = <<r[1], r[2]>>
    /\ \A r \in runners : r[1] = s => phase[s] # "clean" /\ generation[s] = r[2]

\* A survey ends in a reservation or leaves the ledger alone.
LEMMA SurveyLedger ==
    ASSUME TypeOK, ~LateCreation, NEW s \in Slots, Accounted(s), Survey(s)
    PROVE LedgerMove(s)
<1> USE DEF TypeOK, LedgerMove, Mode, Left, Accounted, PhaseFits, RuntimeFits, Retired, Runner, ActiveRun, RuntimeAbsent,
        Admitted, Surveying, Disposing, Enrolling, Cleaning, disk, host, memory, forgejo, At, Goto, Write
<1>1. CASE ObserveSelf(s)  BY <1>1 DEF ObserveSelf, ContinueIf
<1>2. CASE ReadPeer(s)  BY <1>2 DEF ReadPeer
<1>3. CASE WatchPeer(s)  BY <1>3 DEF WatchPeer
<1>4. CASE PeerBlocks(s)  BY <1>4 DEF PeerBlocks, GiveUp, NoFault
<1>5. CASE ProbeFree(s)  BY <1>5 DEF ProbeFree
<1>6. CASE ProbeHeld(s)  BY <1>6 DEF ProbeHeld
<1>7. CASE PeerIdle(s)  BY <1>7 DEF PeerIdle
<1>8. CASE PeerAssigned(s)  BY <1>8 DEF PeerAssigned, ContinueIf
<1>9. CASE SurveyDone(s)  BY <1>9 DEF SurveyDone
<1>10. CASE PendingJob(s)  BY <1>10 DEF PendingJob
<1>11. CASE NoPendingJob(s)  BY <1>11 DEF NoPendingJob, GiveUp, NoFault
<1>12. CASE Reserve(s)  BY <1>12 DEF Reserve
<1>q. QED  BY <1>1, <1>2, <1>3, <1>4, <1>5, <1>6, <1>7, <1>8, <1>9, <1>10, <1>11, <1>12 DEF Survey

\* A run works, or stops with its slot dirty.
LEMMA RunLedger ==
    ASSUME TypeOK, ~LateCreation, NEW s \in Slots, Accounted(s), Run(s)
    PROVE LedgerMove(s)
<1> USE DEF TypeOK, LedgerMove, Mode, Left, Accounted, PhaseFits, RuntimeFits, Retired, Runner, ActiveRun, RuntimeAbsent,
        Admitted, Surveying, Disposing, Enrolling, Cleaning, disk, host, memory, forgejo, At, Goto, Write
<1>1. CASE BeginPreparing(s)  BY <1>1 DEF BeginPreparing, WriteCheckpoint
<1>2. CASE MakeRuntime(s)  BY <1>2 DEF MakeRuntime
<1>3. CASE RecordRuntime(s)  BY <1>3 DEF RecordRuntime
<1>3a. CASE MakeEntry(s)  BY <1>3a DEF MakeEntry
<1>3b. CASE RecordEntry(s)  BY <1>3b DEF RecordEntry
<1>4. CASE EnrollSucceeds(s)  BY <1>4 DEF EnrollSucceeds
<1>5. CASE Confirm(s)  BY <1>5 DEF Confirm
<1>6. CASE Reconcile(s)  BY <1>6 DEF Reconcile
<1>7. CASE Register(s)  BY <1>7 DEF Register
<1>8. CASE Admit(s)  BY <1>8 DEF Admit
<1>9. CASE StartWorker(s)  BY <1>9 DEF StartWorker
<1>10. CASE RunController(s)  BY <1>10 DEF RunController
<1>11. CASE ControllerReturns(s)  BY <1>11 DEF ControllerReturns
<1>12. CASE RegistrationRevoked(s)  BY <1>12 DEF RegistrationRevoked
<1>13. CASE JobDeadline(s)  BY <1>13 DEF JobDeadline
<1>q. QED  BY <1>1, <1>2, <1>3, <1>3a, <1>3b, <1>4, <1>5, <1>6, <1>7, <1>8, <1>9, <1>10, <1>11, <1>12, <1>13 DEF Run

\* A cleanup purges, and frees a slot that left nothing behind.
LEMMA CleanupLedger ==
    ASSUME TypeOK, ~LateCreation, NEW s \in Slots, Accounted(s), Cleanup(s)
    PROVE LedgerMove(s)
<1> USE DEF TypeOK, LedgerMove, Mode, Left, Accounted, PhaseFits, RuntimeFits, Retired, Runner, ActiveRun, RuntimeAbsent,
        Admitted, Surveying, Disposing, Enrolling, Cleaning, disk, host, memory, forgejo, At, Goto, Write
<1>1. CASE BeginCleaning(s)  BY <1>1 DEF BeginCleaning
<1>2. CASE Retire(s)  BY <1>2 DEF Retire
<1>3. CASE StopUnit(s)  BY <1>3 DEF StopUnit
<1>4. CASE NothingToDestroy(s)  BY <1>4 DEF NothingToDestroy, NothingAllocated
<1>5. CASE DestroyRefused(s)  BY <1>5 DEF DestroyRefused, NothingAllocated
<1>6. CASE RemoveRuntime(s)  BY <1>6 DEF RemoveRuntime
<1>6a. CASE RemoveBlocked(s)  BY <1>6a DEF RemoveBlocked
<1>7. CASE UnlinkReceipt(s)  BY <1>7 DEF UnlinkReceipt
<1>8. CASE FinishClean(s)  BY <1>8 DEF FinishClean, WriteCheckpoint
<1>9. CASE FinishQuarantined(s)  BY <1>9 DEF FinishQuarantined
<1>q. QED  BY <1>1, <1>2, <1>3, <1>4, <1>5, <1>6, <1>6a, <1>7, <1>8, <1>9 DEF Cleanup

\* A failing step stops a run or leaves the ledger alone.
LEMMA TroubleLedger ==
    ASSUME TypeOK, ~LateCreation, NEW s \in Slots, Accounted(s), Trouble(s)
    PROVE LedgerMove(s)
<1> USE DEF TypeOK, LedgerMove, Mode, Left, Accounted, PhaseFits, RuntimeFits, Retired, Runner, ActiveRun, RuntimeAbsent,
        Admitted, Surveying, Disposing, Enrolling, Cleaning, disk, host, memory, forgejo, At, Goto, Write
<1>1. CASE Crash(s)  BY <1>1 DEF Crash, ProcessEnds, ForgetMemory, AfterProcess, Fault
<1>2. CASE AdmissionFails(s)  BY <1>2 DEF AdmissionFails, GiveUp, Fault
<1>3. CASE EmptinessUnknown(s)  BY <1>3 DEF EmptinessUnknown, WriteCheckpoint, Fault
<1>4. CASE EnrollUncertain(s)  BY <1>4 DEF EnrollUncertain, Fault
<1>5. CASE ConfirmFails(s)  BY <1>5 DEF ConfirmFails, Fault
<1>6. CASE StartWorkerUncertain(s)  BY <1>6 DEF StartWorkerUncertain, Fault
<1>7. CASE RunFails(s)  BY <1>7 DEF RunFails, Fault
<1>8. CASE RetireFails(s)  BY <1>8 DEF RetireFails, Fault
<1>9. CASE DestroyFails(s)  BY <1>9 DEF DestroyFails, Fault
<1>q. QED  BY <1>1, <1>2, <1>3, <1>4, <1>5, <1>6, <1>7, <1>8, <1>9 DEF Trouble

\* What happens around a run is work of the run at most.
LEMMA AroundLedger ==
    ASSUME TypeOK, ~LateCreation, NEW s \in Slots, Accounted(s), Around(s)
    PROVE LedgerMove(s)
<1> USE DEF TypeOK, LedgerMove, Mode, Left, Accounted, PhaseFits, RuntimeFits, Retired, Runner, ActiveRun, RuntimeAbsent,
        Admitted, Surveying, Disposing, Enrolling, Cleaning, disk, host, memory, forgejo, At, Goto, Write
<1>1. CASE EnterNothing(s)  BY <1>1 DEF EnterNothing, Acquire, NothingToDo
<1>2. CASE EnterRecovery(s)  BY <1>2 DEF EnterRecovery, Acquire, NothingToDo
<1>3. CASE EnterAdmission(s)  BY <1>3 DEF EnterAdmission, Acquire, NothingToDo
<1>4. CASE LockBusy(s)  BY <1>4 DEF LockBusy, ProcessEnds, ForgetMemory, AfterProcess
<1>5. CASE LeaseBusy(s)  BY <1>5 DEF LeaseBusy
<1>6. CASE Exit(s)  BY <1>6 DEF Exit, ProcessEnds, ForgetMemory, AfterProcess
<1>7. CASE TimerFires(s)  BY <1>7 DEF TimerFires
<1>8. CASE StopTimer(s)  BY <1>8 DEF StopTimer, Fault
<1>9. CASE OperatorRecovers(s)  BY <1>9 DEF OperatorRecovers
<1>10. CASE StartTimer(s)  BY <1>10 DEF StartTimer
<1>11. CASE TakeLease(s)  BY <1>11 DEF TakeLease
<1>12. CASE FetchJob(s)  BY <1>12 DEF FetchJob, Fetchable
<1>13. CASE JobEnds(s)  BY <1>13 DEF JobEnds
<1>q. QED  BY <1>1, <1>2, <1>3, <1>4, <1>5, <1>6, <1>7, <1>8, <1>9, <1>10, <1>11, <1>12, <1>13 DEF Around, Enter

\* The pool's functions at one slot.
LEMMA LedgerAt ==
    /\ ledgerMode = [t \in Slots |-> Mode(t)]
    /\ ledgerJob = [t \in Slots |-> IF ActiveRun(t) THEN assignment[t].job ELSE NoJob]
    /\ ledgerResidue = [t \in Slots |-> Left(t)]
    /\ \A t \in Slots : (Mode(t) = "held") <=> ActiveRun(t)
    /\ \A t \in Slots : Left(t) \in BOOLEAN
BY DEF ledgerMode, ledgerJob, ledgerResidue, Mode, Left

\* The same of the next state.
LEMMA LedgerAfter ==
    /\ ledgerMode' = [t \in Slots |-> Mode(t)']
    /\ ledgerJob' = [t \in Slots |-> IF ActiveRun(t)' THEN assignment'[t].job ELSE NoJob]
    /\ ledgerResidue' = [t \in Slots |-> Left(t)']
    /\ \A t \in Slots : (Mode(t)' = "held") <=> ActiveRun(t)'
    /\ \A t \in Slots : Left(t)' \in BOOLEAN
BY DEF ledgerMode, ledgerJob, ledgerResidue, Mode, Left

\* A move of one slot is a step of the ledger or changes nothing in it.
LEMMA MoveRefines ==
    ASSUME PoolInv, NEW s \in Slots, Bystanders(s), LedgerMove(s)
    PROVE Ledger!Next \/ UNCHANGED Ledger!vars
<1>1. \A t \in Slots \ {s} :
          Mode(t)' = Mode(t) /\ Left(t)' = Left(t) /\ ActiveRun(t)' = ActiveRun(t)
          /\ assignment'[t] = assignment[t]
  BY DEF Bystanders, Mode, Left, ActiveRun, RuntimeAbsent
<1>2. /\ ledgerMode' = [ledgerMode EXCEPT ![s] = Mode(s)']
      /\ ledgerJob' = [ledgerJob EXCEPT ![s] = IF Mode(s)' = "held" THEN assignment'[s].job ELSE NoJob]
      /\ ledgerResidue' = [ledgerResidue EXCEPT ![s] = Left(s)']
  BY <1>1, LedgerAt, LedgerAfter
<1>3. /\ ledgerMode[s] = Mode(s) /\ ledgerResidue[s] = Left(s)
      /\ ledgerJob[s] = IF Mode(s) = "held" THEN assignment[s].job ELSE NoJob
  BY LedgerAt
<1>4. CASE Mode(s)' = Mode(s) /\ Left(s)' = Left(s) /\ assignment'[s] = assignment[s]
  BY <1>2, <1>3, <1>4, LedgerAt DEF Ledger!vars
<1>5. CASE Mode(s) = "held" /\ Mode(s)' = "held" /\ assignment'[s] = assignment[s]
  <2>1. ledgerMode' = ledgerMode /\ ledgerJob' = ledgerJob  BY <1>2, <1>3, <1>5, LedgerAt
  <2>2. Ledger!Work(s)  BY <1>2, <1>3, <1>5, <2>1, LedgerAfter DEF Ledger!Work
  <2>3. QED  BY <2>2 DEF Ledger!Next
<1>6. CASE Mode(s) = "held" /\ Mode(s)' # "held" /\ Left(s)' = Left(s) /\ (Mode(s)' = "free" => ~Left(s))
  <2>1. ledgerResidue' = ledgerResidue  BY <1>2, <1>3, <1>6, LedgerAt
  <2>2. ledgerJob' = [t \in Slots |-> IF t \in {s} THEN NoJob ELSE ledgerJob[t]]
    BY <1>2, <1>6, LedgerAt
  <2>3. Mode(s)' \in {"free", "dirty"}  BY <1>6 DEF Mode
  <2>4. ledgerMode' = [t \in Slots |->
            IF t \in (IF Mode(s)' = "dirty" THEN {s} ELSE {}) THEN "dirty"
            ELSE IF t \in {s} THEN "free" ELSE ledgerMode[t]]
    BY <1>2, <2>3, LedgerAt
  <2>5. Ledger!Stop({s})
    BY <1>3, <1>6, <2>1, <2>2, <2>3, <2>4 DEF Ledger!Stop
  <2>6. QED  BY <2>5 DEF Ledger!Next
<1>7. CASE Mode(s) = "dirty" /\ Mode(s)' = "dirty" /\ ~Left(s)'
  <2>1. ledgerMode' = ledgerMode /\ ledgerJob' = ledgerJob  BY <1>2, <1>3, <1>7, LedgerAt
  <2>a. Left(s)' = FALSE  BY <1>7, LedgerAfter
  <2>2. ledgerResidue' = [ledgerResidue EXCEPT ![s] = FALSE]  BY <1>2, <2>a
  <2>3. Ledger!Purge(s)  BY <1>3, <1>7, <2>1, <2>2 DEF Ledger!Purge
  <2>4. QED  BY <2>3 DEF Ledger!Next
<1>8. CASE Mode(s) = "dirty" /\ Mode(s)' = "free" /\ ~Left(s) /\ ~Left(s)'
  <2>a. Left(s)' = FALSE /\ Left(s) = FALSE  BY <1>8, LedgerAt, LedgerAfter
  <2>b. ledgerResidue' = ledgerResidue  BY <1>2, <1>3, <2>a, LedgerAt
  <2>c. ledgerJob' = ledgerJob  BY <1>2, <1>3, <1>8, LedgerAt
  <2>1. ledgerResidue' = ledgerResidue /\ ledgerJob' = ledgerJob  BY <2>b, <2>c
  <2>2. Ledger!Free(s)  BY <1>2, <1>3, <1>8, <2>1 DEF Ledger!Free
  <2>3. QED  BY <2>2 DEF Ledger!Next
<1>9. CASE Reserve(s) /\ Mode(s) = "free" /\ Mode(s)' = "held" /\ Left(s)' = Left(s)
  <2>1. pc[s] = "reserve" /\ assignment'[s].job = handle[s]
    BY <1>9 DEF Reserve, At, Write, PoolInv, ReservationInvariant, TypeOK
  <2>2. handle[s] \in Jobs /\ handle[s] \notin excluded[s] /\ todo[s] = {}
    BY <2>1 DEF PoolInv, ReservationInvariant, SurveyConsistent, Surveying
  <2>3. \A t \in Slots \ {s} : ActiveRun(t) => assignment[t].job # handle[s]
    BY <2>1, <2>2 DEF PoolInv, ReservationInvariant, ActiveRunsCovered, Surveying
  <2>4. \A t \in Slots : ledgerMode[t] = "held" => ledgerJob[t] # handle[s]
    BY <1>9, <2>3, LedgerAt
  <2>5. ledgerResidue' = ledgerResidue  BY <1>2, <1>3, <1>9, LedgerAt
  <2>6. Ledger!Hold(s, handle[s])
    BY <1>2, <1>3, <1>9, <2>1, <2>4, <2>5 DEF Ledger!Hold
  <2>7. QED  BY <2>2, <2>6 DEF Ledger!Next
<1>q. QED  BY <1>4, <1>5, <1>6, <1>7, <1>8, <1>9 DEF LedgerMove

\* A host restart stops every run at once and takes only what runs.
LEMMA RestartRefines ==
    ASSUME PoolInv, RegistrationsAreOwned, HostRestart
    PROVE Ledger!Next
<1> DEFINE held == {t \in Slots : ActiveRun(t)}
           dirty == {t \in held : phase[t] # "clean"}
<1>1. UNCHANGED <<phase, generation, receipt, runtime, runners, assignment>>
      /\ \A t \in Slots : unit'[t] = 0 /\ controller'[t] = "none" /\ ~ActiveRun(t)'
  BY DEF HostRestart, disk, forgejo, ActiveRun, Admitted
<1>2. \A t \in Slots : RuntimeFits(t) /\ PhaseFits(t)  BY DEF PoolInv, SlotsFit
<1>3. \A t \in Slots : Left(t)' = Left(t)
  <2>1. \A t \in Slots : generation[t] \in Nat /\ unit[t] \in Nat
    BY BoundsAssumption DEF PoolInv, ReservationInvariant, TypeOK, Generations
  <2>2. ASSUME NEW t \in Slots PROVE Left(t)' = Left(t)
    <3>1. unit[t] # 0 \/ controller[t] # "none" => receipt[t] # 0  BY <1>2 DEF RuntimeFits
    <3>2. QED  BY <1>1, <3>1 DEF Left, RuntimeAbsent
  <2>3. QED  BY <2>2
<1>4. \A t \in held : Left(t) => t \in dirty
  <2>1. ASSUME NEW t \in held, phase[t] = "clean" PROVE ~Left(t)
    <3>1. RuntimeFits(t) /\ PhaseFits(t)  BY <1>2
    <3>2. generation[t] = 0  BY <2>1, <3>1 DEF PhaseFits
    <3>3. unit[t] = 0 /\ runtime[t] = 0 /\ receipt[t] = 0 /\ controller[t] = "none"
      BY <3>1, <3>2 DEF RuntimeFits
    <3>4. \A r \in runners : r[1] # t  BY <2>1 DEF RegistrationsAreOwned
    <3>5. QED  BY <3>3, <3>4 DEF Left, RuntimeAbsent
  <2>2. QED  BY <2>1
<1>5. ledgerMode' = [t \in Slots |-> IF t \in dirty THEN "dirty" ELSE IF t \in held THEN "free" ELSE ledgerMode[t]]
  BY <1>1, LedgerAt, LedgerAfter DEF Mode
<1>6. ledgerJob' = [t \in Slots |-> IF t \in held THEN NoJob ELSE ledgerJob[t]]
  BY <1>1, LedgerAt, LedgerAfter
<1>7. ledgerResidue' = ledgerResidue  BY <1>3, LedgerAt, LedgerAfter
<1>8. Ledger!Stop(held)
  <2>1. \A t \in held : ledgerMode[t] = "held"  BY LedgerAt
  <2>2. \A t \in held : ledgerResidue[t] => t \in dirty  BY <1>4, LedgerAt
  <2>3. dirty \in SUBSET held  OBVIOUS
  <2> HIDE DEF held, dirty
  <2>4. QED  BY <1>5, <1>6, <1>7, <2>1, <2>2, <2>3 DEF Ledger!Stop
<1>q. QED  BY <1>8 DEF Ledger!Next

\* Every step of the pool is a step of the ledger or none.
LEMMA StepRefines ==
    ASSUME PoolInv, ~LateCreation, [Next]_vars
    PROVE Ledger!Next \/ UNCHANGED Ledger!vars
<1>1. TypeOK /\ requests = {} /\ RegistrationsAreOwned
      /\ \A s \in Slots : PhaseFits(s) /\ RuntimeFits(s) /\ Retired(s)
  BY DEF PoolInv, ReservationInvariant, RegistrationFits, SlotsFit
<1>2. \A s \in Slots : Accounted(s)
  <2>1. \A r \in runners : r = <<r[1], r[2]>>  BY <1>1 DEF TypeOK
  <2>2. QED  BY <1>1, <2>1 DEF Accounted, RegistrationsAreOwned
<1>3. ASSUME NEW s \in Slots, SlotStep(s) PROVE Ledger!Next \/ UNCHANGED Ledger!vars
  <2>1. Bystanders(s)
    BY <1>1, <1>3, SurveyBystanders, RunBystanders, CleanupBystanders, TroubleBystanders, AroundBystanders
       DEF SlotStep
  <2>2. LedgerMove(s)
    BY <1>1, <1>2, <1>3, SurveyLedger, RunLedger, CleanupLedger, TroubleLedger, AroundLedger DEF SlotStep
  <2>3. QED  BY <2>1, <2>2, MoveRefines
<1>4. CASE HostRestart  BY <1>1, <1>4, RestartRefines
<1>5. ASSUME NEW r \in runners, RevokeRunner(r) PROVE Ledger!Next \/ UNCHANGED Ledger!vars
  <2>1. r[1] \in Slots /\ UNCHANGED <<disk, host, pc, memory>> /\ runners' = runners \ {r}
    BY <1>1, <1>5 DEF RevokeRunner, TypeOK
  <2>2. Bystanders(r[1])  BY <2>1 DEF Bystanders, disk, host, memory
  <2>3. phase[r[1]] # "clean"  BY <1>1 DEF RegistrationsAreOwned
  <2>4. LedgerMove(r[1])
    <3>1. Mode(r[1])' = Mode(r[1]) /\ Mode(r[1]) \in {"held", "dirty"} /\ assignment' = assignment
      BY <2>1, <2>3 DEF Mode, ActiveRun, disk
    <3>2. Left(r[1])' = Left(r[1]) \/ ~Left(r[1])'  BY <2>1 DEF Left, RuntimeAbsent
    <3>3. QED  BY <3>1, <3>2 DEF LedgerMove
  <2>5. QED  BY <2>1, <2>2, <2>4, MoveRefines
<1>6. ASSUME UNCHANGED <<disk, host, pc, memory, runners>> PROVE UNCHANGED Ledger!vars
  BY <1>6 DEF Ledger!vars, ledgerMode, ledgerJob, ledgerResidue, ActiveRun, RuntimeAbsent, disk, host
<1>7. CASE \/ \E j \in Jobs : SubmitJob(j) \/ CancelJob(j)
           \/ UNCHANGED vars
  BY <1>6, <1>7 DEF SubmitJob, CancelJob, vars, forgejo
<1>q. QED  BY <1>1, <1>3, <1>4, <1>5, <1>7, StepCases

\* The pool keeps the promise of SlotLedger as long as Forgejo applies no creation
\* late: exclusive reservations, and a slot is free again only with nothing left.
THEOREM LedgerKept == ASSUME ~LateCreation PROVE Spec => KeepsSlotLedger
<1>1. Init => Ledger!Init
  <2> SUFFICES ASSUME Init PROVE Ledger!Init
    OBVIOUS
  <2>1. \A s \in Slots : Mode(s) = "free" /\ ~ActiveRun(s)
    BY DEF Init, Mode, ActiveRun, Admitted
  <2>2. \A s \in Slots : Left(s) = FALSE
    <3>1. \A s \in Slots : ~Left(s)  BY DEF Init, Left, RuntimeAbsent
    <3>2. QED  BY <3>1, LedgerAt
  <2>3. QED  BY <2>1, <2>2, LedgerAt DEF Ledger!Init
<1>2. PoolInv /\ [Next]_vars => [Ledger!Next]_(Ledger!vars)
  BY StepRefines
<1>q. QED  BY <1>1, <1>2, PoolHolds, PTL DEF Spec, KeepsSlotLedger, Ledger!Spec
=============================================================================
