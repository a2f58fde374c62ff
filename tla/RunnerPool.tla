----------------------------- MODULE RunnerPool -----------------------------
(***************************************************************************)
(* The shared Forgejo runner pool of roles/forgejo_runner: every slot is a *)
(* systemd oneshot service that a timer starts ("control.py cycle") and    *)
(* that systemd always follows with "control.py recover" (ExecStopPost).   *)
(* The processes of different slots meet in three places: the host wide    *)
(* admission lease, the per-slot lock and checkpoint that a peer reads and *)
(* probes, and the job queue and runner list that Forgejo keeps.           *)
(*                                                                         *)
(* Each action ends at a durable write, at a remote call or at an          *)
(* observation of something another actor can change, so that a crash or a *)
(* peer can come between any two of them.                                  *)
(***************************************************************************)
EXTENDS Naturals, FiniteSets

CONSTANTS
    Slots,           \* the workers of slots.json
    Enabled,         \* the slots whose declaration has enabled: true
    NoSlot,          \* the holder of a free lock
    Jobs,            \* Forgejo job ids
    MaxGeneration,   \* bound: generations ever minted
    MaxFaults,       \* bound: crashes, refused calls, operator interruptions
    LateCreation     \* may Forgejo apply a POST after its client gave up?

ASSUME SlotsAssumption == NoSlot \notin Slots /\ Enabled \subseteq Slots
ASSUME JobsAssumption == Jobs \subseteq Nat \ {0}
ASSUME BoundsAssumption == MaxGeneration \in Nat /\ MaxFaults \in Nat
ASSUME LateCreationAssumption == LateCreation \in BOOLEAN

VARIABLES
    \* durable state of a slot, under its state root
    phase,        \* state.json: phase
    generation,   \* state.json: generation, 0 for None
    registered,   \* state.json: is a registration recorded?
    assignment,   \* assignment.json
    receipt,      \* the generation resources.json names, 0 when it is absent
    runtime,      \* the generation that made the runtime directory, 0 when absent
    stray,        \* does that directory hold an entry resources.json does not name?
    \* the host
    unit,         \* the generation of the loaded worker unit, 0 for not-found
    controller,   \* the one-job controller inside the unit
    lock,         \* holder of the flock on the slot's admission.lock
    lease,        \* holder of the flock on the pool's admission.lock
    timer,        \* is the slot's timer active?
    service,      \* which process of the slot systemd or the operator runs
    \* memory of the slot's process
    pc, handle, excluded, todo, seen, failed,
    \* Forgejo
    runners,      \* registrations: <<slot, generation>> stands for the name
    requests,     \* POSTs still in flight whose client has given up
    jobs,         \* status of every job
    \* bounded counters
    fresh, faults

disk == <<phase, generation, registered, assignment, receipt, runtime, stray>>
host == <<unit, controller, lock, lease, timer, service>>
memory == <<handle, excluded, todo, seen, failed>>
forgejo == <<runners, requests, jobs>>
vars == <<disk, host, pc, memory, forgejo, fresh, faults>>

Phases == {"clean", "preparing", "registered", "running", "cleaning", "quarantined"}
Controllers == {"none", "polling", "executing", "exited"}
Services == {"inactive", "cycle", "stop", "operator"}
Statuses == {"unborn", "waiting", "running", "done"}
Surveying == {"observe", "survey", "watch", "probe", "probed", "assigned", "queue", "reserve"}
Admitted == {"empty", "mkdir", "record", "fill", "own", "enroll", "confirm", "reconcile",
             "register", "admit", "start", "ready", "wait"}
Cleaning == {"clean", "retire", "destroy", "remove", "unlink", "finish"}
Labels == {"idle", "lock", "lease", "done"} \cup Surveying \cup Admitted \cup Cleaning

NoJob == 0
Generations == 0 .. MaxGeneration
NoAssignment == [job |-> NoJob, generation |-> 0]
Assignments == [job : Jobs \cup {NoJob}, generation : Generations]
NothingSeen == [peer |-> NoSlot, phase |-> "clean", generation |-> 0]
Sightings == [peer : Slots \cup {NoSlot}, phase : Phases, generation : Generations]

TypeOK ==
    /\ phase \in [Slots -> Phases]
    /\ generation \in [Slots -> Generations]
    /\ registered \in [Slots -> BOOLEAN]
    /\ assignment \in [Slots -> Assignments]
    /\ receipt \in [Slots -> Generations]
    /\ runtime \in [Slots -> Generations]
    /\ stray \in [Slots -> BOOLEAN]
    /\ unit \in [Slots -> Generations]
    /\ controller \in [Slots -> Controllers]
    /\ lock \in [Slots -> Slots \cup {NoSlot}]
    /\ lease \in Slots \cup {NoSlot}
    /\ timer \in [Slots -> BOOLEAN]
    /\ service \in [Slots -> Services]
    /\ pc \in [Slots -> Labels]
    /\ handle \in [Slots -> Jobs \cup {NoJob}]
    /\ excluded \in [Slots -> SUBSET Jobs]
    /\ todo \in [Slots -> SUBSET Slots]
    /\ seen \in [Slots -> Sightings]
    /\ failed \in [Slots -> BOOLEAN]
    /\ runners \in SUBSET (Slots \X Generations)
    /\ requests \in SUBSET (Slots \X Generations)
    /\ jobs \in [Jobs -> Statuses]
    /\ fresh \in Generations
    /\ faults \in 0 .. MaxFaults

Init ==
    /\ phase = [s \in Slots |-> "clean"]
    /\ generation = [s \in Slots |-> 0]
    /\ registered = [s \in Slots |-> FALSE]
    /\ assignment = [s \in Slots |-> NoAssignment]
    /\ receipt = [s \in Slots |-> 0]
    /\ runtime = [s \in Slots |-> 0]
    /\ stray = [s \in Slots |-> FALSE]
    /\ unit = [s \in Slots |-> 0]
    /\ controller = [s \in Slots |-> "none"]
    /\ lock = [s \in Slots |-> NoSlot]
    /\ lease = NoSlot
    /\ timer = [s \in Slots |-> s \in Enabled]
    /\ service = [s \in Slots |-> "inactive"]
    /\ pc = [s \in Slots |-> "idle"]
    /\ handle = [s \in Slots |-> NoJob]
    /\ excluded = [s \in Slots |-> {}]
    /\ todo = [s \in Slots |-> {}]
    /\ seen = [s \in Slots |-> NothingSeen]
    /\ failed = [s \in Slots |-> FALSE]
    /\ runners = {}
    /\ requests = {}
    /\ jobs = [j \in Jobs |-> "unborn"]
    /\ fresh = 0
    /\ faults = 0

-----------------------------------------------------------------------------
(* Helpers of the actions.                                                 *)

At(s, label) == pc[s] = label
Goto(s, label) == pc' = [pc EXCEPT ![s] = label]
Write(var, s, value) == [var EXCEPT ![s] = value]

\* One unit of the fault budget.
Fault == faults < MaxFaults /\ faults' = faults + 1
NoFault == faults' = faults

\* The registration the slot's current generation may own.
Runner(s) == <<s, generation[s]>>

\* verify.observe: no unit, no owned process, no runtime directory.
RuntimeAbsent(s) == unit[s] = 0 /\ controller[s] = "none" /\ runtime[s] = 0

\* What systemd runs once the slot's current process has ended.
AfterProcess(s) == IF service[s] = "cycle" THEN "stop" ELSE "inactive"

ForgetMemory(s) ==
    /\ handle' = Write(handle, s, NoJob)
    /\ excluded' = Write(excluded, s, {})
    /\ todo' = Write(todo, s, {})
    /\ seen' = Write(seen, s, NothingSeen)
    /\ failed' = Write(failed, s, FALSE)

\* Mutant: the lease is a lock file that a killed holder leaves behind.
LeaseFileRemains(s) ==
    /\ lock' = [t \in Slots |-> IF lock[t] = s THEN NoSlot ELSE lock[t]]
    /\ lease' = lease
    /\ service' = Write(service, s, AfterProcess(s))
    /\ pc' = Write(pc, s, IF AfterProcess(s) = "stop" THEN "lock" ELSE "idle")
    /\ ForgetMemory(s)

\* The process of s ends: the kernel drops every flock it holds.
ProcessEnds(s) ==
    /\ lock' = [t \in Slots |-> IF lock[t] = s THEN NoSlot ELSE lock[t]]
    /\ lease' = IF lease = s THEN NoSlot ELSE lease
    /\ service' = Write(service, s, AfterProcess(s))
    /\ pc' = Write(pc, s, IF AfterProcess(s) = "stop" THEN "lock" ELSE "idle")
    /\ ForgetMemory(s)

\* The lease holder gives up: release the lease, then leave through "done".
GiveUp(s) ==
    /\ lease' = NoSlot
    /\ Goto(s, "done")
    /\ UNCHANGED <<disk, unit, controller, lock, timer, service, memory, forgejo, fresh>>

-----------------------------------------------------------------------------
(* systemd and the operator.                                               *)

TimerFires(s) ==
    /\ timer[s] /\ service[s] = "inactive"
    /\ service' = Write(service, s, "cycle")
    /\ Goto(s, "lock")
    /\ UNCHANGED <<disk, unit, controller, lock, lease, timer, memory, forgejo, fresh, faults>>

\* drain and recover both start by stopping the timer; a drain then waits.
StopTimer(s) ==
    /\ timer[s]
    /\ timer' = Write(timer, s, FALSE)
    /\ Fault
    /\ UNCHANGED <<disk, unit, controller, lock, lease, service, pc, memory, forgejo, fresh>>

\* maintenance.recover once timer and service are stopped.
OperatorRecovers(s) ==
    /\ ~timer[s] /\ service[s] = "inactive"
    /\ service' = Write(service, s, "operator")
    /\ Goto(s, "lock")
    /\ UNCHANGED <<disk, unit, controller, lock, lease, timer, memory, forgejo, fresh, faults>>

\* The role's last task starts the timer of every enabled slot again.
StartTimer(s) ==
    /\ ~timer[s] /\ s \in Enabled /\ service[s] = "inactive"
    /\ timer' = Write(timer, s, TRUE)
    /\ UNCHANGED <<disk, unit, controller, lock, lease, service, pc, memory, forgejo, fresh, faults>>

\* The supervisor is killed: systemctl stop, TimeoutStartSec, OOM.
Crash(s) ==
    /\ ~At(s, "idle")
    /\ ProcessEnds(s)
    /\ Fault
    /\ UNCHANGED <<disk, unit, controller, timer, forgejo, fresh>>

\* The host restarts: transient units and every process are gone, files stay.
HostRestart ==
    /\ Fault
    /\ unit' = [s \in Slots |-> 0]
    /\ controller' = [s \in Slots |-> "none"]
    /\ lock' = [s \in Slots |-> NoSlot]
    /\ lease' = NoSlot
    /\ service' = [s \in Slots |-> "inactive"]
    /\ pc' = [s \in Slots |-> "idle"]
    /\ handle' = [s \in Slots |-> NoJob]
    /\ excluded' = [s \in Slots |-> {}]
    /\ todo' = [s \in Slots |-> {}]
    /\ seen' = [s \in Slots |-> NothingSeen]
    /\ failed' = [s \in Slots |-> FALSE]
    /\ UNCHANGED <<disk, timer, forgejo, fresh>>

-----------------------------------------------------------------------------
(* control.perform: the slot lock and the three ways a process continues.  *)

Acquire(s) ==
    /\ At(s, "lock") /\ lock[s] = NoSlot
    /\ lock' = Write(lock, s, s)
    /\ UNCHANGED <<disk, unit, controller, lease, timer, service, memory, forgejo, fresh, faults>>

Recovering(s) == service[s] # "cycle"

\* Mutant: quarantine also ends a recovery.
QuarantineIsFinal(s) ==
    \/ phase[s] = "clean" /\ (Recovering(s) \/ s \notin Enabled)
    \/ phase[s] = "quarantined"
    \/ phase[s] # "clean" /\ generation[s] = 0

\* Early returns of perform and run_slot that change nothing.
NothingToDo(s) ==
    \/ phase[s] = "clean" /\ (Recovering(s) \/ s \notin Enabled)
    \/ phase[s] = "quarantined" /\ ~Recovering(s)
    \/ phase[s] # "clean" /\ generation[s] = 0

EnterNothing(s) == Acquire(s) /\ NothingToDo(s) /\ Goto(s, "done")
EnterRecovery(s) == Acquire(s) /\ ~NothingToDo(s) /\ phase[s] # "clean" /\ Goto(s, "clean")
EnterAdmission(s) == Acquire(s) /\ ~NothingToDo(s) /\ phase[s] = "clean" /\ Goto(s, "lease")

\* BlockingIOError leaves perform as an exception.
LockBusy(s) ==
    /\ At(s, "lock") /\ lock[s] # NoSlot
    /\ ProcessEnds(s)
    /\ UNCHANGED <<disk, unit, controller, timer, forgejo, fresh, faults>>

Exit(s) ==
    /\ At(s, "done")
    /\ ProcessEnds(s)
    /\ UNCHANGED <<disk, unit, controller, timer, forgejo, fresh, faults>>

-----------------------------------------------------------------------------
(* Admission under the host lease.                                         *)

\* Mutant: the lease is taken although a peer holds it.
LeaseIgnored(s) ==
    /\ At(s, "lease")
    /\ lease' = s
    /\ Goto(s, "observe")
    /\ UNCHANGED <<disk, unit, controller, lock, timer, service, memory, forgejo, fresh, faults>>

TakeLease(s) ==
    /\ At(s, "lease") /\ lease = NoSlot
    /\ lease' = s
    /\ Goto(s, "observe")
    /\ UNCHANGED <<disk, unit, controller, lock, timer, service, memory, forgejo, fresh, faults>>

LeaseBusy(s) ==
    /\ At(s, "lease") /\ lease # NoSlot
    /\ Goto(s, "done")
    /\ UNCHANGED <<disk, host, memory, forgejo, fresh, faults>>

\* The survey goes on, or its holder raises and gives the lease back.
ContinueIf(s, condition, label) ==
    /\ Goto(s, IF condition THEN label ELSE "done")
    /\ lease' = IF condition THEN lease ELSE NoSlot

ObserveSelf(s) ==
    /\ At(s, "observe")
    /\ todo' = Write(todo, s, Slots \ {s})
    /\ ContinueIf(s, RuntimeAbsent(s) /\ receipt[s] = 0, "survey")
    /\ UNCHANGED <<disk, unit, controller, lock, timer, service, handle, excluded, seen, failed,
                   forgejo, fresh, faults>>

\* pool.peer_assignments, one durable read or probe of a peer per step.
ReadPeer(s) ==
    /\ At(s, "survey")
    /\ \E p \in todo[s] :
           seen' = Write(seen, s, [peer |-> p, phase |-> phase[p], generation |-> generation[p]])
    /\ Goto(s, "watch")
    /\ UNCHANGED <<disk, host, handle, excluded, todo, failed, forgejo, fresh, faults>>

PeerUnreconciled(s) ==
    \/ seen[s].phase = "quarantined"
    \/ seen[s].phase = "clean" /\ ~RuntimeAbsent(seen[s].peer)

WatchPeer(s) ==
    /\ At(s, "watch") /\ ~PeerUnreconciled(s)
    /\ Goto(s, IF seen[s].phase = "clean" THEN "probe" ELSE "assigned")
    /\ UNCHANGED <<disk, host, memory, forgejo, fresh, faults>>

PeerBlocks(s) == At(s, "watch") /\ PeerUnreconciled(s) /\ GiveUp(s) /\ NoFault

\* pool.locked takes the peer's lock to find out whether it is held.
ProbeFree(s) ==
    /\ At(s, "probe") /\ lock[seen[s].peer] = NoSlot
    /\ lock' = Write(lock, seen[s].peer, s)
    /\ Goto(s, "probed")
    /\ UNCHANGED <<disk, unit, controller, lease, timer, service, memory, forgejo, fresh, faults>>

ProbeHeld(s) ==
    /\ At(s, "probe") /\ lock[seen[s].peer] # NoSlot
    /\ Goto(s, "assigned")
    /\ UNCHANGED <<disk, host, memory, forgejo, fresh, faults>>

PeerIdle(s) ==
    /\ At(s, "probed")
    /\ lock' = Write(lock, seen[s].peer, NoSlot)
    /\ todo' = Write(todo, s, todo[s] \ {seen[s].peer})
    /\ seen' = Write(seen, s, NothingSeen)
    /\ Goto(s, "survey")
    /\ UNCHANGED <<disk, unit, controller, lease, timer, service, handle, excluded, failed,
                   forgejo, fresh, faults>>

\* A busy peer's assignment is excluded; a non-clean peer must own it exactly.
PeerAssigned(s) ==
    LET peer == seen[s].peer IN
    /\ At(s, "assigned")
    /\ ContinueIf(s, \/ seen[s].phase = "clean"
                     \/ assignment[peer].generation = seen[s].generation, "survey")
    /\ excluded' = Write(excluded, s, excluded[s] \cup ({assignment[peer].job} \ {NoJob}))
    /\ todo' = Write(todo, s, todo[s] \ {peer})
    /\ seen' = Write(seen, s, NothingSeen)
    /\ UNCHANGED <<disk, unit, controller, lock, timer, service, handle, failed, forgejo, fresh, faults>>

SurveyDone(s) ==
    /\ At(s, "survey") /\ todo[s] = {}
    /\ Goto(s, "queue")
    /\ UNCHANGED <<disk, host, memory, forgejo, fresh, faults>>

Candidates(s) == {j \in Jobs : jobs[j] = "waiting"} \ excluded[s]

\* RegistrationClient.pending_job: the lowest waiting id that is not excluded.
PendingJob(s) ==
    /\ At(s, "queue")
    /\ \E j \in Candidates(s) :
           /\ \A i \in Candidates(s) : j <= i
           /\ handle' = Write(handle, s, j)
    /\ Goto(s, "reserve")
    /\ UNCHANGED <<disk, host, excluded, todo, seen, failed, forgejo, fresh, faults>>

NoPendingJob(s) == At(s, "queue") /\ Candidates(s) = {} /\ GiveUp(s) /\ NoFault

\* pool.write_assignment, then the lease is released before execution.
Reserve(s) ==
    /\ At(s, "reserve") /\ fresh < MaxGeneration
    /\ fresh' = fresh + 1
    /\ assignment' = Write(assignment, s, [job |-> handle[s], generation |-> fresh + 1])
    /\ lease' = NoSlot
    /\ Goto(s, "empty")
    /\ UNCHANGED <<phase, generation, registered, receipt, runtime, stray, unit, controller, lock, timer,
                   service, memory, forgejo, faults>>

\* An observation raises, the queue cannot be read, or require_capacity refuses.
AdmissionFails(s) == pc[s] \in {"observe", "watch", "queue", "reserve"} /\ GiveUp(s) /\ Fault

-----------------------------------------------------------------------------
(* lifecycle.run_slot: prepare, enroll, run.                               *)

WriteCheckpoint(s, newPhase, newGeneration) ==
    /\ phase' = Write(phase, s, newPhase)
    /\ generation' = Write(generation, s, newGeneration)

BeginPreparing(s) ==
    /\ At(s, "empty")
    /\ WriteCheckpoint(s, "preparing", assignment[s].generation)
    /\ Goto(s, "mkdir")
    /\ UNCHANGED <<registered, assignment, receipt, runtime, stray, host, memory, forgejo, fresh, faults>>

\* assert_empty cannot observe the host: quarantined without a generation.
EmptinessUnknown(s) ==
    /\ At(s, "empty")
    /\ WriteCheckpoint(s, "quarantined", 0)
    /\ Goto(s, "done")
    /\ Fault
    /\ UNCHANGED <<registered, assignment, receipt, runtime, stray, host, memory, forgejo, fresh>>

MakeRuntime(s) ==
    /\ At(s, "mkdir")
    /\ runtime' = Write(runtime, s, generation[s])
    /\ Goto(s, "record")
    /\ UNCHANGED <<phase, generation, registered, assignment, receipt, stray, host, memory, forgejo, fresh, faults>>

\* OwnedRuntime.record: resources.json now names the runtime directory.
RecordRuntime(s) ==
    /\ At(s, "record")
    /\ receipt' = Write(receipt, s, generation[s])
    /\ Goto(s, "fill")
    /\ UNCHANGED <<phase, generation, registered, assignment, runtime, stray, host, memory, forgejo, fresh, faults>>

\* The entries of the directory, rootfs to worker.ext4: each is made first and recorded
\* afterwards.  One stands for them all: between two of them nothing is unrecorded,
\* as at "fill" and at "enroll".
MakeEntry(s) ==
    /\ At(s, "fill")
    /\ stray' = Write(stray, s, TRUE)
    /\ Goto(s, "own")
    /\ UNCHANGED <<phase, generation, registered, assignment, receipt, runtime, host, memory, forgejo, fresh, faults>>

RecordEntry(s) ==
    /\ At(s, "own")
    /\ stray' = Write(stray, s, FALSE)
    /\ Goto(s, "enroll")
    /\ UNCHANGED <<phase, generation, registered, assignment, receipt, runtime, host, memory, forgejo, fresh, faults>>

EnrollSucceeds(s) ==
    /\ At(s, "enroll") /\ Runner(s) \notin runners
    /\ runners' = runners \cup {Runner(s)}
    /\ Goto(s, "confirm")
    /\ UNCHANGED <<disk, host, memory, requests, jobs, fresh, faults>>

\* Mutant: the creation is retried after an uncertain answer.
EnrollRetries(s) ==
    /\ At(s, "enroll")
    /\ runners' = runners \cup {Runner(s)}
    /\ Fault
    /\ UNCHANGED <<disk, host, pc, memory, requests, jobs, fresh>>

\* The POST has no usable answer: refused, applied, or (late) still to apply.
EnrollUncertain(s) ==
    /\ At(s, "enroll") /\ Runner(s) \notin runners
    /\ \/ UNCHANGED <<runners, requests>>
       \/ runners' = runners \cup {Runner(s)} /\ UNCHANGED requests
       \/ LateCreation /\ requests' = requests \cup {Runner(s)} /\ UNCHANGED runners
    /\ Goto(s, "reconcile")
    /\ Fault
    /\ UNCHANGED <<disk, host, memory, jobs, fresh>>

Confirm(s) ==
    /\ At(s, "confirm")
    /\ Goto(s, IF Runner(s) \in runners THEN "register" ELSE "reconcile")
    /\ UNCHANGED <<disk, host, memory, forgejo, fresh, faults>>

ConfirmFails(s) ==
    /\ At(s, "confirm")
    /\ Goto(s, "reconcile")
    /\ Fault
    /\ UNCHANGED <<disk, host, memory, forgejo, fresh>>

\* Reconcile once, never retry the creation; then run_slot cleans up.
Reconcile(s) ==
    /\ At(s, "reconcile")
    /\ runners' = runners \ {Runner(s)}
    /\ Goto(s, "clean")
    /\ UNCHANGED <<disk, host, memory, requests, jobs, fresh, faults>>

Register(s) ==
    /\ At(s, "register")
    /\ phase' = Write(phase, s, "registered")
    /\ registered' = Write(registered, s, TRUE)
    /\ Goto(s, "admit")
    /\ UNCHANGED <<generation, assignment, receipt, runtime, stray, host, memory, forgejo, fresh, faults>>

Admit(s) ==
    /\ At(s, "admit")
    /\ phase' = Write(phase, s, "running")
    /\ Goto(s, "start")
    /\ UNCHANGED <<generation, registered, assignment, receipt, runtime, stray, host, memory, forgejo, fresh, faults>>

StartWorker(s) ==
    /\ At(s, "start")
    /\ unit' = Write(unit, s, generation[s])
    /\ Goto(s, "ready")
    /\ UNCHANGED <<disk, controller, lock, lease, timer, service, memory, forgejo, fresh, faults>>

\* systemd-run started the unit but its answer was lost.
StartWorkerUncertain(s) ==
    /\ At(s, "start")
    /\ unit' = Write(unit, s, generation[s])
    /\ Goto(s, "clean")
    /\ Fault
    /\ UNCHANGED <<disk, controller, lock, lease, timer, service, memory, forgejo, fresh>>

RunController(s) ==
    /\ At(s, "ready")
    /\ controller' = Write(controller, s, "polling")
    /\ Goto(s, "wait")
    /\ UNCHANGED <<disk, unit, lock, lease, timer, service, memory, forgejo, fresh, faults>>

\* Any exception of the run goes to cleanup_generation.
RunFails(s) ==
    /\ pc[s] \in {"mkdir", "record", "fill", "own", "enroll", "reconcile", "start", "ready"}
    /\ Goto(s, "clean")
    /\ Fault
    /\ UNCHANGED <<disk, host, memory, forgejo, fresh>>

ControllerReturns(s) ==
    /\ At(s, "wait") /\ controller[s] = "exited"
    /\ controller' = Write(controller, s, "none")
    /\ Goto(s, "clean")
    /\ UNCHANGED <<disk, unit, lock, lease, timer, service, memory, forgejo, fresh, faults>>

\* The poll proves the registration gone: kill the controller.
RegistrationRevoked(s) ==
    /\ At(s, "wait") /\ Runner(s) \notin runners
    /\ controller' = Write(controller, s, "none")
    /\ Goto(s, "clean")
    /\ UNCHANGED <<disk, unit, lock, lease, timer, service, memory, forgejo, fresh, faults>>

\* Forgejo hands the job of the handle to the registered controller.
Fetchable(s) ==
    /\ controller[s] = "polling" /\ <<s, unit[s]>> \in runners
    /\ assignment[s].job \in Jobs /\ jobs[assignment[s].job] = "waiting"

\* The job_seconds deadline; a fetchable job is fetched well before it.
JobDeadline(s) ==
    /\ At(s, "wait") /\ ~Fetchable(s)
    /\ controller' = Write(controller, s, "none")
    /\ Goto(s, "clean")
    /\ UNCHANGED <<disk, unit, lock, lease, timer, service, memory, forgejo, fresh, faults>>

-----------------------------------------------------------------------------
(* lifecycle.cleanup_generation.                                           *)

\* Mutant: a phase that validate_checkpoint does not know.
BeginUnknownPhase(s) ==
    /\ At(s, "clean")
    /\ phase' = Write(phase, s, "cleanup")
    /\ failed' = Write(failed, s, FALSE)
    /\ Goto(s, "retire")
    /\ UNCHANGED <<generation, registered, assignment, receipt, runtime, stray, host, handle, excluded,
                   todo, seen, forgejo, fresh, faults>>

BeginCleaning(s) ==
    /\ At(s, "clean")
    /\ phase' = Write(phase, s, "cleaning")
    /\ failed' = Write(failed, s, FALSE)
    /\ Goto(s, "retire")
    /\ UNCHANGED <<generation, registered, assignment, receipt, runtime, stray, host, handle, excluded,
                   todo, seen, forgejo, fresh, faults>>

\* Mutant: the registration is struck from the checkpoint only.
RetireRecorded(s) ==
    /\ At(s, "retire")
    /\ runners' = runners
    /\ registered' = Write(registered, s, FALSE)
    /\ Goto(s, "destroy")
    /\ UNCHANGED <<phase, generation, assignment, receipt, runtime, stray, host, memory, requests, jobs,
                   fresh, faults>>

Retire(s) ==
    /\ At(s, "retire")
    /\ runners' = runners \ {Runner(s)}
    /\ registered' = Write(registered, s, FALSE)
    /\ Goto(s, "destroy")
    /\ UNCHANGED <<phase, generation, assignment, receipt, runtime, stray, host, memory, requests, jobs,
                   fresh, faults>>

\* No authority, no answer, or an answer lost after the deletion.
RetireFails(s) ==
    /\ At(s, "retire")
    /\ runners' \in {runners, runners \ {Runner(s)}}
    /\ failed' = Write(failed, s, TRUE)
    /\ Goto(s, "destroy")
    /\ Fault
    /\ UNCHANGED <<disk, host, handle, excluded, todo, seen, requests, jobs, fresh>>

NothingAllocated(s) == runtime[s] = 0 /\ receipt[s] = 0

\* destroy with a receipt: bind it to the generation, then stop the unit.
StopUnit(s) ==
    /\ At(s, "destroy") /\ receipt[s] = generation[s]
    /\ unit' = Write(unit, s, 0)
    /\ controller' = Write(controller, s, "none")
    /\ Goto(s, "remove")
    /\ UNCHANGED <<disk, lock, lease, timer, service, memory, forgejo, fresh, faults>>

\* destroy without any allocation: only observe that nothing runs.
NothingToDestroy(s) ==
    /\ At(s, "destroy") /\ NothingAllocated(s) /\ RuntimeAbsent(s)
    /\ Goto(s, "finish")
    /\ UNCHANGED <<disk, host, memory, forgejo, fresh, faults>>

\* restore_receipt finds no receipt of this generation: preserve everything.
DestroyRefused(s) ==
    /\ At(s, "destroy") /\ receipt[s] # generation[s]
    /\ ~(NothingAllocated(s) /\ RuntimeAbsent(s))
    /\ failed' = Write(failed, s, TRUE)
    /\ Goto(s, "finish")
    /\ UNCHANGED <<disk, host, handle, excluded, todo, seen, forgejo, fresh, faults>>

\* The unit, a process or a file could not be removed in time.
DestroyFails(s) ==
    /\ pc[s] \in {"destroy", "remove", "unlink"}
    /\ failed' = Write(failed, s, TRUE)
    /\ Goto(s, "finish")
    /\ Fault
    /\ UNCHANGED <<disk, host, handle, excluded, todo, seen, forgejo, fresh>>

\* Resources.cleanup deletes what the receipt names, nothing else.
RemoveRuntime(s) ==
    /\ At(s, "remove") /\ ~stray[s]
    /\ runtime' = Write(runtime, s, 0)
    /\ Goto(s, "unlink")
    /\ UNCHANGED <<phase, generation, registered, assignment, receipt, stray, host, memory, forgejo, fresh, faults>>

\* rmdir of a directory that holds an unrecorded entry fails, now and in every retry.
RemoveBlocked(s) ==
    /\ At(s, "remove") /\ stray[s]
    /\ failed' = Write(failed, s, TRUE)
    /\ Goto(s, "finish")
    /\ UNCHANGED <<disk, host, handle, excluded, todo, seen, forgejo, fresh, faults>>

UnlinkReceipt(s) ==
    /\ At(s, "unlink")
    /\ receipt' = Write(receipt, s, 0)
    /\ Goto(s, "finish")
    /\ UNCHANGED <<phase, generation, registered, assignment, runtime, stray, host, memory, forgejo, fresh, faults>>

\* Mutant: errors of the cleanup are forgotten.
FinishRegardless(s) ==
    /\ At(s, "finish")
    /\ WriteCheckpoint(s, "clean", 0)
    /\ registered' = Write(registered, s, FALSE)
    /\ Goto(s, "done")
    /\ UNCHANGED <<assignment, receipt, runtime, stray, host, memory, forgejo, fresh, faults>>

FinishClean(s) ==
    /\ At(s, "finish") /\ ~failed[s]
    /\ WriteCheckpoint(s, "clean", 0)
    /\ registered' = Write(registered, s, FALSE)
    /\ Goto(s, "done")
    /\ UNCHANGED <<assignment, receipt, runtime, stray, host, memory, forgejo, fresh, faults>>

FinishQuarantined(s) ==
    /\ At(s, "finish") /\ failed[s]
    /\ phase' = Write(phase, s, "quarantined")
    /\ Goto(s, "done")
    /\ UNCHANGED <<generation, registered, assignment, receipt, runtime, stray, host, memory, forgejo, fresh, faults>>

-----------------------------------------------------------------------------
(* Forgejo and the controller inside the worker.                           *)

SubmitJob(j) ==
    /\ jobs[j] = "unborn" /\ \A i \in Jobs : i < j => jobs[i] # "unborn"
    /\ jobs' = [jobs EXCEPT ![j] = "waiting"]
    /\ UNCHANGED <<disk, host, pc, memory, runners, requests, fresh, faults>>

CancelJob(j) ==
    /\ jobs[j] = "waiting"
    /\ jobs' = [jobs EXCEPT ![j] = "done"]
    /\ Fault
    /\ UNCHANGED <<disk, host, pc, memory, runners, requests, fresh>>

FetchJob(s) ==
    /\ Fetchable(s)
    /\ jobs' = [jobs EXCEPT ![assignment[s].job] = "running"]
    /\ controller' = Write(controller, s, "executing")
    /\ UNCHANGED <<disk, unit, lock, lease, timer, service, pc, memory, runners, requests, fresh, faults>>

\* An ephemeral registration disappears with its one task.
JobEnds(s) ==
    /\ controller[s] = "executing"
    /\ jobs' = [jobs EXCEPT ![assignment[s].job] = "done"]
    /\ controller' = Write(controller, s, "exited")
    /\ runners' = runners \ {<<s, unit[s]>>}
    /\ UNCHANGED <<disk, unit, lock, lease, timer, service, pc, memory, requests, fresh, faults>>

RevokeRunner(r) ==
    /\ r \in runners
    /\ runners' = runners \ {r}
    /\ Fault
    /\ UNCHANGED <<disk, host, pc, memory, requests, jobs, fresh>>

LatePost(r) ==
    /\ r \in requests
    /\ requests' = requests \ {r}
    /\ runners' = runners \cup {r}
    /\ UNCHANGED <<disk, host, pc, memory, jobs, fresh, faults>>

-----------------------------------------------------------------------------
Survey(s) ==
    \/ ObserveSelf(s) \/ ReadPeer(s) \/ WatchPeer(s) \/ PeerBlocks(s) \/ ProbeFree(s)
    \/ ProbeHeld(s) \/ PeerIdle(s) \/ PeerAssigned(s) \/ SurveyDone(s)
    \/ PendingJob(s) \/ NoPendingJob(s) \/ Reserve(s)

Run(s) ==
    \/ BeginPreparing(s) \/ MakeRuntime(s) \/ RecordRuntime(s) \/ MakeEntry(s) \/ RecordEntry(s)
    \/ EnrollSucceeds(s) \/ Confirm(s) \/ Reconcile(s) \/ Register(s) \/ Admit(s) \/ StartWorker(s)
    \/ RunController(s) \/ ControllerReturns(s) \/ RegistrationRevoked(s) \/ JobDeadline(s)

Cleanup(s) ==
    \/ BeginCleaning(s) \/ Retire(s) \/ StopUnit(s) \/ NothingToDestroy(s) \/ DestroyRefused(s)
    \/ RemoveRuntime(s) \/ RemoveBlocked(s) \/ UnlinkReceipt(s) \/ FinishClean(s) \/ FinishQuarantined(s)

Enter(s) == EnterNothing(s) \/ EnterRecovery(s) \/ EnterAdmission(s)

\* What the process of a slot does when nothing goes wrong around it.
Supervisor(s) ==
    Enter(s) \/ LockBusy(s) \/ LeaseBusy(s) \/ Exit(s) \/ Survey(s) \/ Run(s) \/ Cleanup(s)

Trouble(s) ==
    \/ Crash(s) \/ AdmissionFails(s) \/ EmptinessUnknown(s) \/ EnrollUncertain(s)
    \/ ConfirmFails(s) \/ StartWorkerUncertain(s) \/ RunFails(s) \/ RetireFails(s) \/ DestroyFails(s)

Next ==
    \/ \E s \in Slots :
           \/ TimerFires(s) \/ StopTimer(s) \/ OperatorRecovers(s) \/ StartTimer(s)
           \/ TakeLease(s) \/ Supervisor(s) \/ Trouble(s) \/ FetchJob(s) \/ JobEnds(s)
    \/ HostRestart
    \/ \E j \in Jobs : SubmitJob(j) \/ CancelJob(j)
    \/ \E r \in runners : RevokeRunner(r)
    \/ \E r \in requests : LatePost(r)

Spec == Init /\ [][Next]_vars

(***************************************************************************)
(* Fairness: systemd runs a started process to its end and an active timer *)
(* fires again; a fetched job is bounded by job_seconds.  The slots poll   *)
(* on timers that restart when their own last poll ended                   *)
(* (OnUnitInactiveSec), so their polls drift: of a lease that is free      *)
(* again and again, a slot that keeps asking gets its share, and of peers  *)
(* that are between two polls again and again, a survey that keeps probing *)
(* finds one there.                                                        *)
(***************************************************************************)
PollsDrift(s) ==
    /\ []<>At(s, "lease") /\ []<>(lease = NoSlot) => []<><<TakeLease(s)>>_vars
    /\ []<>At(s, "probe") /\ []<>(\A p \in Slots \ {s} : lock[p] = NoSlot) => []<><<ProbeFree(s)>>_vars

\* The process of a slot is started again and runs; its controller works.
SlotProgress(s) == TimerFires(s) \/ TakeLease(s) \/ Supervisor(s)
ControllerProgress(s) == FetchJob(s) \/ JobEnds(s)

Fairness ==
    \A s \in Slots :
        WF_vars(SlotProgress(s)) /\ WF_vars(ControllerProgress(s)) /\ SF_vars(StartTimer(s))

FairSpec == Spec /\ Fairness

-----------------------------------------------------------------------------
ActiveRun(s) == pc[s] \in Admitted

\* Queue reservations are exclusive: two supervisors that are both between
\* reserving a job and cleaning up never hold the same job, although each read
\* the other's checkpoint, host state and lock at different moments.
ExclusiveReservations ==
    \A s, t \in Slots : s # t /\ ActiveRun(s) /\ ActiveRun(t) => assignment[s].job # assignment[t].job

\* Every registration Forgejo knows belongs to the generation a non-clean
\* checkpoint still names, so the recovery of that slot can find and retire it.
RegistrationsAreOwned ==
    \A r \in runners : phase[r[1]] # "clean" /\ generation[r[1]] = r[2]

\* A live worker is always reachable for disposal: checkpoint, receipt and
\* runtime directory name its generation, and the receipt names everything in
\* that directory, whatever crashed in between.
DisposableWorker ==
    \A s \in Slots :
        unit[s] # 0 =>
            /\ unit[s] = generation[s] /\ receipt[s] = unit[s] /\ runtime[s] = unit[s]
            /\ ~stray[s]
            /\ phase[s] \in {"running", "cleaning", "quarantined"}

\* Whatever crashed, failed or was answered too late, the recovery of a slot finds
\* everything its slot ever made: registrations at Forgejo and workers on the host.
NothingIsStranded == RegistrationsAreOwned /\ DisposableWorker

(***************************************************************************)
(* Why reservations are exclusive.  A process past the acquisition holds   *)
(* its slot lock and a surveying one the lease; a survey accounts for      *)
(* every active run: its slot is still to be visited or its job excluded.  *)
(***************************************************************************)
LocksHeld ==
    \A s \in Slots :
        /\ pc[s] \notin {"idle", "lock"} => lock[s] = s
        /\ pc[s] \in Surveying => lease = s

SurveyConsistent ==
    \A s \in Slots :
        /\ pc[s] \in Surveying \ {"observe"} => s \notin todo[s]
        /\ pc[s] \in {"watch", "probe", "probed", "assigned"} => seen[s].peer \in todo[s]
        /\ pc[s] = "probed" => lock[seen[s].peer] = s
        /\ pc[s] \in {"queue", "reserve"} => todo[s] = {}
        /\ pc[s] = "reserve" => handle[s] \in Jobs \ excluded[s]

ActiveRunsCovered ==
    \A t \in Slots : ActiveRun(t) =>
        /\ assignment[t].job \in Jobs
        /\ \A s \in Slots \ {t} :
               pc[s] \in Surveying \ {"observe"} => t \in todo[s] \/ assignment[t].job \in excluded[s]

\* Locks, survey bookkeeping and active runs agree (control.perform, pool.locked).
ReservationInvariant ==
    TypeOK /\ LocksHeld /\ SurveyConsistent /\ ActiveRunsCovered /\ ExclusiveReservations

\* A slot nothing in the code can free: quarantined without a generation, or a
\* runtime directory whose process died between the creation of something, the
\* directory itself or an entry in it, and its record in the receipt.
Stuck(s) ==
    /\ phase[s] # "clean" /\ ~ActiveRun(s)
    /\ generation[s] = 0 \/ (runtime[s] # 0 /\ (receipt[s] = 0 \/ stray[s]))

\* Dirty state is never abandoned: a slot that is not clean is cleaned again,
\* through crashes, lost answers and quarantine, unless it is stuck.
SlotsRecover ==
    \A s \in Slots : (phase[s] # "clean") ~> (phase[s] = "clean" \/ Stuck(s))

\* A waiting job is fetched (or cancelled) unless a stuck slot stops the pool,
\* provided that the polls of the slots drift against each other.
WaitingJobsAreServed ==
    (\A s \in Slots : PollsDrift(s)) =>
        \A j \in Jobs : (jobs[j] = "waiting") ~> (jobs[j] # "waiting" \/ \E s \in Slots : Stuck(s))

\* Creation is never retried: whatever an earlier answer said, a slot that is
\* about to enroll has no registration of that generation, applied or in flight.
SingleEnrollment ==
    \A s \in Slots : At(s, "enroll") => Runner(s) \notin runners \cup requests

\* Registrations no generation owns any more, or still to appear at Forgejo.
Orphans == {r \in runners \cup requests : phase[r[1]] = "clean" \/ generation[r[1]] # r[2]}

\* Orphans stay bounded: each one costs a lost enrollment of its own.
OrphansAreBounded == Cardinality(Orphans) <= faults

\* Late answers of Forgejo multiply nothing: a generation enrolls once, and what is left
\* over is accounted for, answer by answer.
EnrollmentIsBounded == SingleEnrollment /\ OrphansAreBounded

-----------------------------------------------------------------------------
(* The abstract view of SlotLedger.                                        *)

ledgerMode == [s \in Slots |->
    IF ActiveRun(s) THEN "held" ELSE IF phase[s] = "clean" THEN "free" ELSE "dirty"]
ledgerJob == [s \in Slots |-> IF ActiveRun(s) THEN assignment[s].job ELSE NoJob]
ledgerResidue == [s \in Slots |->
    ~RuntimeAbsent(s) \/ receipt[s] # 0 \/ \E r \in runners : r[1] = s]

Ledger == INSTANCE SlotLedger WITH mode <- ledgerMode, job <- ledgerJob, residue <- ledgerResidue

\* The pool keeps the promise of SlotLedger: exclusive reservations, and a slot
\* is free again only once host and Forgejo hold nothing of its last run.
KeepsSlotLedger == Ledger!Spec

-----------------------------------------------------------------------------
(* What the documentation says of the program and the program does not do. *)

\* docs/specs/011-forgejo-runners.md:209: "jobs already reserved by another
\* worker are excluded": no two live controllers ask for one job.
ReservedJobsAreExcluded ==
    \A s, t \in Slots :
        s # t /\ controller[s] = "polling" /\ controller[t] = "polling" =>
            assignment[s].job # assignment[t].job
=============================================================================
