------------------------------- MODULE HostProbe -------------------------------
(***************************************************************************)
(* scripts/forgejo_runner/host_fixture.py, host_resources.py and           *)
(* host_worker.py: an experiment on a remote host.  A local command sends  *)
(* a program over SSH; the program makes an allocation (directories, an    *)
(* image, a transient unit that runs on it, for public networks a helper   *)
(* process), observes it from outside, stops it and removes it, and        *)
(* answers.  An answer can be lost while the program runs on, and the next *)
(* attempt then meets it: both use the same paths and the same unit name.  *)
(***************************************************************************)
EXTENDS Naturals, FiniteSets, SequencesExt

CONSTANTS
    MaxAttempts,    \* how often the command is run on the target
    MaxHostFaults   \* faults: failed steps, lost answers, kills, and changes by others

ASSUME HostConstants == {MaxAttempts, MaxHostFaults} \subseteq Nat

Attempts == 1 .. MaxAttempts
Nobody == 0
Other == MaxAttempts + 1      \* whoever else is on the host

VARIABLES
    kind,      \* resources, worker or public: what the experiments run
    pc,        \* [p] -> where the remote program of an attempt is
    entries,   \* [p] -> what it recorded as its own, in order
    maker,     \* [file] -> who made what is there
    unit,      \* who started the unit of the name, and its state
    procs,     \* [p] -> processes in the cgroup of its unit
    escaped,   \* [p] -> worker processes outside of that cgroup
    attached,  \* [p] -> a loop device refers to its image
    helper,    \* [p] -> its transport helper runs
    start,     \* [p] -> no, attempted (systemd-run was called) or claimed (its invocation is known)
    observed,  \* [p] -> its observations are complete
    broken,    \* [p] -> the body failed
    errors,    \* [p] -> its cleanup reports errors
    disturbed, \* [p] -> a service that was active before is not any more
    gap,       \* [p] -> interrupted between making an outermost directory and recording it
    local,     \* [p] -> the local command: ready, waits, lost, unsaved, failed, passed
    moved,     \* [p] -> the source tree changed while the command ran
    hostFaults

hostVars == <<kind, pc, entries, maker, unit, procs, escaped, attached, helper, start, observed,
              broken, errors, disturbed, gap, local, moved, hostFaults>>

Kernel == <<unit, procs, escaped, attached, helper>>
Verdicts == <<observed, broken, errors>>
Around == <<kind, disturbed, gap, local, moved>>

FileNames == {"parent", "ownership", "root", "staging", "image"}
Inside(f) ==
    CASE f = "parent" -> {"ownership", "root"} [] f = "root" -> {"staging", "image"} [] OTHER -> {}
NoUnit == [whose |-> Nobody, state |-> "none"]

HostInit ==
    /\ kind \in {"resources", "worker", "public"}
    /\ maker \in {[f \in FileNames |-> Nobody],
                  [f \in FileNames |-> IF f \in {"parent", "ownership"} THEN Other ELSE Nobody]}
    /\ pc = [p \in Attempts |-> "off"]
    /\ entries = [p \in Attempts |-> << >>]
    /\ unit = NoUnit
    /\ start = [p \in Attempts |-> "no"]
    /\ procs = {} /\ escaped = {} /\ attached = {} /\ helper = {}
    /\ observed = {} /\ broken = {} /\ errors = {} /\ disturbed = {} /\ gap = {}
    /\ local = [p \in Attempts |-> "ready"]
    /\ moved = {}
    /\ hostFaults = 0

Fault == hostFaults < MaxHostFaults /\ hostFaults' = hostFaults + 1
To(p, next) == pc' = [pc EXCEPT ![p] = next]
Probing == {"observe", "free", "parent", "ownership", "root", "staging", "image", "start", "claim",
         "gateway", "watch"}
Clean == {"identities", "stop", "wait", "helper", "survivors", "detach", "remove", "services"}

-----------------------------------------------------------------------------
(* The local command *)

\* validate_target and the budgets are checked first: a bad descriptor reaches no host.
Submit(p) ==
    /\ local[p] = "ready"
    /\ p > 1 => local[p - 1] \notin {"ready", "waits"}
    /\ local' = [local EXCEPT ![p] = "waits"]
    /\ To(p, "observe")
    /\ UNCHANGED <<entries, maker, start, Kernel, Verdicts, kind, disturbed, gap, moved, hostFaults>>

\* ssh_observation: the transport ends or is given up; the program may run on.
AnswerLost(p) ==
    /\ local[p] = "waits"
    /\ IF pc[p] = "killed" THEN UNCHANGED hostFaults ELSE Fault
    /\ local' = [local EXCEPT ![p] = "lost"]
    /\ UNCHANGED <<pc, entries, maker, start, Kernel, Verdicts, kind, disturbed, gap, moved>>

\* inspect_*: exit code 0 needs every observation and no error.
Complete(p) == p \in observed /\ p \notin broken /\ p \notin errors

\* run: for evidence the source must be what it was; then the outcome is saved and judged.
Answer(p) ==
    /\ local[p] = "waits" /\ pc[p] = "ended"
    /\ local' = [local EXCEPT ![p] =
           IF p \in moved THEN "unsaved" ELSE IF Complete(p) THEN "passed" ELSE "failed"]
    /\ UNCHANGED <<pc, entries, maker, start, Kernel, Verdicts, kind, disturbed, gap, moved, hostFaults>>

\* The experiments with a network are evidence for one source tree.
SourceChanges(p) ==
    /\ local[p] = "waits" /\ p \notin moved /\ kind = "public"
    /\ Fault
    /\ moved' = moved \cup {p}
    /\ UNCHANGED <<pc, entries, maker, start, Kernel, Verdicts, kind, disturbed, gap, local>>

-----------------------------------------------------------------------------
(* setup_and_probe *)

Frame(p) == UNCHANGED <<errors, Around>>

\* validate_observation: the state root must not be there, its parent must be the
\* target's own or absent. host_capacity and the tools follow.
Observe(p) ==
    /\ pc[p] = "observe"
    /\ maker["root"] = Nobody
    /\ (maker["parent"] = Nobody) = (maker["ownership"] = Nobody)
    /\ To(p, "free")
    /\ UNCHANGED <<entries, maker, start, Kernel, observed, broken, hostFaults>> /\ Frame(p)

UnitFree(p) ==
    /\ pc[p] = "free"
    /\ unit = NoUnit
    /\ To(p, IF maker["parent"] = Nobody THEN "parent" ELSE "root")
    /\ UNCHANGED <<entries, maker, start, Kernel, observed, broken, hostFaults>> /\ Frame(p)

Following(f) ==
    CASE f = "parent" -> "ownership" [] f = "ownership" -> "root" [] f = "root" -> "staging"
      [] f = "staging" -> "image" [] f = "image" -> "start"

Holder(f) == CHOOSE d \in FileNames \cup {"var"} : f \in Inside(d) \/ (f = "parent" /\ d = "var")

\* mkdir and open("x") refuse what is there; record_file takes the identity.
Make(p, f) ==
    /\ pc[p] = f
    /\ maker[f] = Nobody
    /\ f # "parent" => maker[Holder(f)] # Nobody
    /\ maker' = [maker EXCEPT ![f] = p]
    /\ entries' = [entries EXCEPT ![p] = Append(@, f)]
    /\ To(p, Following(f))
    /\ UNCHANGED <<start, Kernel, observed, broken, hostFaults>> /\ Frame(p)

Started(p) ==
    /\ unit' = [whose |-> p, state |-> "running"]
    /\ procs' = procs \cup {p} /\ attached' = attached \cup {p}

\* attempted is set before systemd-run; a name in use is refused.
StartUnit(p) ==
    /\ pc[p] = "start"
    /\ unit = NoUnit
    /\ Started(p)
    /\ start' = [start EXCEPT ![p] = "attempted"]
    /\ To(p, "claim")
    /\ UNCHANGED <<entries, maker, escaped, helper, observed, broken, hostFaults>> /\ Frame(p)

\* claim: the root image tells whose unit it is.
Claim(p) ==
    /\ pc[p] = "claim"
    /\ unit.whose = p
    /\ start' = [start EXCEPT ![p] = "claimed"]
    /\ To(p, IF kind = "public" THEN "gateway" ELSE "watch")
    /\ UNCHANGED <<entries, maker, Kernel, observed, broken, hostFaults>> /\ Frame(p)

\* start_gateway: the helper joins the cgroup of the unit.
StartGateway(p) ==
    /\ pc[p] = "gateway"
    /\ unit = [whose |-> p, state |-> "running"]
    /\ helper' = helper \cup {p}
    /\ To(p, "watch")
    /\ UNCHANGED <<entries, maker, start, unit, procs, escaped, attached, observed, broken, hostFaults>>
    /\ Frame(p)

\* read_worker_result and observe_worker_boundary: every worker process is in the cgroup.
Watch(p) ==
    /\ pc[p] = "watch"
    /\ unit = [whose |-> p, state |-> "running"]
    /\ kind # "resources" => p \in procs /\ p \notin escaped
    /\ kind = "public" => p \in helper
    /\ observed' = observed \cup {p}
    /\ To(p, "identities")
    /\ UNCHANGED <<entries, maker, start, Kernel, broken, hostFaults>> /\ Frame(p)

\* What makes a step fail without any fault: it meets something it refuses.
Refuses(p) ==
    \/ pc[p] = "observe" /\ (maker["root"] # Nobody
                               \/ (maker["parent"] = Nobody) # (maker["ownership"] = Nobody))
    \/ pc[p] \in {"free", "start"} /\ unit # NoUnit
    \/ pc[p] \in FileNames /\ (maker[pc[p]] # Nobody
                                 \/ (pc[p] # "parent" /\ maker[Holder(pc[p])] = Nobody))
    \/ pc[p] = "claim" /\ unit.whose # p
    \/ pc[p] \in {"gateway", "watch"} /\ unit # [whose |-> p, state |-> "running"]
    \/ pc[p] = "watch" /\ kind # "resources" /\ p \in escaped

\* run_with_cleanup: any exception of the body is kept and the cleanup follows. A start may
\* have happened and its answer be lost, a helper may run and not be ready in time.
BodyFails(p) ==
    /\ pc[p] \in Probing
    /\ IF Refuses(p) THEN UNCHANGED hostFaults ELSE Fault
    /\ broken' = broken \cup {p}
    /\ start' = IF pc[p] = "start" THEN [start EXCEPT ![p] = "attempted"] ELSE start
    /\ \/ UNCHANGED <<unit, procs, attached, helper>>
       \/ pc[p] = "start" /\ unit = NoUnit /\ Started(p) /\ UNCHANGED helper
       \/ /\ pc[p] = "gateway" /\ unit = [whose |-> p, state |-> "running"]
          /\ helper' = helper \cup {p} /\ UNCHANGED <<unit, procs, attached>>
    /\ To(p, "identities")
    /\ UNCHANGED <<entries, maker, escaped, observed>> /\ Frame(p)

\* Interrupted after a file was made and before it was recorded.
Unrecorded(p) ==
    /\ pc[p] \in FileNames /\ ~Refuses(p)
    /\ Fault
    /\ maker' = [maker EXCEPT ![pc[p]] = p]
    /\ broken' = broken \cup {p}
    /\ gap' = IF \A f \in ToSet(entries[p]) : pc[p] \notin Inside(f) THEN gap \cup {p} ELSE gap
    /\ To(p, "identities")
    /\ UNCHANGED <<entries, start, Kernel, observed, errors, kind, disturbed, local, moved>>

-----------------------------------------------------------------------------
(* The cleanup. An error keeps everything that is left. *)

CleanFrame == UNCHANGED <<entries, start, observed, broken, Around>>

Keeps(p, next) == errors' = errors \cup {p} /\ To(p, next)

Matches(p) == \A f \in ToSet(entries[p]) : maker[f] = p

Identities(p) ==
    /\ pc[p] = "identities"
    /\ IF Matches(p) THEN To(p, IF start[p] = "no" THEN "detach" ELSE "stop") /\ UNCHANGED errors
       ELSE Keeps(p, "ended")
    /\ UNCHANGED <<maker, Kernel, hostFaults>> /\ CleanFrame

\* Mutant: a unit of the name is taken for its own.
MineByName(p) == TRUE

\* A unit that was claimed is known by its invocation, another by the path of its root image,
\* which is the same for every attempt on the target.
Mine(p) == IF start[p] = "claimed" THEN unit.whose = p ELSE unit.whose \in Attempts

Ended == IF unit.state = "failed" THEN NoUnit ELSE [unit EXCEPT !.state = "inactive"]

\* OwnedUnit.cleanup: match, then stop the whole cgroup, the helper in it.
Stop(p) ==
    /\ pc[p] = "stop"
    /\ IF unit = NoUnit THEN To(p, "helper") /\ UNCHANGED <<unit, procs, helper, errors>>
       ELSE IF Mine(p)
       THEN /\ unit' = Ended
            /\ procs' = procs \ {unit.whose} /\ helper' = helper \ {unit.whose}
            /\ To(p, "wait") /\ UNCHANGED errors
       ELSE Keeps(p, "services") /\ UNCHANGED <<unit, procs, helper>>
    /\ UNCHANGED <<maker, escaped, attached, hostFaults>> /\ CleanFrame

\* Some processes outlive the stop.
StopSurvived(p) ==
    /\ pc[p] = "stop" /\ unit.whose = p
    /\ Fault
    /\ unit' = Ended
    /\ \/ helper' = helper \ {p} /\ procs' = procs
       \/ helper' = helper /\ procs' = procs \ {p}
    /\ To(p, "wait")
    /\ UNCHANGED <<maker, escaped, attached, errors>> /\ CleanFrame

\* The unit must be unloaded and its cgroup empty.
Wait(p) ==
    /\ pc[p] = "wait"
    /\ unit.whose # p
    /\ IF unit = NoUnit /\ p \notin procs THEN To(p, "helper") /\ UNCHANGED errors
       ELSE Keeps(p, "services")
    /\ UNCHANGED <<maker, Kernel, hostFaults>> /\ CleanFrame

HelperEnded(p) ==
    /\ pc[p] = "helper"
    /\ IF p \notin helper THEN To(p, "survivors") /\ UNCHANGED errors
       ELSE Keeps(p, "services")
    /\ UNCHANGED <<maker, Kernel, hostFaults>> /\ CleanFrame

\* worker_cleanup_errors: no process has an identity of the workers.
NoSurvivors(p) == kind = "resources" \/ escaped = {}

Survivors(p) ==
    /\ pc[p] = "survivors"
    /\ IF NoSurvivors(p) THEN To(p, "detach") /\ UNCHANGED errors ELSE Keeps(p, "services")
    /\ UNCHANGED <<maker, Kernel, hostFaults>> /\ CleanFrame

\* Mutant: the loop devices are not looked at.
DetachedUnseen(p) ==
    /\ pc[p] = "detach" /\ To(p, "remove")
    /\ UNCHANGED <<maker, errors, Kernel, hostFaults>> /\ CleanFrame

\* image_attached, which the code repeats for five seconds.
Detached(p) ==
    /\ pc[p] = "detach"
    /\ \/ p \notin attached /\ To(p, "remove") /\ UNCHANGED errors
       \/ p \in attached /\ Keeps(p, "services")
    /\ UNCHANGED <<maker, Kernel, hostFaults>> /\ CleanFrame

\* Resources.cleanup: backwards, each matched again; rmdir refuses what is not empty.
RemoveEntry(p) ==
    LET f == Last(entries[p]) IN
    /\ pc[p] = "remove"
    /\ IF entries[p] = << >> THEN To(p, "services") /\ UNCHANGED <<entries, maker, errors>>
       ELSE IF maker[f] = p /\ \A g \in Inside(f) : maker[g] = Nobody
       THEN /\ maker' = [maker EXCEPT ![f] = Nobody]
            /\ entries' = [entries EXCEPT ![p] = Front(@)]
            /\ UNCHANGED <<pc, errors>>
       ELSE Keeps(p, "services") /\ UNCHANGED <<entries, maker>>
    /\ UNCHANGED <<Kernel, start, observed, broken, Around, hostFaults>>

\* A service that was active before must be active.
Services(p) ==
    /\ pc[p] = "services"
    /\ To(p, "ended")
    /\ errors' = IF p \in disturbed THEN errors \cup {p} ELSE errors
    /\ UNCHANGED <<maker, Kernel, hostFaults>> /\ CleanFrame

\* A command or a wait of the cleanup fails; a stop may have had its effect.
CleanFails(p) ==
    /\ pc[p] \in Clean \ {"services"}
    /\ Fault
    /\ Keeps(p, IF pc[p] = "identities" THEN "ended" ELSE "services")
    /\ \/ UNCHANGED <<unit, procs, helper>>
       \/ /\ pc[p] = "stop" /\ unit.whose = p
          /\ unit' = Ended /\ procs' = procs \ {p} /\ helper' = helper \ {p}
    /\ UNCHANGED <<maker, escaped, attached>> /\ CleanFrame

-----------------------------------------------------------------------------
(* The host *)

KillRemote(p) ==
    /\ pc[p] \in Probing \cup Clean
    /\ Fault
    /\ To(p, "killed")
    /\ UNCHANGED <<entries, maker, start, Kernel, Verdicts, Around>>

Env == UNCHANGED <<pc, entries, start, Verdicts, kind, gap, local, moved>>

\* RuntimeMaxSec, or a crash of the launcher: the unit fails with all its processes.
UnitEnds ==
    /\ unit.whose \in Attempts /\ unit.state = "running"
    /\ unit' = [unit EXCEPT !.state = "failed"]
    /\ procs' = procs \ {unit.whose} /\ helper' = helper \ {unit.whose}
    /\ UNCHANGED <<maker, escaped, attached, disturbed, hostFaults>> /\ Env

Unload ==
    /\ unit.state = "inactive"
    /\ unit' = NoUnit
    /\ UNCHANGED <<maker, procs, escaped, attached, helper, disturbed, hostFaults>> /\ Env

\* The last user of the image lets it go.
Detach(p) ==
    /\ p \in attached
    /\ unit.whose # p /\ p \notin procs \cup escaped \cup helper
    /\ attached' = attached \ {p}
    /\ UNCHANGED <<maker, unit, procs, escaped, helper, disturbed, hostFaults>> /\ Env

\* A worker process gets out of the cgroup of its unit.
Escape ==
    /\ unit.whose \in Attempts /\ unit.state = "running" /\ escaped = {}
    /\ Fault
    /\ escaped' = {unit.whose}
    /\ UNCHANGED <<maker, unit, procs, attached, helper, disturbed>> /\ Env

\* Someone else starts a unit of the name, replaces a file, or stops a service.
OthersAct ==
    /\ Fault
    /\ \/ /\ unit = NoUnit
          /\ unit' = [whose |-> Other, state |-> "running"] /\ UNCHANGED <<maker, disturbed>>
       \/ /\ \E f \in FileNames : maker[f] \in Attempts /\ maker' = [maker EXCEPT ![f] = Other]
          /\ UNCHANGED <<unit, disturbed>>
       \/ /\ disturbed' = disturbed \cup {p \in Attempts : pc[p] \in Probing \ {"observe", "free"}}
          /\ disturbed' # disturbed /\ UNCHANGED <<unit, maker>>
    /\ UNCHANGED <<procs, escaped, attached, helper>> /\ Env

-----------------------------------------------------------------------------
HostNext ==
    \/ \E p \in Attempts :
           \/ Submit(p) \/ AnswerLost(p) \/ Answer(p) \/ SourceChanges(p)
           \/ Observe(p) \/ UnitFree(p) \/ StartUnit(p) \/ Claim(p) \/ StartGateway(p) \/ Watch(p)
           \/ BodyFails(p) \/ Unrecorded(p)
           \/ Identities(p) \/ Stop(p) \/ StopSurvived(p) \/ Wait(p) \/ HelperEnded(p)
           \/ Survivors(p) \/ Detached(p) \/ RemoveEntry(p) \/ Services(p) \/ CleanFails(p)
           \/ KillRemote(p) \/ Detach(p)
    \/ \E p \in Attempts, f \in FileNames : Make(p, f)
    \/ UnitEnds \/ Unload \/ Escape \/ OthersAct

-----------------------------------------------------------------------------
HostTypeOK ==
    /\ maker \in [FileNames -> 0 .. Other]
    /\ (unit.whose = Nobody) = (unit.state = "none")
    /\ \A p \in Attempts : pc[p] \in Probing \cup Clean \cup {"off", "ended", "killed"}

LeftBy(p) == (\E f \in FileNames : maker[f] = p) \/ unit.whose = p \/ p \in helper \/ p \in procs

\* An image goes only when nothing uses it any more: its unit is unloaded, no process of the
\* workers is left in or out of its cgroup, and no loop device refers to it.
RemovedWhenQuiet == [][
    \A p \in Attempts : (maker["image"] = p /\ maker'["image"] = Nobody) =>
        unit.whose # p /\ p \notin procs \cup helper \cup escaped \cup attached]_hostVars

\* What others made stays, and an attempt neither stops the unit nor removes the files of
\* another attempt that is still under way or was killed.
OwnIsTouched == [][
    /\ \A f \in FileNames : maker[f] = Other => maker'[f] = Other
    /\ unit.whose = Other => unit' = unit
    /\ \A p, q \in Attempts : p # q /\ <<pc[p], entries[p]>>' # <<pc[p], entries[p]>> =>
           /\ \A f \in FileNames : maker[f] = q => maker'[f] = q
           /\ unit.whose = q => unit' = unit]_hostVars

\* What an answer says is true. A command passes only on complete observations of the source
\* it names, with nothing of its attempt left on the host and no service disturbed; and
\* whatever failed and whoever else was there, a cleanup without an error left nothing.
AnswersAreTrue ==
    \A p \in Attempts :
        /\ local[p] = "passed" => p \in observed /\ p \notin disturbed /\ p \notin moved
        /\ pc[p] = "ended" /\ p \notin errors \cup gap => ~LeftBy(p)
        /\ local[p] = "passed" => ~LeftBy(p)
=============================================================================
