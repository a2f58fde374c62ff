------------------------------ MODULE MoleculeRuns ------------------------------
(***************************************************************************)
(* scripts/molecule.py: an invocation tests one scenario of a role on      *)
(* every platform of it at once, each platform in a container whose name   *)
(* and image tag are the same for every invocation on the host.  Linked    *)
(* worktrees of a clone exclude each other with a lock; clones do not.     *)
(*                                                                         *)
(* A container is known by who made it: an invocation (also one that is    *)
(* over or was killed) or a stranger without the ownership labels, who may *)
(* take a free name and give it up at any time.  Runner and Molecule look  *)
(* at the labels of a name and act on the name in two steps.  What a       *)
(* platform did is kept by stage, so that a verdict can be compared with   *)
(* what was tested.                                                        *)
(***************************************************************************)
EXTENDS Naturals, FiniteSets

CONSTANTS
    Invocations,      \* runs of the tool, each at most once
    CloneOf,          \* the clone (Git common directory) each of them runs in
    TestPlatforms,    \* the platforms of the scenario
    MaxMoleculeFaults \* how many commands fail or invocations are killed

Stranger == "stranger"

ASSUME MoleculeConstants ==
    /\ DOMAIN CloneOf = Invocations /\ Stranger \notin Invocations
    /\ MaxMoleculeFaults \in Nat

VARIABLES
    phase,      \* [i] -> ready, planned, running, then the exit: passed, failed or killed
    locked,     \* the invocations that hold the lock of their clone
    step,       \* [i][t] -> the step of the worker of a platform
    status,     \* [i][t] -> the status of the platform's result
    container,  \* [t] -> who made the container of this name: {} or one
    tag,        \* [t] -> whose source the image of this name was built of: {} or one
    tested,     \* [i][t] -> whose image and container the tests ran on: nothing yet, own or foreign
    alone,      \* [i] -> no run in another clone, and no child of a killed one, overlapped
    elder,      \* [t] -> whoever had a look at the name ahead while the stranger's container
                \*        that has it now already had it: observed, read by no action
    mishaps     \* how many commands failed or invocations were killed

moleculeVars == <<phase, locked, step, status, container, tag, tested, alone, elder, mishaps>>

Clones == {CloneOf[i] : i \in Invocations}

MoleculeInit ==
    /\ phase = [i \in Invocations |-> "ready"]
    /\ locked = {}
    /\ step = [i \in Invocations |-> [t \in TestPlatforms |-> "off"]]
    /\ status = [i \in Invocations |-> [t \in TestPlatforms |-> "pass"]]
    /\ container \in [TestPlatforms -> {{}, {Stranger}}]
    /\ tag = [t \in TestPlatforms |-> {}]
    /\ tested = [i \in Invocations |-> [t \in TestPlatforms |-> "nothing"]]
    /\ alone = [i \in Invocations |-> TRUE]
    /\ elder = [t \in TestPlatforms |-> {}]
    /\ mishaps = 0

-----------------------------------------------------------------------------
(* An invocation *)

Holds(i, j) == j \in locked /\ CloneOf[j] = CloneOf[i]

\* preflight and select_platforms, before the lock: the dependencies are verified, Podman
\* answers, is rootless and has cgroup v2.
Preflight(i) ==
    /\ phase[i] = "ready"
    /\ \/ phase' = [phase EXCEPT ![i] = "planned"] /\ UNCHANGED mishaps
       \/ /\ mishaps < MaxMoleculeFaults /\ mishaps' = mishaps + 1
          /\ phase' = [phase EXCEPT ![i] = "failed"]
    /\ UNCHANGED <<locked, step, status, container, tag, tested, alone>>

Orphans == {"orphan", "orphan acts"}   \* a child that looks at names or tests, and one that acts on a name

\* Runs that go on elsewhere: of another clone, or a Molecule child of a killed invocation.
Others(i) == {j \in Invocations \ {i} :
    (j \in locked /\ CloneOf[j] # CloneOf[i]) \/ \E t \in TestPlatforms : step[j][t] \in Orphans}

Starts(i) ==
    /\ locked' = locked \cup {i}
    /\ phase' = [phase EXCEPT ![i] = "running"]
    /\ step' = [step EXCEPT ![i] = [t \in TestPlatforms |-> "stale"]]
    /\ alone' = [j \in Invocations |->
           IF j = i THEN Others(i) = {} ELSE alone[j] /\ j \notin Others(i)]

\* Mutant: every worktree has a lock of its own.
LockOfWorktree(i) ==
    /\ phase[i] = "planned"
    /\ Starts(i)
    /\ UNCHANGED <<status, container, tag, tested, mishaps>>

\* invocation_lock never waits; then run_platforms starts a worker for each platform.
Lock(i) ==
    /\ phase[i] = "planned"
    /\ IF \E j \in Invocations : Holds(i, j)
       THEN /\ phase' = [phase EXCEPT ![i] = "failed"]
            /\ UNCHANGED <<locked, step, alone>>
       ELSE Starts(i)
    /\ UNCHANGED <<status, container, tag, tested, mishaps>>

\* run: all results are there; a worker's unexpected error passes on the others' results.
Conclude(i) ==
    /\ phase[i] = "running"
    /\ \A t \in TestPlatforms : step[i][t] = "done"
    /\ locked' = locked \ {i}
    /\ phase' = [phase EXCEPT ![i] =
           IF \A t \in TestPlatforms : status[i][t] = "pass" THEN "passed" ELSE "failed"]
    /\ UNCHANGED <<step, status, container, tag, tested, alone, mishaps>>

\* Steps of molecule test; and the steps that act on a name after a look at it.
Children == {"destroy", "destroying", "create", "creating", "converge", "final", "undoing"}
Removals == {"remove", "destroying", "undoing", "purge"}
Acts == Removals \cup {"creating", "orphan acts"}

\* The lock and the results go with the process. A Molecule child of it runs on.
KillInvocation(i) ==
    /\ phase[i] \in {"planned", "running"}
    /\ mishaps < MaxMoleculeFaults /\ mishaps' = mishaps + 1
    /\ phase' = [phase EXCEPT ![i] = "killed"]
    /\ locked' = locked \ {i}
    /\ step' = [step EXCEPT ![i] = [t \in TestPlatforms |->
           IF @[t] \notin Children THEN "off" ELSE IF @[t] \in Acts THEN "orphan acts" ELSE "orphan"]]
    /\ status' = [status EXCEPT ![i] = [t \in TestPlatforms |-> "pass"]]
    /\ tested' = [tested EXCEPT ![i] = [t \in TestPlatforms |-> "nothing"]]
    /\ UNCHANGED <<container, tag, alone>>

-----------------------------------------------------------------------------
(* run_platform, the worker of a platform *)

\* The first status that is not pass is kept; a failed cleanup replaces it.
Goes(i, t, next, verdict) ==
    /\ step' = [step EXCEPT ![i][t] = next]
    /\ status' = [status EXCEPT ![i][t] = verdict]

Command(i, t) == phase[i] = "running" /\ UNCHANGED <<phase, locked, alone>>

\* Mutant: whatever container has the name is taken for a stale one.
LabelledByName(t) == container[t] # {}

\* ownership_labels are the same for every invocation and every clone.
Labelled(t) == container[t] # {} /\ container[t] # {Stranger}

\* remove_owned_container inspects the container that has the name ...
Inspect(i, t, here, remove, next) ==
    /\ Command(i, t) /\ step[i][t] = here
    /\ IF container[t] = {} THEN Goes(i, t, next, status[i][t])
       ELSE IF Labelled(t) THEN Goes(i, t, remove, status[i][t])
       ELSE Goes(i, t, IF here = "stale" THEN "cleanup" ELSE "done", "cleanup-failure")
    /\ UNCHANGED <<container, tag, tested, mishaps>>

\* ... and removes whatever has the name then.
RemoveNamed(i, t, here, next) ==
    /\ Command(i, t) /\ step[i][t] = here
    /\ container' = [container EXCEPT ![t] = {}]
    /\ Goes(i, t, next, status[i][t])
    /\ UNCHANGED <<tag, tested, mishaps>>

RemoveStale(i, t) ==
    Inspect(i, t, "stale", "remove", "pull") \/ RemoveNamed(i, t, "remove", "pull")

Pull(i, t) ==
    /\ Command(i, t) /\ step[i][t] = "pull"
    /\ Goes(i, t, "build", status[i][t])
    /\ UNCHANGED <<container, tag, tested, mishaps>>

Build(i, t) ==
    /\ Command(i, t) /\ step[i][t] = "build"
    /\ tag' = [tag EXCEPT ![t] = {i}]
    /\ Goes(i, t, "destroy", status[i][t])
    /\ UNCHANGED <<container, tested, mishaps>>

\* The playbooks of molecule test look at the labels as well and refuse a stranger's
\* container, in a task before the one that acts.
AssertOwned(i, t, here, act, next) ==
    /\ Command(i, t) /\ step[i][t] = here
    /\ IF container[t] = {} THEN Goes(i, t, next, status[i][t])
       ELSE IF Labelled(t) THEN Goes(i, t, act, status[i][t])
       ELSE Goes(i, t, "cleanup", "stage-failure")
    /\ UNCHANGED <<container, tag, tested, mishaps>>

\* molecule test begins and ends with destroy.
Destroy(i, t, here, act, next) == AssertOwned(i, t, here, act, next) \/ RemoveNamed(i, t, act, next)

\* create makes the container; one with the labels is made anew if it differs and otherwise
\* used as it is, one without always differs.
Create(i, t) ==
    \/ AssertOwned(i, t, "create", "creating", "creating")
    \/ /\ Command(i, t) /\ step[i][t] = "creating"
       /\ \E made \in {{i}, container[t]} \ {{}, {Stranger}} : container' = [container EXCEPT ![t] = made]
       /\ tested' = [tested EXCEPT ![i][t] = IF tag[t] = {i} THEN "own" ELSE "foreign"]
       /\ Goes(i, t, "converge", status[i][t])
       /\ UNCHANGED <<tag, mishaps>>

\* The tests reach the container by its name; without one they fail.
Converge(i, t) ==
    /\ Command(i, t) /\ step[i][t] = "converge"
    /\ tested' = [tested EXCEPT ![i][t] = IF container[t] = {i} THEN @ ELSE "foreign"]
    /\ IF container[t] = {} THEN Goes(i, t, "cleanup", "stage-failure")
       ELSE Goes(i, t, "final", status[i][t])
    /\ UNCHANGED <<container, tag, mishaps>>

MoleculeTest(i, t) ==
    \/ Destroy(i, t, "destroy", "destroying", "create") \/ Create(i, t) \/ Converge(i, t)
    \/ Destroy(i, t, "final", "undoing", "cleanup")

\* The finally clause, after whatever happened.
Cleanup(i, t) ==
    Inspect(i, t, "cleanup", "purge", "done") \/ RemoveNamed(i, t, "purge", "done")

\* What a failure at a step says.  One name stands for what the code tells apart of a
\* stage: acquisition, build, test and runner failure.
Verdict(at) ==
    CASE at \in {"stale", "remove"} -> {"cleanup-failure", "stage-failure", "error"}
      [] at \in {"pull", "build"} \cup Children -> {"stage-failure", "error"}
      [] at \in {"cleanup", "purge"} -> {"cleanup-failure", "error"}
      [] OTHER -> {}

\* A command fails, cannot be run, or raises what run_platform does not catch ("error").
\* A failed rm may have removed the container, a failed creation its predecessor, too.
CommandFails(i, t) ==
    /\ Command(i, t)
    /\ mishaps < MaxMoleculeFaults /\ mishaps' = mishaps + 1
    /\ \E verdict \in Verdict(step[i][t]) :
           Goes(i, t, IF step[i][t] \in {"cleanup", "purge"} THEN "done" ELSE "cleanup", verdict)
    /\ \/ UNCHANGED container
       \/ step[i][t] \in Removals \cup {"creating"} /\ container' = [container EXCEPT ![t] = {}]
       \/ step[i][t] = "creating" /\ container' = [container EXCEPT ![t] = {i}]
    /\ UNCHANGED <<tag, tested>>

\* A Molecule child whose runner was killed goes on looking at the name and acting on it.
Orphan(i, t) ==
    /\ \/ /\ step[i][t] \in Orphans
          /\ step' = [step EXCEPT ![i][t] = "off"] /\ UNCHANGED container
       \/ /\ step[i][t] = "orphan" /\ (container[t] = {} \/ Labelled(t))
          /\ step' = [step EXCEPT ![i][t] = "orphan acts"] /\ UNCHANGED container
       \/ /\ step[i][t] = "orphan acts"
          /\ step' = [step EXCEPT ![i][t] = "orphan"]
          /\ \E made \in {{}, {i}, container[t]} : container' = [container EXCEPT ![t] = made]
    /\ UNCHANGED <<phase, locked, status, tag, tested, alone, mishaps>>

\* Somebody else makes a container of the name, without the labels ...
StrangerArrives(t) ==
    /\ container[t] = {}
    /\ container' = [container EXCEPT ![t] = {Stranger}]
    /\ UNCHANGED <<phase, locked, step, status, tag, tested, alone, mishaps>>

\* ... and removes it.
StrangerLeaves(t) ==
    /\ container[t] = {Stranger}
    /\ container' = [container EXCEPT ![t] = {}]
    /\ UNCHANGED <<phase, locked, step, status, tag, tested, alone, mishaps>>

-----------------------------------------------------------------------------
MoleculeStep ==
    \/ \E i \in Invocations : Preflight(i) \/ Lock(i) \/ Conclude(i) \/ KillInvocation(i)
    \/ \E i \in Invocations, t \in TestPlatforms :
           \/ RemoveStale(i, t) \/ Pull(i, t) \/ Build(i, t)
           \/ MoleculeTest(i, t) \/ Cleanup(i, t)
           \/ CommandFails(i, t) \/ Orphan(i, t)
    \/ \E t \in TestPlatforms : StrangerArrives(t) \/ StrangerLeaves(t)

\* The steps of a worker or a child before its next look at the name.
Ahead == {"stale", "pull", "build", "destroy", "create", "converge", "final", "cleanup", "orphan"}

ElderAfter(t) ==
    IF container'[t] = {Stranger} THEN elder[t] \cup {i \in Invocations : step'[i][t] \in Ahead} ELSE {}

MoleculeNext == MoleculeStep /\ elder' = [t \in TestPlatforms |-> ElderAfter(t)]

-----------------------------------------------------------------------------
MoleculeTypeOK ==
    /\ phase \in [Invocations -> {"ready", "planned", "running", "passed", "failed", "killed"}]
    /\ locked = {i \in Invocations : phase[i] = "running"}
    /\ container \in [TestPlatforms -> SUBSET (Invocations \cup {Stranger})]
    /\ \A t \in TestPlatforms : Cardinality(container[t]) <= 1 /\ tag[t] \subseteq Invocations
    /\ elder \in [TestPlatforms -> SUBSET Invocations]
    /\ mishaps \in 0 .. MaxMoleculeFaults

\* An invocation that exits 0, alone on the host but for other worktrees of its clone, tested
\* every platform in a container it made itself, of an image built of its own source, and
\* left none of them behind.
GreenIsOwn ==
    \A i \in Invocations : phase[i] = "passed" /\ alone[i] =>
        \A t \in TestPlatforms : tested[i][t] = "own" /\ container[t] # {i}

\* A stranger's container is taken away only by a run whose last look at the name came
\* before it: one that anybody has still to look at is refused, by an orphaned child too,
\* and a run that met it does not pass.  (docs/specs/002-multi-os-molecule-validation.md:192
\* promises it without the exception, which molecule.py:520 and destroy.yml:55 make.)
\* No invocation takes a container from one that runs in a worktree of the same clone.
CollisionsAreRefused == [][
    \A i \in Invocations, t \in TestPlatforms :
        /\ (step[i][t] \in Acts /\ step'[i][t] # step[i][t]
               /\ container[t] # {} /\ container'[t] # container[t]) =>
               /\ container[t] = {Stranger} => i \notin elder[t]
               /\ phase[i] = "running" =>
                      \A j \in locked \ {i} : CloneOf[j] = CloneOf[i] => container[t] # {j}
        /\ i \in elder'[t] /\ step'[i][t] = "done" =>
               status'[i][t] \in {"cleanup-failure", "error"} /\ phase'[i] # "passed"]_moleculeVars

\* What an invocation that was not killed leaves behind, it says: a container of its own is
\* still there only if that platform's cleanup failed.
LeftIsReported ==
    \A i \in Invocations, t \in TestPlatforms :
        container[t] = {i} /\ phase[i] \in {"passed", "failed"} /\ alone[i] =>
            phase[i] = "failed" /\ status[i][t] \in {"cleanup-failure", "error"}

\* The verdict of an invocation says no more than what it did.
VerdictsAreTrue == GreenIsOwn /\ LeftIsReported
=============================================================================
