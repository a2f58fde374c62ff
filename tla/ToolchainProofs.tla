----------------------------- MODULE ToolchainProofs -----------------------------
(***************************************************************************)
(* Proofs about Toolchain, for any numbers of checkouts, preparers, clones *)
(* and invocations, edits and faults.                                      *)
(***************************************************************************)
EXTENDS Toolchain, WellFoundedInduction, FiniteSetTheorems, SequenceTheorems, TLAPS

-----------------------------------------------------------------------------
(* Molecule: whose container and image a verdict is about.                 *)

\* The steps of a worker.
Working == {"stale", "remove", "pull", "build", "destroy", "destroying", "create", "creating", "converge",
            "final", "undoing", "cleanup", "purge", "done"}
Statuses == {"pass", "cleanup-failure", "stage-failure", "error"}
Tests == {"nothing", "own", "foreign"}
Unclean == {"cleanup-failure", "error"}
Makers == Invocations \cup {Stranger}

PhasesTyped ==
    /\ phase \in [Invocations -> {"ready", "planned", "running", "passed", "failed", "killed"}]
    /\ locked \subseteq Invocations
    /\ \A i \in Invocations : i \in locked <=> phase[i] = "running"
    /\ alone \in [Invocations -> BOOLEAN]
    /\ mishaps \in 0 .. MaxMoleculeFaults
StepsTyped ==
    /\ step \in [Invocations -> [TestPlatforms -> Working \cup {"off"} \cup Orphans]]
    /\ status \in [Invocations -> [TestPlatforms -> Statuses]]
OneEach == \A t \in TestPlatforms : \A x, y \in container[t] : x = y
ContainersTyped ==
    /\ container \in [TestPlatforms -> SUBSET Makers] /\ OneEach
    /\ tag \in [TestPlatforms -> SUBSET Invocations]
    /\ tested \in [Invocations -> [TestPlatforms -> Tests]]

MoleculeTyped == PhasesTyped /\ StepsTyped /\ ContainersTyped

\* One run in a clone at a time.
ClonesExclude == \A i, j \in locked : CloneOf[i] = CloneOf[j] => i = j

\* Where an invocation is and what its workers do.
WorkersFit ==
    \A i \in Invocations, t \in TestPlatforms :
        /\ phase[i] = "running" => step[i][t] \in Working
        /\ step[i][t] \in Working \ {"done"} => phase[i] = "running"
        /\ phase[i] \in {"ready", "planned"} => step[i][t] = "off" /\ container[t] # {i}
        /\ step[i][t] \in Orphans => phase[i] = "killed"

\* Beside a run that is alone nothing else touches a container or a tag.
AloneIsAlone ==
    \A i \in Invocations : phase[i] = "running" /\ alone[i] =>
        \A j \in Invocations \ {i} : j \notin locked /\ \A t \in TestPlatforms : step[j][t] \notin Orphans

\* What a run that is alone has behind it, by the step of each worker.
Behind(i, t) ==
    /\ step[i][t] \in {"destroy", "destroying", "create", "creating"} => tag[t] = {i}
    /\ step[i][t] \in {"create", "creating"} => container[t] \in {{}, {Stranger}}
    /\ step[i][t] = "converge" => container[t] = {i}
    /\ step[i][t] \in {"converge", "final", "undoing"} => tested[i][t] = "own"
    /\ step[i][t] \in {"cleanup", "purge", "done"} /\ status[i][t] = "pass" => tested[i][t] = "own"
    /\ step[i][t] = "done" /\ container[t] = {i} => status[i][t] \in Unclean
TestsFit ==
    \A i \in Invocations, t \in TestPlatforms : phase[i] = "running" /\ alone[i] => Behind(i, t)

MoleculeInv ==
    MoleculeTyped /\ ClonesExclude /\ WorkersFit /\ AloneIsAlone /\ TestsFit /\ VerdictsAreTrue

LEMMA MoleculeStarts == MoleculeInit => MoleculeInv
<1> SUFFICES ASSUME MoleculeInit PROVE MoleculeInv
  OBVIOUS
<1> USE MoleculeConstants DEF MoleculeInit
<1>1. PhasesTyped
  BY DEF PhasesTyped
<1>2. StepsTyped
  BY DEF StepsTyped, Working, Statuses
<1>3. container \in [TestPlatforms -> SUBSET Makers]
  BY DEF Makers
<1>4. OneEach
  BY DEF OneEach
<1>5. tag \in [TestPlatforms -> SUBSET Invocations] /\ tested \in [Invocations -> [TestPlatforms -> Tests]]
  BY DEF Tests
<1>6. ClonesExclude /\ AloneIsAlone /\ TestsFit /\ VerdictsAreTrue
  BY DEF ClonesExclude, AloneIsAlone, TestsFit, Behind, VerdictsAreTrue, GreenIsOwn, LeftIsReported
<1>7. WorkersFit
  <2>1. \A i \in Invocations, t \in TestPlatforms : phase[i] = "ready" /\ step[i][t] = "off" /\ container[t] # {i}
    OBVIOUS
  <2> QED
    BY <2>1 DEF WorkersFit, Working, Orphans
<1> QED
  BY <1>1, <1>2, <1>3, <1>4, <1>5, <1>6, <1>7 DEF MoleculeInv, MoleculeTyped, ContainersTyped

-----------------------------------------------------------------------------
(* A worker does something with the container, the image and the result of its platform. *)

WorkerActs(i, t) ==
    \/ RemoveStale(i, t) \/ Pull(i, t) \/ Build(i, t)
    \/ MoleculeTest(i, t) \/ Cleanup(i, t) \/ CommandFails(i, t)

\* Its place and verdict, the container, the image and what was tested after the step.
WorkerShape(i, t, s, v, c, g, x) ==
    /\ s \in Working /\ v \in Statuses /\ x \in Tests
    /\ c \in {container[t], {}, {i}} /\ g \in {tag[t], {i}}
    /\ phase[i] = "running" /\ UNCHANGED <<phase, locked, alone>> /\ mishaps' \in 0 .. MaxMoleculeFaults
    /\ Goes(i, t, s, v)
    /\ container' = [container EXCEPT ![t] = c] /\ tag' = [tag EXCEPT ![t] = g]
    /\ tested' = [tested EXCEPT ![i][t] = x]

\* What is after the step, by itself and for a run that is alone.
WorkerReach(i, t, s, v, c, g, x) ==
    alone[i] =>
        /\ s \in {"destroy", "destroying", "create", "creating"} => g = {i}
        /\ s \in {"create", "creating"} => c \in {{}, {Stranger}}
        /\ s = "converge" => c = {i}
        /\ s \in {"converge", "final", "undoing"} => x = "own"
        /\ s \in {"cleanup", "purge", "done"} /\ v = "pass" => x = "own"
        /\ s = "done" /\ c = {i} => v \in Unclean

LEMMA WorkersMove ==
    ASSUME MoleculeInv, NEW i \in Invocations, NEW t \in TestPlatforms, WorkerActs(i, t)
    PROVE  \E s, v, c, g, x : WorkerShape(i, t, s, v, c, g, x) /\ WorkerReach(i, t, s, v, c, g, x)
<1> DEFINE Goal == \E s, v, c, g, x : WorkerShape(i, t, s, v, c, g, x) /\ WorkerReach(i, t, s, v, c, g, x)
           c0 == container[t]
           g0 == tag[t]
           x0 == tested[i][t]
           Same == container' = container /\ tag' = tag /\ tested' = tested
<1> USE DEF Working, Statuses, Tests, Unclean
<1>1. /\ status[i][t] \in Statuses /\ c0 \in SUBSET Makers /\ g0 \in SUBSET Invocations /\ x0 \in Tests
      /\ i \in Makers /\ mishaps \in 0 .. MaxMoleculeFaults
  BY DEF MoleculeInv, MoleculeTyped, PhasesTyped, StepsTyped, ContainersTyped, Makers
<1>2. /\ container = [container EXCEPT ![t] = c0] /\ tag = [tag EXCEPT ![t] = g0]
      /\ tested = [tested EXCEPT ![i][t] = x0]
  BY DEF MoleculeInv, MoleculeTyped, ContainersTyped
<1>4. phase[i] = "running" /\ alone[i] => Behind(i, t)
  BY DEF MoleculeInv, TestsFit
<1>5. ASSUME NEW s \in Working, NEW v \in Statuses, Command(i, t), Goes(i, t, s, v),
             Same, mishaps' = mishaps, WorkerReach(i, t, s, v, c0, g0, x0)
      PROVE  Goal
  <2>1. WorkerShape(i, t, s, v, c0, g0, x0)
    BY <1>1, <1>2, <1>5 DEF WorkerShape, Command
  <2> QED
    BY <1>5, <2>1
<1>6. ASSUME NEW s \in Working, NEW v \in Statuses, Command(i, t), Goes(i, t, s, v), NEW c \in {c0, {}, {i}},
             container' = [container EXCEPT ![t] = c], tag' = tag, tested' = tested, mishaps' \in 0 .. MaxMoleculeFaults,
             WorkerReach(i, t, s, v, c, g0, x0)
      PROVE  Goal
  <2>1. WorkerShape(i, t, s, v, c, g0, x0)
    BY <1>1, <1>2, <1>6 DEF WorkerShape, Command
  <2> QED
    BY <1>6, <2>1
<1> SUFFICES Goal
  OBVIOUS
<1> HIDE DEF Goal
<1>7. ASSUME NEW here \in {"stale", "cleanup"}, NEW remove \in Working, NEW next \in Working, Inspect(i, t, here, remove, next),
             <<here, remove, next>> \in {<<"stale", "remove", "pull">>, <<"cleanup", "purge", "done">>}
      PROVE  Goal
  <2>1. /\ Command(i, t) /\ phase[i] = "running" /\ step[i][t] = here /\ Same /\ mishaps' = mishaps
        /\ (here = "stale" /\ remove = "remove" /\ next = "pull") \/ (here = "cleanup" /\ remove = "purge" /\ next = "done")
    BY <1>7 DEF Inspect, Command
  <2>2. CASE c0 = {}
    <3>1. Goes(i, t, next, status[i][t])
      BY <1>7, <2>2 DEF Inspect
    <3>2. WorkerReach(i, t, next, status[i][t], c0, g0, x0)
      BY <1>4, <2>1, <2>2 DEF WorkerReach, Behind
    <3> QED
      BY <1>1, <1>5, <2>1, <3>1, <3>2
  <2>3. CASE c0 # {} /\ Labelled(t)
    <3>1. Goes(i, t, remove, status[i][t])
      BY <1>7, <2>3 DEF Inspect
    <3>2. WorkerReach(i, t, remove, status[i][t], c0, g0, x0)
      BY <1>4, <2>1, <2>3 DEF WorkerReach, Behind, Labelled
    <3> QED
      BY <1>1, <1>5, <2>1, <3>1, <3>2
  <2>4. CASE c0 # {} /\ ~Labelled(t)
    <3> DEFINE s == IF here = "stale" THEN "cleanup" ELSE "done"
    <3>1. Goes(i, t, s, "cleanup-failure") /\ s \in {"cleanup", "done"}
      BY <1>7, <2>4 DEF Inspect
    <3> HIDE DEF s
    <3>2. WorkerReach(i, t, s, "cleanup-failure", c0, g0, x0)
      BY <3>1 DEF WorkerReach
    <3> QED
      BY <1>5, <2>1, <3>1, <3>2
  <2> QED
    BY <2>2, <2>3, <2>4
<1>8. ASSUME NEW here \in Working, NEW next \in Working, RemoveNamed(i, t, here, next),
             <<here, next>> \in {<<"remove", "pull">>, <<"purge", "done">>, <<"destroying", "create">>, <<"undoing", "cleanup">>}
      PROVE  Goal
  <2>1. /\ Command(i, t) /\ phase[i] = "running" /\ step[i][t] = here /\ Goes(i, t, next, status[i][t])
        /\ container' = [container EXCEPT ![t] = {}] /\ tag' = tag /\ tested' = tested /\ mishaps' = mishaps
        /\ \/ (here = "remove" /\ next = "pull") \/ (here = "purge" /\ next = "done")
           \/ (here = "destroying" /\ next = "create") \/ (here = "undoing" /\ next = "cleanup")
    BY <1>8 DEF RemoveNamed, Command
  <2>2. WorkerReach(i, t, next, status[i][t], {}, g0, x0)
    BY <1>4, <2>1 DEF WorkerReach, Behind
  <2> QED
    BY <1>1, <1>6, <2>1, <2>2
<1>9. CASE Pull(i, t)
  <2>1. /\ Command(i, t) /\ phase[i] = "running" /\ step[i][t] = "pull" /\ Goes(i, t, "build", status[i][t])
        /\ Same /\ mishaps' = mishaps
    BY <1>9 DEF Pull, Command
  <2>2. WorkerReach(i, t, "build", status[i][t], c0, g0, x0)
    BY <2>1 DEF WorkerReach
  <2> QED
    BY <1>1, <1>5, <2>1, <2>2
<1>10. CASE Build(i, t)
  <2>1. /\ Command(i, t) /\ phase[i] = "running" /\ step[i][t] = "build" /\ Goes(i, t, "destroy", status[i][t])
        /\ tag' = [tag EXCEPT ![t] = {i}] /\ container' = container /\ tested' = tested /\ mishaps' = mishaps
    BY <1>10 DEF Build, Command
  <2>2. WorkerReach(i, t, "destroy", status[i][t], c0, {i}, x0)
    BY <2>1 DEF WorkerReach
  <2>3. WorkerShape(i, t, "destroy", status[i][t], c0, {i}, x0)
    BY <1>1, <1>2, <2>1 DEF WorkerShape, Command
  <2> QED
    BY <2>2, <2>3 DEF Goal
<1>11. ASSUME NEW here \in Working, NEW act \in Working, NEW next \in Working, AssertOwned(i, t, here, act, next),
              <<here, act, next>> \in {<<"destroy", "destroying", "create">>, <<"final", "undoing", "cleanup">>,
                                      <<"create", "creating", "creating">>}
       PROVE  Goal
  <2>1. /\ Command(i, t) /\ phase[i] = "running" /\ step[i][t] = here /\ Same /\ mishaps' = mishaps
        /\ \/ (here = "destroy" /\ act = "destroying" /\ next = "create")
           \/ (here = "final" /\ act = "undoing" /\ next = "cleanup")
           \/ (here = "create" /\ act = "creating" /\ next = "creating")
    BY <1>11 DEF AssertOwned, Command
  <2>2. CASE c0 = {}
    <3>1. Goes(i, t, next, status[i][t])
      BY <1>11, <2>2 DEF AssertOwned
    <3>2. WorkerReach(i, t, next, status[i][t], c0, g0, x0)
      BY <1>4, <2>1, <2>2 DEF WorkerReach, Behind
    <3> QED
      BY <1>1, <1>5, <2>1, <3>1, <3>2
  <2>3. CASE c0 # {} /\ Labelled(t)
    <3>1. Goes(i, t, act, status[i][t])
      BY <1>11, <2>3 DEF AssertOwned
    <3>2. WorkerReach(i, t, act, status[i][t], c0, g0, x0)
      BY <1>4, <2>1, <2>3 DEF WorkerReach, Behind, Labelled
    <3> QED
      BY <1>1, <1>5, <2>1, <3>1, <3>2
  <2>4. CASE c0 # {} /\ ~Labelled(t)
    <3>1. Goes(i, t, "cleanup", "stage-failure")
      BY <1>11, <2>4 DEF AssertOwned
    <3>2. WorkerReach(i, t, "cleanup", "stage-failure", c0, g0, x0)
      BY DEF WorkerReach
    <3> QED
      BY <1>5, <2>1, <3>1, <3>2
  <2> QED
    BY <2>2, <2>3, <2>4
<1>12. CASE Command(i, t) /\ step[i][t] = "creating" /\ Create(i, t)
  <2>1. PICK made \in {{i}, c0} \ {{}, {Stranger}} :
          /\ container' = [container EXCEPT ![t] = made]
          /\ tested' = [tested EXCEPT ![i][t] = IF g0 = {i} THEN "own" ELSE "foreign"]
          /\ Goes(i, t, "converge", status[i][t]) /\ tag' = tag /\ mishaps' = mishaps
    BY <1>12 DEF Create, AssertOwned
  <2> DEFINE x == IF g0 = {i} THEN "own" ELSE "foreign"
  <2>2. phase[i] = "running" /\ x \in Tests
    BY <1>12 DEF Command
  <2>3. alone[i] => made = {i} /\ x = "own"
    BY <1>4, <1>12, <2>1, <2>2 DEF Behind
  <2>4. WorkerReach(i, t, "converge", status[i][t], made, g0, x)
    BY <2>3 DEF WorkerReach
  <2>5. WorkerShape(i, t, "converge", status[i][t], made, g0, x)
    BY <1>1, <1>2, <1>12, <2>1, <2>2 DEF WorkerShape, Command
  <2> QED
    BY <2>4, <2>5 DEF Goal
<1>13. CASE Converge(i, t)
  <2>1. /\ Command(i, t) /\ phase[i] = "running" /\ step[i][t] = "converge" /\ container' = container /\ tag' = tag
        /\ mishaps' = mishaps /\ tested' = [tested EXCEPT ![i][t] = IF c0 = {i} THEN x0 ELSE "foreign"]
    BY <1>13 DEF Converge, Command
  <2> DEFINE x == IF c0 = {i} THEN x0 ELSE "foreign"
  <2>2. PICK s \in {"cleanup", "final"}, v \in {"stage-failure", status[i][t]} :
          Goes(i, t, s, v) /\ (s = "cleanup" => v = "stage-failure")
    BY <1>13 DEF Converge
  <2>3. WorkerReach(i, t, s, v, c0, g0, x)
    BY <1>4, <2>1, <2>2 DEF WorkerReach, Behind
  <2>4. v \in Statuses
    BY <1>1, <2>2
  <2>5. WorkerShape(i, t, s, v, c0, g0, x)
    BY <1>1, <1>2, <2>1, <2>2, <2>4 DEF WorkerShape, Command
  <2> QED
    BY <2>3, <2>5 DEF Goal
<1>14. CASE CommandFails(i, t)
  <2>1. Command(i, t) /\ tag' = tag /\ tested' = tested /\ mishaps < MaxMoleculeFaults /\ mishaps' = mishaps + 1
    BY <1>14 DEF CommandFails
  <2>2. PICK v \in Verdict(step[i][t]) :
          Goes(i, t, IF step[i][t] \in {"cleanup", "purge"} THEN "done" ELSE "cleanup", v)
    BY <1>14 DEF CommandFails
  <2>3. v \in Statuses \ {"pass"} /\ (step[i][t] \in {"cleanup", "purge"} => v \in Unclean)
    BY <2>2 DEF Verdict, Children
  <2>4. PICK s \in {"done", "cleanup"} : Goes(i, t, s, v) /\ (s = "done" => v \in Unclean)
    BY <2>2, <2>3
  <2>5. PICK c \in {c0, {}, {i}} : container' = [container EXCEPT ![t] = c]
    BY <1>2, <1>14 DEF CommandFails
  <2>6. mishaps' \in 0 .. MaxMoleculeFaults
    BY <1>1, <2>1, MoleculeConstants
  <2>7. WorkerReach(i, t, s, v, c, g0, x0)
    BY <2>3, <2>4 DEF WorkerReach
  <2> QED
    BY <1>6, <2>1, <2>3, <2>4, <2>5, <2>6, <2>7
<1> HIDE DEF Working, Statuses, Tests, Unclean
<1>15. {"stale", "remove", "pull", "cleanup", "purge", "done", "destroy", "destroying", "create", "creating",
        "final", "undoing"} \subseteq Working
  BY DEF Working
<1>16. CASE RemoveStale(i, t) \/ Cleanup(i, t)
  BY <1>7, <1>8, <1>15, <1>16 DEF RemoveStale, Cleanup
<1>17. CASE MoleculeTest(i, t)
  <2>1. CASE Create(i, t)
    <3>1. CASE AssertOwned(i, t, "create", "creating", "creating")
      BY <1>11, <1>15, <3>1
    <3>2. CASE ~AssertOwned(i, t, "create", "creating", "creating")
      BY <1>12, <2>1, <3>2 DEF Create
    <3> QED
      BY <3>1, <3>2
  <2>2. CASE Destroy(i, t, "destroy", "destroying", "create") \/ Destroy(i, t, "final", "undoing", "cleanup")
    BY <1>8, <1>11, <1>15, <2>2 DEF Destroy
  <2> QED
    BY <1>13, <1>17, <2>1, <2>2 DEF MoleculeTest
<1> QED
  BY <1>9, <1>10, <1>14, <1>16, <1>17 DEF WorkerActs, Goal

\* A step of a worker keeps the invariant: no other platform and no other invocation
\* changes, and beside it no run is alone.
LEMMA WorkersKeep ==
    ASSUME MoleculeInv, NEW i \in Invocations, NEW t \in TestPlatforms, WorkerActs(i, t)
    PROVE  MoleculeInv'
<1> PICK s, v, c, g, x : WorkerShape(i, t, s, v, c, g, x) /\ WorkerReach(i, t, s, v, c, g, x)
  BY WorkersMove
<1>1. /\ s \in Working /\ v \in Statuses /\ x \in Tests
      /\ c \in {container[t], {}, {i}} /\ g \in {tag[t], {i}}
      /\ phase[i] = "running" /\ phase' = phase /\ locked' = locked /\ alone' = alone
      /\ mishaps' \in 0 .. MaxMoleculeFaults
  BY DEF WorkerShape
<1>2. /\ step' = [step EXCEPT ![i][t] = s] /\ status' = [status EXCEPT ![i][t] = v]
      /\ container' = [container EXCEPT ![t] = c] /\ tag' = [tag EXCEPT ![t] = g]
      /\ tested' = [tested EXCEPT ![i][t] = x]
  BY DEF WorkerShape, Goes
<1>3. PhasesTyped /\ StepsTyped /\ ContainersTyped /\ WorkersFit /\ TestsFit /\ ClonesExclude /\ AloneIsAlone
      /\ GreenIsOwn /\ LeftIsReported
  BY DEF MoleculeInv, MoleculeTyped, VerdictsAreTrue
<1>4. PhasesTyped'
  BY <1>1, <1>3 DEF PhasesTyped
<1>5. StepsTyped'
  <2>1. step' \in [Invocations -> [TestPlatforms -> Working \cup {"off"} \cup Orphans]]
    BY <1>1, <1>2, <1>3 DEF StepsTyped
  <2>2. status' \in [Invocations -> [TestPlatforms -> Statuses]]
    BY <1>1, <1>2, <1>3 DEF StepsTyped
  <2> QED
    BY <2>1, <2>2 DEF StepsTyped
<1>6. \A j \in Invocations, u \in TestPlatforms :
        /\ step'[j][u] = IF j = i /\ u = t THEN s ELSE step[j][u]
        /\ status'[j][u] = IF j = i /\ u = t THEN v ELSE status[j][u]
        /\ tested'[j][u] = IF j = i /\ u = t THEN x ELSE tested[j][u]
        /\ container'[u] = IF u = t THEN c ELSE container[u]
        /\ tag'[u] = IF u = t THEN g ELSE tag[u]
  BY <1>2, <1>3 DEF StepsTyped, ContainersTyped
<1>7. ContainersTyped'
  <2>1. c \in SUBSET Makers /\ g \in SUBSET Invocations
    BY <1>1, <1>3 DEF ContainersTyped, Makers
  <2>2. container' \in [TestPlatforms -> SUBSET Makers] /\ tag' \in [TestPlatforms -> SUBSET Invocations]
    BY <1>2, <1>3, <2>1 DEF ContainersTyped
  <2>3. tested' \in [Invocations -> [TestPlatforms -> Tests]]
    BY <1>1, <1>2, <1>3 DEF ContainersTyped
  <2>4. \A y, z \in c : y = z
    BY <1>1, <1>3 DEF ContainersTyped, OneEach
  <2>5. OneEach'
    BY <1>3, <1>6, <2>4 DEF ContainersTyped, OneEach
  <2> QED
    BY <2>2, <2>3, <2>5 DEF ContainersTyped
<1>8. ClonesExclude'
  BY <1>1, <1>3 DEF ClonesExclude
<1>9. AloneIsAlone'
  <2>1. s \notin Orphans
    BY <1>1 DEF Working, Orphans
  <2> QED
    BY <1>1, <1>3, <1>6, <2>1 DEF AloneIsAlone
<1>10. WorkersFit'
  <2> SUFFICES ASSUME NEW j \in Invocations, NEW u \in TestPlatforms
               PROVE  /\ phase[j] = "running" => step'[j][u] \in Working
                      /\ step'[j][u] \in Working \ {"done"} => phase[j] = "running"
                      /\ phase[j] \in {"ready", "planned"} => step'[j][u] = "off" /\ container'[u] # {j}
                      /\ step'[j][u] \in Orphans => phase[j] = "killed"
    BY <1>1 DEF WorkersFit
  <2>1. /\ phase[j] = "running" => step[j][u] \in Working
        /\ step[j][u] \in Working \ {"done"} => phase[j] = "running"
        /\ phase[j] \in {"ready", "planned"} => step[j][u] = "off" /\ container[u] # {j}
        /\ step[j][u] \in Orphans => phase[j] = "killed"
    BY <1>3 DEF WorkersFit
  <2>2. {i} # {Stranger} /\ {} # {j} /\ {} # {Stranger} /\ (i # j => {i} # {j}) /\ s \notin {"off"} \cup Orphans
    BY <1>1, MoleculeConstants DEF Working, Orphans
  <2>3. CASE j = i /\ u = t
    BY <1>1, <1>6, <2>1, <2>2, <2>3 DEF WorkerReach
  <2>4. CASE ~(j = i /\ u = t)
    <3>1. step'[j][u] = step[j][u] /\ (container'[u] = container[u] \/ container'[u] \in {{}, {i}})
      BY <1>1, <1>6, <2>4
    <3> QED
      BY <1>1, <2>1, <2>2, <3>1
  <2> QED
    BY <2>3, <2>4
<1>11. \A j \in Invocations : phase[j] = "running" /\ alone[j] => j = i
  BY <1>1, <1>3 DEF AloneIsAlone, PhasesTyped
<1>12. TestsFit'
  <2> SUFFICES ASSUME NEW u \in TestPlatforms, alone[i] PROVE Behind(i, u)'
    BY <1>1, <1>11 DEF TestsFit
  <2>1. CASE u = t
    <3>1. step'[i][t] = s /\ status'[i][t] = v /\ tested'[i][t] = x /\ container'[t] = c /\ tag'[t] = g
      BY <1>6
    <3> QED
      BY <2>1, <3>1 DEF WorkerReach, Behind
  <2>2. CASE u # t
    <3>1. /\ step'[i][u] = step[i][u] /\ status'[i][u] = status[i][u] /\ tested'[i][u] = tested[i][u]
          /\ container'[u] = container[u] /\ tag'[u] = tag[u]
      BY <1>6, <2>2
    <3>2. Behind(i, u)
      BY <1>1, <1>3 DEF TestsFit
    <3> QED
      BY <3>1, <3>2 DEF Behind
  <2> QED
    BY <2>1, <2>2
<1>13. \A j \in Invocations, u \in TestPlatforms : phase[j] # "running" =>
         /\ tested'[j][u] = tested[j][u] /\ status'[j][u] = status[j][u]
         /\ container'[u] = {j} => container[u] = {j}
  <2> SUFFICES ASSUME NEW j \in Invocations, NEW u \in TestPlatforms, phase[j] # "running"
               PROVE  /\ tested'[j][u] = tested[j][u] /\ status'[j][u] = status[j][u]
                      /\ container'[u] = {j} => container[u] = {j}
    OBVIOUS
  <2>1. j # i
    BY <1>1
  <2>2. tested'[j][u] = tested[j][u] /\ status'[j][u] = status[j][u]
    BY <1>6, <2>1
  <2>3. container'[u] \in {container[u], {}, {i}}
    BY <1>1, <1>6
  <2> QED
    BY <2>1, <2>2, <2>3
<1>14. VerdictsAreTrue'
  BY <1>1, <1>3, <1>13 DEF VerdictsAreTrue, GreenIsOwn, LeftIsReported
<1> QED
  BY <1>4, <1>5, <1>7, <1>8, <1>9, <1>10, <1>12, <1>14 DEF MoleculeInv, MoleculeTyped

-----------------------------------------------------------------------------
(* The invocation itself, children that outlive their runner, and strangers. *)

\* A run that started no worker may leave.
LEMMA IdleLeaves ==
    ASSUME WorkersFit, PhasesTyped, NEW i \in Invocations, NEW p \in {"planned", "failed"},
           \A t \in TestPlatforms : step[i][t] = "off" /\ container[t] # {i},
           \A j \in Invocations : phase'[j] = IF j = i THEN p ELSE phase[j],
           step' = step, container' = container
    PROVE  WorkersFit'
<1> SUFFICES ASSUME NEW j \in Invocations, NEW t \in TestPlatforms
             PROVE  /\ phase'[j] = "running" => step[j][t] \in Working
                    /\ step[j][t] \in Working \ {"done"} => phase'[j] = "running"
                    /\ phase'[j] \in {"ready", "planned"} => step[j][t] = "off" /\ container[t] # {j}
                    /\ step[j][t] \in Orphans => phase'[j] = "killed"
  BY DEF WorkersFit
<1>1. CASE j = i
  BY <1>1 DEF Working, Orphans
<1>2. CASE j # i
  BY <1>2 DEF WorkersFit
<1> QED
  BY <1>1, <1>2

LEMMA PreflightKeeps == ASSUME MoleculeInv, NEW i \in Invocations, Preflight(i) PROVE MoleculeInv'
<1>1. PICK p \in {"planned", "failed"}, m \in 0 .. MaxMoleculeFaults :
        /\ phase[i] = "ready" /\ phase' = [phase EXCEPT ![i] = p] /\ mishaps' = m
        /\ UNCHANGED <<locked, step, status, container, tag, tested, alone>>
  BY MoleculeConstants DEF Preflight, MoleculeInv, MoleculeTyped, PhasesTyped
<1>2. PhasesTyped /\ WorkersFit /\ GreenIsOwn /\ LeftIsReported
  BY DEF MoleculeInv, MoleculeTyped, VerdictsAreTrue
<1>3. \A j \in Invocations : phase'[j] = IF j = i THEN p ELSE phase[j]
  BY <1>1, <1>2 DEF PhasesTyped
<1>4. PhasesTyped'
  BY <1>1, <1>2, <1>3 DEF PhasesTyped
<1>5. StepsTyped' /\ ContainersTyped' /\ ClonesExclude'
  BY <1>1 DEF MoleculeInv, MoleculeTyped, StepsTyped, ContainersTyped, OneEach, ClonesExclude
<1>6. \A t \in TestPlatforms : step[i][t] = "off" /\ container[t] # {i}
  BY <1>1, <1>2 DEF WorkersFit
<1>7. WorkersFit'
  BY <1>1, <1>2, <1>3, <1>6, IdleLeaves
<1>8. AloneIsAlone'
  BY <1>1, <1>3 DEF MoleculeInv, AloneIsAlone
<1>9. TestsFit'
  BY <1>1, <1>3 DEF MoleculeInv, TestsFit, Behind
<1>10. VerdictsAreTrue'
  BY <1>1, <1>2, <1>3, <1>6 DEF VerdictsAreTrue, GreenIsOwn, LeftIsReported
<1> QED
  BY <1>4, <1>5, <1>7, <1>8, <1>9, <1>10 DEF MoleculeInv, MoleculeTyped

LEMMA LockKeeps == ASSUME MoleculeInv, NEW i \in Invocations, Lock(i) PROVE MoleculeInv'
<1>1. /\ PhasesTyped /\ StepsTyped /\ ContainersTyped /\ ClonesExclude /\ WorkersFit /\ AloneIsAlone /\ TestsFit
      /\ GreenIsOwn /\ LeftIsReported
  BY DEF MoleculeInv, MoleculeTyped, VerdictsAreTrue
<1>2. phase[i] = "planned" /\ UNCHANGED <<status, container, tag, tested, mishaps>>
  BY DEF Lock
<1>3. \A t \in TestPlatforms : step[i][t] = "off" /\ container[t] # {i}
  BY <1>1, <1>2 DEF WorkersFit
<1>4. ContainersTyped'
  BY <1>1, <1>2 DEF ContainersTyped, OneEach
<1>5. CASE \E j \in Invocations : Holds(i, j)
  <2>1. phase' = [phase EXCEPT ![i] = "failed"] /\ UNCHANGED <<locked, step, alone>>
    BY <1>5 DEF Lock
  <2>2. \A j \in Invocations : phase'[j] = IF j = i THEN "failed" ELSE phase[j]
    BY <1>1, <2>1 DEF PhasesTyped
  <2>3. PhasesTyped'
    BY <1>1, <1>2, <2>1, <2>2 DEF PhasesTyped
  <2>4. StepsTyped' /\ ClonesExclude'
    BY <1>1, <1>2, <2>1 DEF StepsTyped, ClonesExclude
  <2>5. WorkersFit'
    BY <1>1, <1>2, <1>3, <2>1, <2>2, IdleLeaves
  <2>6. AloneIsAlone'
    BY <1>1, <2>1, <2>2 DEF AloneIsAlone
  <2>7. TestsFit'
    BY <1>1, <1>2, <2>1, <2>2 DEF TestsFit, Behind
  <2>8. VerdictsAreTrue'
    BY <1>1, <1>2, <1>3, <2>1, <2>2 DEF VerdictsAreTrue, GreenIsOwn, LeftIsReported
  <2> QED
    BY <1>4, <2>3, <2>4, <2>5, <2>6, <2>7, <2>8 DEF MoleculeInv, MoleculeTyped
<1>6. CASE ~\E j \in Invocations : Holds(i, j)
  <2>1. /\ locked' = locked \cup {i} /\ phase' = [phase EXCEPT ![i] = "running"]
        /\ step' = [step EXCEPT ![i] = [t \in TestPlatforms |-> "stale"]]
        /\ alone' = [j \in Invocations |-> IF j = i THEN Others(i) = {} ELSE alone[j] /\ j \notin Others(i)]
    BY <1>6 DEF Lock, Starts
  <2>2. \A j \in Invocations :
          /\ phase'[j] = IF j = i THEN "running" ELSE phase[j]
          /\ step'[j] = IF j = i THEN [t \in TestPlatforms |-> "stale"] ELSE step[j]
          /\ alone'[j] = IF j = i THEN Others(i) = {} ELSE alone[j] /\ j \notin Others(i)
    BY <1>1, <2>1 DEF PhasesTyped, StepsTyped
  <2>3. PhasesTyped'
    <3>1. alone' \in [Invocations -> BOOLEAN]
      BY <1>1, <2>1 DEF PhasesTyped
    <3> QED
      BY <1>1, <1>2, <2>1, <2>2, <3>1 DEF PhasesTyped
  <2>4. StepsTyped'
    BY <1>1, <1>2, <2>1 DEF StepsTyped, Working
  <2>5. \A j \in locked : CloneOf[j] # CloneOf[i] /\ j # i
    BY <1>1, <1>2, <1>6 DEF PhasesTyped, Holds
  <2>6. ClonesExclude'
    BY <1>1, <2>1, <2>5 DEF ClonesExclude
  <2>7. WorkersFit'
    <3> SUFFICES ASSUME NEW j \in Invocations, NEW t \in TestPlatforms
                 PROVE  /\ phase'[j] = "running" => step'[j][t] \in Working
                        /\ step'[j][t] \in Working \ {"done"} => phase'[j] = "running"
                        /\ phase'[j] \in {"ready", "planned"} => step'[j][t] = "off" /\ container[t] # {j}
                        /\ step'[j][t] \in Orphans => phase'[j] = "killed"
      BY <1>2 DEF WorkersFit
    <3>1. CASE j = i
      BY <2>2, <3>1 DEF Working, Orphans
    <3>2. CASE j # i
      BY <1>1, <2>2, <3>2 DEF WorkersFit
    <3> QED
      BY <3>1, <3>2
  <2>8. AloneIsAlone'
    <3> SUFFICES ASSUME NEW j \in Invocations, phase'[j] = "running", alone'[j], NEW k \in Invocations \ {j}
                 PROVE  k \notin locked' /\ \A t \in TestPlatforms : step'[k][t] \notin Orphans
      BY DEF AloneIsAlone
    <3>1. CASE j = i
      <4>1. k \notin Others(i) /\ step'[k] = step[k] /\ k # i
        BY <2>2, <3>1
      <4> QED
        BY <2>1, <2>5, <3>1, <4>1 DEF Others
    <3>2. CASE j # i
      <4>1. phase[j] = "running" /\ alone[j] /\ j \notin Others(i)
        BY <2>2, <3>2
      <4>2. j \in locked
        BY <1>1, <4>1 DEF PhasesTyped
      <4>3. j \in Others(i)
        BY <2>5, <3>2, <4>2 DEF Others
      <4> QED
        BY <4>1, <4>3
    <3> QED
      BY <3>1, <3>2
  <2>9. TestsFit'
    <3> SUFFICES ASSUME NEW j \in Invocations, NEW t \in TestPlatforms, phase'[j] = "running", alone'[j]
                 PROVE  Behind(j, t)'
      BY DEF TestsFit
    <3>1. CASE j = i
      BY <2>2, <3>1 DEF Behind
    <3>2. CASE j # i
      <4>1. phase[j] = "running" /\ alone[j] /\ step'[j] = step[j]
        BY <2>2, <3>2
      <4> QED
        BY <1>1, <1>2, <4>1 DEF TestsFit, Behind
    <3> QED
      BY <3>1, <3>2
  <2>10. VerdictsAreTrue'
    <3>1. \A j \in Invocations : phase'[j] \in {"passed", "failed"} /\ alone'[j] => phase[j] = phase'[j] /\ alone[j]
      BY <2>2
    <3> QED
      BY <1>1, <1>2, <3>1 DEF VerdictsAreTrue, GreenIsOwn, LeftIsReported
  <2> QED
    BY <1>4, <2>3, <2>4, <2>6, <2>7, <2>8, <2>9, <2>10 DEF MoleculeInv, MoleculeTyped
<1> QED
  BY <1>5, <1>6

LEMMA EndKeeps ==
    ASSUME MoleculeInv, NEW i \in Invocations, Conclude(i) \/ KillInvocation(i)
    PROVE  MoleculeInv'
<1>1. /\ PhasesTyped /\ StepsTyped /\ ContainersTyped /\ ClonesExclude /\ WorkersFit /\ AloneIsAlone /\ TestsFit
      /\ GreenIsOwn /\ LeftIsReported
  BY DEF MoleculeInv, MoleculeTyped, VerdictsAreTrue
<1>2. /\ phase[i] \in {"planned", "running"} /\ locked' = locked \ {i} /\ mishaps' \in 0 .. MaxMoleculeFaults
      /\ UNCHANGED <<container, tag, alone>>
  <2>1. mishaps \in 0 .. MaxMoleculeFaults /\ MaxMoleculeFaults \in Nat
    BY <1>1, MoleculeConstants DEF PhasesTyped
  <2>2. CASE Conclude(i)
    BY <2>1, <2>2 DEF Conclude
  <2>3. CASE KillInvocation(i)
    <3>1. mishaps < MaxMoleculeFaults /\ mishaps' = mishaps + 1
      BY <2>3 DEF KillInvocation
    <3>2. mishaps' \in 0 .. MaxMoleculeFaults
      BY <2>1, <3>1
    <3> QED
      BY <2>3, <3>2 DEF KillInvocation
  <2> QED
    BY <2>2, <2>3
<1>3. PICK p \in {"passed", "failed", "killed"} :
        /\ phase' = [phase EXCEPT ![i] = p]
        /\ p # "killed" => Conclude(i)
        /\ p = "passed" => \A t \in TestPlatforms : status[i][t] = "pass"
        /\ p = "killed" => KillInvocation(i)
  <2>1. CASE KillInvocation(i)
    BY <2>1 DEF KillInvocation
  <2>2. CASE Conclude(i)
    BY <2>2 DEF Conclude
  <2> QED
    BY <2>1, <2>2
<1>4. p # "killed" => step' = step /\ status' = status /\ tested' = tested /\ phase[i] = "running" /\ \A t \in TestPlatforms : step[i][t] = "done"
  BY <1>3 DEF Conclude
<1>5. \A j \in Invocations : phase'[j] = IF j = i THEN p ELSE phase[j]
  BY <1>1, <1>3 DEF PhasesTyped
<1>6. /\ \A j \in Invocations \ {i}, t \in TestPlatforms :
             step'[j][t] = step[j][t] /\ status'[j][t] = status[j][t] /\ tested'[j][t] = tested[j][t]
      /\ \A t \in TestPlatforms :
             /\ p # "killed" => step'[i][t] = "done" /\ status'[i][t] = status[i][t] /\ tested'[i][t] = tested[i][t]
             /\ p = "killed" => step'[i][t] \in {"off"} \cup Orphans
             /\ step[i][t] = "off" => step'[i][t] \notin Orphans
      /\ StepsTyped' /\ tested' \in [Invocations -> [TestPlatforms -> Tests]]
  <2>1. CASE p # "killed"
    BY <1>1, <1>4, <2>1 DEF StepsTyped, ContainersTyped
  <2>2. CASE p = "killed"
    <3>1. KillInvocation(i)
      BY <1>3, <2>2
    <3> DEFINE left == [t \in TestPlatforms |->
                 IF step[i][t] \notin Children THEN "off" ELSE IF step[i][t] \in Acts THEN "orphan acts" ELSE "orphan"]
    <3>2. /\ step' = [step EXCEPT ![i] = left]
          /\ status' = [status EXCEPT ![i] = [t \in TestPlatforms |-> "pass"]]
          /\ tested' = [tested EXCEPT ![i] = [t \in TestPlatforms |-> "nothing"]]
      BY <1>1, <3>1 DEF KillInvocation, StepsTyped
    <3>3. /\ left \in [TestPlatforms -> {"off"} \cup Orphans]
          /\ \A t \in TestPlatforms : step[i][t] = "off" => left[t] = "off"
      BY DEF Orphans, Children
    <3> HIDE DEF left
    <3>4. StepsTyped' /\ tested' \in [Invocations -> [TestPlatforms -> Tests]]
      BY <1>1, <3>2, <3>3 DEF StepsTyped, ContainersTyped, Statuses, Tests
    <3>5. \A t \in TestPlatforms : step'[i][t] = left[t] /\ \A j \in Invocations \ {i} :
             step'[j][t] = step[j][t] /\ status'[j][t] = status[j][t] /\ tested'[j][t] = tested[j][t]
      BY <1>1, <3>2 DEF StepsTyped, ContainersTyped
    <3> QED
      BY <2>2, <3>3, <3>4, <3>5 DEF Orphans
  <2> QED
    BY <2>1, <2>2
<1>7. PhasesTyped'
  BY <1>1, <1>2, <1>3, <1>5 DEF PhasesTyped
<1>8. StepsTyped'
  BY <1>6
<1>9. ContainersTyped' /\ ClonesExclude'
  BY <1>1, <1>2, <1>6 DEF ContainersTyped, OneEach, ClonesExclude
<1>10. WorkersFit'
  <2> SUFFICES ASSUME NEW j \in Invocations, NEW t \in TestPlatforms
               PROVE  /\ phase'[j] = "running" => step'[j][t] \in Working
                      /\ step'[j][t] \in Working \ {"done"} => phase'[j] = "running"
                      /\ phase'[j] \in {"ready", "planned"} => step'[j][t] = "off" /\ container[t] # {j}
                      /\ step'[j][t] \in Orphans => phase'[j] = "killed"
    BY <1>2 DEF WorkersFit
  <2>1. CASE j = i
    BY <1>3, <1>5, <1>6, <2>1 DEF Working, Orphans
  <2>2. CASE j # i
    BY <1>1, <1>5, <1>6, <2>2 DEF WorkersFit
  <2> QED
    BY <2>1, <2>2
<1>11. AloneIsAlone'
  <2> SUFFICES ASSUME NEW j \in Invocations, phase'[j] = "running", alone[j], NEW k \in Invocations \ {j}
               PROVE  k \notin locked' /\ \A t \in TestPlatforms : step'[k][t] \notin Orphans
    BY <1>2 DEF AloneIsAlone
  <2>1. phase[j] = "running" /\ j # i
    BY <1>5
  <2>2. k \notin locked /\ \A t \in TestPlatforms : step[k][t] \notin Orphans
    BY <1>1, <2>1 DEF AloneIsAlone
  <2>3. CASE k = i
    <3>1. phase[i] = "planned"
      BY <1>1, <1>2, <2>2, <2>3 DEF PhasesTyped
    <3>2. \A t \in TestPlatforms : step[i][t] = "off"
      BY <1>1, <3>1 DEF WorkersFit
    <3> QED
      BY <1>2, <1>6, <2>2, <2>3, <3>2
  <2>4. CASE k # i
    BY <1>2, <1>6, <2>2, <2>4
  <2> QED
    BY <2>3, <2>4
<1>12. TestsFit'
  <2> SUFFICES ASSUME NEW j \in Invocations, NEW t \in TestPlatforms, phase'[j] = "running", alone[j] PROVE Behind(j, t)'
    BY <1>2 DEF TestsFit
  <2>1. /\ phase[j] = "running" /\ step'[j][t] = step[j][t]
        /\ status'[j][t] = status[j][t] /\ tested'[j][t] = tested[j][t]
    BY <1>5, <1>6
  <2> QED
    BY <1>1, <1>2, <2>1 DEF TestsFit, Behind
<1>13. VerdictsAreTrue'
  <2> SUFFICES ASSUME NEW j \in Invocations, NEW t \in TestPlatforms, alone[j]
               PROVE  /\ phase'[j] = "passed" => tested'[j][t] = "own" /\ container[t] # {j}
                      /\ container[t] = {j} /\ phase'[j] \in {"passed", "failed"} => phase'[j] = "failed" /\ status'[j][t] \in Unclean
    BY <1>2 DEF VerdictsAreTrue, GreenIsOwn, LeftIsReported, Unclean
  <2>1. CASE j = i
    <3>1. p # "killed" => Behind(i, t) /\ step[i][t] = "done"
      BY <1>1, <1>4, <2>1 DEF TestsFit
    <3>2. "pass" \notin Unclean
      BY DEF Unclean
    <3> QED
      BY <1>3, <1>4, <1>5, <2>1, <3>1, <3>2 DEF Behind
  <2>2. CASE j # i
    BY <1>1, <1>5, <1>6, <2>2 DEF GreenIsOwn, LeftIsReported, Unclean
  <2> QED
    BY <2>1, <2>2
<1> QED
  BY <1>7, <1>8, <1>9, <1>10, <1>11, <1>12, <1>13 DEF MoleculeInv, MoleculeTyped

\* Where no run is alone, or nothing of a run is left, a container may come and go.
LEMMA OthersKeep ==
    ASSUME MoleculeInv, NEW t \in TestPlatforms,
           (\E i \in Invocations : Orphan(i, t)) \/ StrangerArrives(t) \/ StrangerLeaves(t)
    PROVE  MoleculeInv'
<1>1. /\ PhasesTyped /\ StepsTyped /\ ContainersTyped /\ ClonesExclude /\ WorkersFit /\ AloneIsAlone /\ TestsFit
      /\ GreenIsOwn /\ LeftIsReported
  BY DEF MoleculeInv, MoleculeTyped, VerdictsAreTrue
<1>2. CASE StrangerArrives(t) \/ StrangerLeaves(t)
  <2>1. PICK c \in {{}, {Stranger}} :
          /\ container[t] \in {{}, {Stranger}} /\ container' = [container EXCEPT ![t] = c]
          /\ UNCHANGED <<phase, locked, step, status, tag, tested, alone, mishaps>>
    BY <1>2 DEF StrangerArrives, StrangerLeaves
  <2>2. \A u \in TestPlatforms : container'[u] = IF u = t THEN c ELSE container[u]
    BY <1>1, <2>1 DEF ContainersTyped
  <2>3. PhasesTyped' /\ StepsTyped' /\ ClonesExclude' /\ AloneIsAlone'
    BY <1>1, <2>1 DEF PhasesTyped, StepsTyped, ClonesExclude, AloneIsAlone
  <2>4. ContainersTyped'
    <3>1. c \in SUBSET Makers
      BY DEF Makers
    <3> QED
      BY <1>1, <2>1, <2>2, <3>1 DEF ContainersTyped, OneEach
  <2>5. \A i \in Invocations : {i} # {} /\ {i} # {Stranger}
    BY MoleculeConstants
  <2>6. WorkersFit'
    BY <1>1, <2>1, <2>2, <2>5 DEF WorkersFit
  <2>7. TestsFit'
    BY <1>1, <2>1, <2>2, <2>5 DEF TestsFit, Behind
  <2>8. VerdictsAreTrue'
    BY <1>1, <2>1, <2>2, <2>5 DEF VerdictsAreTrue, GreenIsOwn, LeftIsReported
  <2> QED
    BY <2>3, <2>4, <2>6, <2>7, <2>8 DEF MoleculeInv, MoleculeTyped
<1>3. ASSUME NEW i \in Invocations, Orphan(i, t) PROVE MoleculeInv'
  <2>1. step[i][t] \in Orphans /\ UNCHANGED <<phase, locked, status, tag, tested, alone, mishaps>>
    BY <1>3 DEF Orphan, Orphans
  <2>2. PICK s \in {"off"} \cup Orphans, c \in {container[t], {}, {i}} :
          step' = [step EXCEPT ![i][t] = s] /\ container' = [container EXCEPT ![t] = c]
    <3>1. container = [container EXCEPT ![t] = container[t]]
      BY <1>1, <2>1 DEF ContainersTyped
    <3> QED
      BY <1>3, <3>1 DEF Orphan, Orphans
  <2>3. /\ \A j \in Invocations, u \in TestPlatforms : step'[j][u] = IF j = i /\ u = t THEN s ELSE step[j][u]
        /\ \A u \in TestPlatforms : container'[u] = IF u = t THEN c ELSE container[u]
    BY <1>1, <2>2 DEF StepsTyped, ContainersTyped
  <2>4. phase[i] = "killed" /\ \A j \in Invocations : phase[j] = "running" => ~alone[j]
    BY <1>1, <2>1 DEF WorkersFit, AloneIsAlone
  <2>5. PhasesTyped' /\ ClonesExclude'
    BY <1>1, <2>1 DEF PhasesTyped, ClonesExclude
  <2>6. StepsTyped'
    BY <1>1, <2>1, <2>2 DEF StepsTyped
  <2>7. ContainersTyped'
    <3>1. c \in SUBSET Makers /\ \A y, z \in c : y = z
      BY <1>1, <2>2 DEF ContainersTyped, OneEach, Makers
    <3>2. container' \in [TestPlatforms -> SUBSET Makers]
      BY <1>1, <2>2, <3>1 DEF ContainersTyped
    <3>3. OneEach'
      BY <1>1, <2>3, <3>1 DEF ContainersTyped, OneEach
    <3> QED
      BY <1>1, <2>1, <3>2, <3>3 DEF ContainersTyped
  <2>8. AloneIsAlone' /\ TestsFit'
    BY <2>1, <2>4 DEF AloneIsAlone, TestsFit
  <2>9. WorkersFit'
    <3> SUFFICES ASSUME NEW j \in Invocations, NEW u \in TestPlatforms
                 PROVE  /\ phase[j] = "running" => step'[j][u] \in Working
                        /\ step'[j][u] \in Working \ {"done"} => phase[j] = "running"
                        /\ phase[j] \in {"ready", "planned"} => step'[j][u] = "off" /\ container'[u] # {j}
                        /\ step'[j][u] \in Orphans => phase[j] = "killed"
      BY <2>1 DEF WorkersFit
    <3>1. /\ phase[j] = "running" => step[j][u] \in Working
          /\ step[j][u] \in Working \ {"done"} => phase[j] = "running"
          /\ phase[j] \in {"ready", "planned"} => step[j][u] = "off" /\ container[u] # {j}
          /\ step[j][u] \in Orphans => phase[j] = "killed"
      BY <1>1 DEF WorkersFit
    <3>2. {i} # {Stranger} /\ {} # {j} /\ {} # {Stranger} /\ (i # j => {i} # {j}) /\ s \notin Working
      BY <2>2, MoleculeConstants DEF Working, Orphans
    <3>3. CASE j = i
      <4>1. step'[i][u] \in {s, step[i][u]}
        BY <2>3
      <4> QED
        BY <2>4, <3>1, <3>2, <3>3, <4>1
    <3>4. CASE j # i
      <4>1. step'[j][u] = step[j][u] /\ container'[u] \in {container[u], {}, {i}}
        BY <2>2, <2>3, <3>4
      <4> QED
        BY <3>1, <3>2, <3>4, <4>1
    <3> QED
      BY <3>3, <3>4
  <2>10. \A j \in Invocations, u \in TestPlatforms : phase[j] \in {"passed", "failed"} /\ container'[u] = {j} => container[u] = {j}
    BY <2>2, <2>3, <2>4
  <2>11. VerdictsAreTrue'
    BY <1>1, <2>1, <2>10 DEF VerdictsAreTrue, GreenIsOwn, LeftIsReported
  <2> QED
    BY <2>5, <2>6, <2>7, <2>8, <2>9, <2>11 DEF MoleculeInv, MoleculeTyped
<1> QED
  BY <1>2, <1>3

LEMMA MoleculeKeeps == MoleculeInv /\ [MoleculeNext]_moleculeVars => MoleculeInv'
<1> SUFFICES ASSUME MoleculeInv, [MoleculeNext]_moleculeVars PROVE MoleculeInv'
  OBVIOUS
<1>1. ASSUME NEW i \in Invocations, Preflight(i) \/ Lock(i) \/ Conclude(i) \/ KillInvocation(i) PROVE MoleculeInv'
  BY <1>1, PreflightKeeps, LockKeeps, EndKeeps
<1>2. ASSUME NEW i \in Invocations, NEW t \in TestPlatforms, WorkerActs(i, t) \/ Orphan(i, t) PROVE MoleculeInv'
  BY <1>2, WorkersKeep, OthersKeep
<1>3. ASSUME NEW t \in TestPlatforms, StrangerArrives(t) \/ StrangerLeaves(t) PROVE MoleculeInv'
  BY <1>3, OthersKeep
<1>4. CASE UNCHANGED moleculeVars
  <2>1. UNCHANGED <<phase, locked, step, status, container, tag, tested, alone, mishaps>>
    BY <1>4 DEF moleculeVars
  <2>2. (PhasesTyped /\ StepsTyped /\ ContainersTyped /\ ClonesExclude)'
    BY <2>1 DEF MoleculeInv, MoleculeTyped, PhasesTyped, StepsTyped, ContainersTyped, OneEach, ClonesExclude
  <2>3. (WorkersFit /\ AloneIsAlone)'
    BY <2>1 DEF MoleculeInv, WorkersFit, AloneIsAlone
  <2>4. TestsFit'
    BY <2>1 DEF MoleculeInv, TestsFit, Behind
  <2>5. VerdictsAreTrue'
    BY <2>1 DEF MoleculeInv, VerdictsAreTrue, GreenIsOwn, LeftIsReported
  <2> QED
    BY <2>2, <2>3, <2>4, <2>5 DEF MoleculeInv, MoleculeTyped
<1> QED
  BY <1>1, <1>2, <1>3, <1>4 DEF MoleculeNext, MoleculeStep, WorkerActs

-----------------------------------------------------------------------------
(* Whoever has a look ahead at a name that a stranger's container has, is refused. *)

\* A stranger's container stays as long as anybody is known to have met it; who met it does
\* not act on the name, and its worker ends with a failure.
EldersFit ==
    /\ elder \in [TestPlatforms -> SUBSET Invocations]
    /\ \A t \in TestPlatforms : \A i \in elder[t] :
         /\ container[t] = {Stranger} /\ step[i][t] \notin Acts
         /\ step[i][t] = "done" => status[i][t] \in Unclean

\* A run passes with the results of all its workers.
PassesFit == \A i \in Invocations, t \in TestPlatforms : phase[i] = "passed" => status[i][t] = "pass"

\* Who changes the step and the status of a worker, and the phase of its run.
LEMMA OwnSteps ==
    ASSUME MoleculeInv, MoleculeStep, NEW i \in Invocations, NEW t \in TestPlatforms
    PROVE  \/ /\ step'[i][t] = step[i][t] /\ status'[i][t] = status[i][t]
              /\ phase'[i] = "passed" => phase[i] = "passed" \/ status[i][t] = "pass"
           \/ step'[i][t] = "stale" /\ phase'[i] = "running"
           \/ KillInvocation(i) \/ Orphan(i, t) \/ WorkerActs(i, t)
<1> DEFINE Same == /\ step'[i][t] = step[i][t] /\ status'[i][t] = status[i][t]
                   /\ phase'[i] = "passed" => phase[i] = "passed" \/ status[i][t] = "pass"
<1>1. PhasesTyped /\ StepsTyped
  BY DEF MoleculeInv, MoleculeTyped
<1>2. ASSUME NEW j \in Invocations, Preflight(j) PROVE Same
  BY <1>1, <1>2 DEF Preflight, PhasesTyped
<1>3. ASSUME NEW j \in Invocations, Lock(j) PROVE Same \/ (step'[i][t] = "stale" /\ phase'[i] = "running")
  <2>1. CASE \E k \in Invocations : Holds(j, k)
    BY <1>1, <1>3, <2>1 DEF Lock, PhasesTyped
  <2>2. CASE ~\E k \in Invocations : Holds(j, k)
    <3>1. /\ step' = [step EXCEPT ![j] = [u \in TestPlatforms |-> "stale"]]
          /\ phase' = [phase EXCEPT ![j] = "running"] /\ status' = status
      BY <1>3, <2>2 DEF Lock, Starts
    <3> QED
      BY <1>1, <3>1 DEF StepsTyped, PhasesTyped
  <2> QED
    BY <2>1, <2>2
<1>4. ASSUME NEW j \in Invocations, Conclude(j) PROVE Same
  BY <1>1, <1>4 DEF Conclude, PhasesTyped
<1>5. ASSUME NEW j \in Invocations, KillInvocation(j) PROVE Same \/ KillInvocation(i)
  BY <1>1, <1>5 DEF KillInvocation, PhasesTyped, StepsTyped
<1>6. ASSUME NEW j \in Invocations, NEW u \in TestPlatforms, Orphan(j, u) PROVE Same \/ Orphan(i, t)
  <2>1. /\ \E s \in {"off"} \cup Orphans : step' = [step EXCEPT ![j][u] = s]
        /\ UNCHANGED <<phase, status>>
    BY <1>6 DEF Orphan, Orphans
  <2> QED
    BY <1>1, <1>6, <2>1 DEF StepsTyped
<1>7. ASSUME NEW j \in Invocations, NEW u \in TestPlatforms, WorkerActs(j, u) PROVE Same \/ WorkerActs(i, t)
  <2>1. \E s, v : Goes(j, u, s, v) /\ phase' = phase
    BY <1>7, WorkersMove DEF WorkerShape
  <2> QED
    BY <1>1, <1>7, <2>1 DEF StepsTyped, Goes
<1>8. ASSUME NEW u \in TestPlatforms, StrangerArrives(u) \/ StrangerLeaves(u) PROVE Same
  BY <1>8 DEF StrangerArrives, StrangerLeaves
<1> HIDE DEF Same
<1>9. Same \/ (step'[i][t] = "stale" /\ phase'[i] = "running") \/ KillInvocation(i) \/ Orphan(i, t) \/ WorkerActs(i, t)
  BY <1>2, <1>3, <1>4, <1>5, <1>6, <1>7, <1>8 DEF MoleculeStep, WorkerActs
<1> QED
  BY <1>9 DEF Same

\* A worker's look at a stranger's container is a refusal.
LEMMA WorkersAreRefused ==
    ASSUME MoleculeInv, NEW i \in Invocations, NEW t \in TestPlatforms, WorkerActs(i, t),
           container[t] = {Stranger}, step[i][t] \notin Acts
    PROVE  step'[i][t] \notin Acts /\ (step'[i][t] = "done" => status'[i][t] \in Unclean)
<1>1. StepsTyped
  BY DEF MoleculeInv, MoleculeTyped
<1>2. ASSUME NEW s, NEW v, Goes(i, t, s, v) PROVE step'[i][t] = s /\ status'[i][t] = v
  BY <1>1, <1>2 DEF StepsTyped, Goes
<1>3. container[t] # {} /\ ~Labelled(t)
  BY DEF Labelled
<1>4. Acts = {"remove", "destroying", "undoing", "purge", "creating", "orphan acts"}
  BY DEF Acts, Removals
<1>5. CASE RemoveStale(i, t) \/ Cleanup(i, t)
  <2>1. Goes(i, t, "cleanup", "cleanup-failure") \/ Goes(i, t, "done", "cleanup-failure")
    BY <1>3, <1>4, <1>5 DEF RemoveStale, Cleanup, Inspect, RemoveNamed
  <2>2. step'[i][t] \in {"cleanup", "done"} /\ status'[i][t] = "cleanup-failure"
    BY <1>2, <2>1
  <2> QED
    BY <1>4, <2>2 DEF Unclean
<1>6. CASE Pull(i, t) \/ Build(i, t)
  <2>1. step'[i][t] \in {"build", "destroy"}
    BY <1>2, <1>6 DEF Pull, Build
  <2> QED
    BY <1>4, <2>1
<1>7. CASE MoleculeTest(i, t)
  <2>1. Goes(i, t, "cleanup", "stage-failure") \/ Goes(i, t, "final", status[i][t])
    BY <1>3, <1>4, <1>7 DEF MoleculeTest, Destroy, Create, Converge, AssertOwned, RemoveNamed
  <2>2. step'[i][t] \in {"cleanup", "final"}
    BY <1>2, <2>1
  <2> QED
    BY <1>4, <2>2
<1>8. CASE CommandFails(i, t)
  <2>1. PICK v \in Verdict(step[i][t]) :
          /\ step'[i][t] = IF step[i][t] \in {"cleanup", "purge"} THEN "done" ELSE "cleanup"
          /\ status'[i][t] = v
    BY <1>2, <1>8 DEF CommandFails
  <2>2. CASE step[i][t] = "cleanup"
    <3>1. Verdict("cleanup") = {"cleanup-failure", "error"}
      BY DEF Verdict, Children
    <3> QED
      BY <1>4, <2>1, <2>2, <3>1 DEF Unclean
  <2>3. CASE step[i][t] # "cleanup"
    BY <1>4, <2>1, <2>3
  <2> QED
    BY <2>2, <2>3
<1> QED
  BY <1>5, <1>6, <1>7, <1>8 DEF WorkerActs

LEMMA EldersKeep ==
    MoleculeInv /\ EldersFit /\ PassesFit /\ [MoleculeNext]_moleculeVars => EldersFit' /\ PassesFit'
<1> SUFFICES ASSUME MoleculeInv, EldersFit, PassesFit, [MoleculeNext]_moleculeVars PROVE EldersFit' /\ PassesFit'
  OBVIOUS
<1>1. CASE UNCHANGED moleculeVars
  BY <1>1 DEF moleculeVars, EldersFit, PassesFit
<1>2. CASE MoleculeNext
  <2>1. MoleculeStep /\ elder' = [t \in TestPlatforms |-> ElderAfter(t)]
    BY <1>2 DEF MoleculeNext
  <2>2. PhasesTyped /\ StepsTyped
    BY DEF MoleculeInv, MoleculeTyped
  <2>3. elder' \in [TestPlatforms -> SUBSET Invocations]
    BY <2>1 DEF EldersFit, ElderAfter
  <2>4. ASSUME NEW t \in TestPlatforms, NEW i \in elder'[t]
        PROVE  /\ container'[t] = {Stranger} /\ step'[i][t] \notin Acts
               /\ step'[i][t] = "done" => status'[i][t] \in Unclean
    <3>1. i \in Invocations /\ container'[t] = {Stranger} /\ (i \in elder[t] \/ step'[i][t] \in Ahead)
      BY <2>1, <2>3 DEF ElderAfter
    <3>2. CASE step'[i][t] \in Ahead
      BY <3>1, <3>2 DEF Ahead, Acts, Removals
    <3>3. CASE i \in elder[t]
      <4>1. /\ container[t] = {Stranger} /\ step[i][t] \notin Acts
            /\ step[i][t] = "done" => status[i][t] \in Unclean
        BY <3>3 DEF EldersFit
      <4>2. CASE KillInvocation(i)
        <5>1. step'[i][t] \in {"off", "orphan"}
          BY <2>2, <3>1, <4>1, <4>2 DEF KillInvocation, StepsTyped
        <5> QED
          BY <3>1, <5>1 DEF Acts, Removals
      <4>3. CASE Orphan(i, t)
        <5>1. container[t] # {} /\ ~Labelled(t)
          BY <4>1 DEF Labelled
        <5>2. step' = [step EXCEPT ![i][t] = "off"]
          BY <4>1, <4>3, <5>1 DEF Orphan, Acts
        <5> QED
          BY <2>2, <3>1, <5>2 DEF StepsTyped, Acts, Removals
      <4>4. CASE step'[i][t] = "stale"
        BY <3>1, <4>4 DEF Acts, Removals
      <4> QED
        BY <2>1, <3>1, <4>1, <4>2, <4>3, <4>4, OwnSteps, WorkersAreRefused
    <3> QED
      BY <3>1, <3>2, <3>3
  <2>5. PassesFit'
    <3> SUFFICES ASSUME NEW i \in Invocations, NEW t \in TestPlatforms, phase'[i] = "passed" PROVE status'[i][t] = "pass"
      BY DEF PassesFit
    <3>1. ~KillInvocation(i)
      BY <2>2 DEF KillInvocation, PhasesTyped
    <3>2. ~WorkerActs(i, t)
      BY WorkersMove DEF WorkerShape
    <3>3. ~Orphan(i, t)
      BY DEF Orphan, Orphans, MoleculeInv, WorkersFit
    <3>4. status'[i][t] = status[i][t] /\ (phase[i] = "passed" \/ status[i][t] = "pass")
      BY <2>1, <3>1, <3>2, <3>3, OwnSteps
    <3> QED
      BY <3>4 DEF PassesFit
  <2> QED
    BY <2>3, <2>4, <2>5 DEF EldersFit
<1> QED
  BY <1>1, <1>2

LEMMA MoleculeRefuses ==
    ASSUME MoleculeInv, EldersFit, EldersFit', PassesFit', NEW i \in Invocations, NEW t \in TestPlatforms
    PROVE  /\ (step[i][t] \in Acts /\ step'[i][t] # step[i][t]
                  /\ container[t] # {} /\ container'[t] # container[t]) =>
                  /\ container[t] = {Stranger} => i \notin elder[t]
                  /\ phase[i] = "running" =>
                         \A j \in locked \ {i} : CloneOf[j] = CloneOf[i] => container[t] # {j}
           /\ i \in elder'[t] /\ step'[i][t] = "done" =>
                  status'[i][t] \in {"cleanup-failure", "error"} /\ phase'[i] # "passed"
<1>1. step[i][t] \in Acts => i \notin elder[t]
  BY DEF EldersFit
<1>2. phase[i] = "running" => \A j \in locked \ {i} : CloneOf[j] # CloneOf[i]
  BY DEF MoleculeInv, MoleculeTyped, PhasesTyped, ClonesExclude
<1>3. ASSUME i \in elder'[t], step'[i][t] = "done" PROVE status'[i][t] \in Unclean /\ phase'[i] # "passed"
  <2>1. status'[i][t] \in Unclean
    BY <1>3 DEF EldersFit
  <2> QED
    BY <2>1 DEF PassesFit, Unclean
<1> QED
  BY <1>1, <1>2, <1>3 DEF Unclean

LEMMA MoleculeTypes == MoleculeInv /\ EldersFit => MoleculeTypeOK
<1> SUFFICES ASSUME MoleculeInv, EldersFit PROVE MoleculeTypeOK
  OBVIOUS
<1>1. PhasesTyped /\ ContainersTyped
  BY DEF MoleculeInv, MoleculeTyped
<1>2. ASSUME NEW t \in TestPlatforms PROVE Cardinality(container[t]) <= 1
  <2>1. CASE container[t] = {}
    BY <2>1, FS_EmptySet
  <2>2. ASSUME NEW x \in container[t] PROVE Cardinality(container[t]) = 1
    <3>1. container[t] = {x}
      BY <1>1 DEF ContainersTyped, OneEach
    <3> QED
      BY <3>1, FS_Singleton
  <2> QED
    BY <2>1, <2>2
<1>3. locked = {i \in Invocations : phase[i] = "running"}
  BY <1>1 DEF PhasesTyped
<1> QED
  BY <1>1, <1>2, <1>3 DEF MoleculeTypeOK, PhasesTyped, ContainersTyped, Makers, EldersFit

-----------------------------------------------------------------------------
(* Galaxy: what a preparation of a checkout has found, made and moved.     *)

Kinds == {"none", "own", "other", "link"}
Bases == [req : Versions \cup {0}, whole : BOOLEAN]
Generations == [name : Files, req : Versions, ovr : Overrides, whole : BOOLEAN]
Selections == [gen : Nat, req : Versions \cup {0}, src : Overrides \cup {0}, inst : Overrides \cup {0}]
MovedEntries == (Links \X Kinds) \cup ({"current"} \X Selections)
Making == {"lookup", "fresh", "base", "replace", "copy", "publish"}
Selecting == {"select", "move", "link", "tidy"}

WorkType ==
    [pc : {"idle", "waiting", "selection", "undo"} \cup Making \cup Selecting,
     hash : Files \cup {NoFiles}, repair : BOOLEAN, cand : Bases, ovr : Overrides \cup {0},
     gen : Nat, sel : Selections, moved : Seq(MovedEntries), linked : 0 .. 3,
     retain : BOOLEAN, disturbed : BOOLEAN, before : {<< >>} \cup ([Links -> Kinds] \X Selections)]

CheckoutsTyped ==
    /\ want \in [Checkouts -> Files]
    /\ own \in [Checkouts -> [req : Versions, ovr : Overrides, had : BOOLEAN]]
    /\ entry \in [Checkouts -> [Links -> Kinds]]
    /\ current \in [Checkouts -> Selections]
    /\ kept \in [Checkouts -> SUBSET Links]
    /\ \A c \in Checkouts : current[c].gen <= Len(gens)
CacheTyped ==
    /\ bases \in [Versions -> Bases]
    /\ gens \in Seq(Generations)
    /\ holder \subseteq Preparers /\ \A p, q \in holder : p = q
GalaxyTyped == CheckoutsTyped /\ CacheTyped /\ work \in [Preparers -> WorkType]

Past(w) == w.pc \notin {"idle", "waiting"}

\* What a preparation has of what it was asked for: while neither the checkout nor the cache
\* is disturbed, it is as the checkout wants it, and whole after a repair.
Asked(c, w) ==
    /\ w.pc = "waiting" => w.moved = << >> /\ w.linked = 0
    /\ w.pc \in {"waiting"} \cup Making => w.hash \in Files
    /\ w.pc = "selection" => w.gen \in 1 .. Len(gens)
    /\ w.pc \in Selecting => w.sel.gen \in 1 .. Len(gens)
Suits(g, c, w) == gens[g].req = want[c].req /\ gens[g].ovr = want[c].ovr /\ (w.repair => gens[g].whole)
Delivered(c, w) ==
    /\ w.repair /\ w.pc = "base" => bases[w.hash.req] = NoBase
    /\ w.repair /\ w.pc \in {"replace", "publish"} => w.cand.whole
    /\ w.repair /\ w.pc = "copy" => bases[w.hash.req].whole
    /\ w.pc = "selection" => Suits(w.gen, c, w)
    /\ w.pc \in Selecting =>
         /\ Suits(w.sel.gen, c, w)
         /\ w.sel.req = want[c].req /\ w.sel.src = want[c].ovr /\ w.sel.inst = want[c].ovr

\* What a preparation has done to the links and directories of its checkout, compared with
\* what was there before it.
MovedNames(w) == {w.moved[k][1] : k \in DOMAIN w.moved}
MovedFits(w) ==
    /\ \A j, k \in DOMAIN w.moved : w.moved[j][1] = w.moved[k][1] => j = k
    /\ \A k \in DOMAIN w.moved :
         w.moved[k][2] = IF w.moved[k][1] = "current" THEN w.before[2] ELSE w.before[1][w.moved[k][1]]
Untouched(c, w) ==
    /\ entry[c] = w.before[1] /\ current[c] = w.before[2]
    /\ w.moved = << >> /\ w.linked = 0
Moving(c, w) ==
    /\ ~((\A n \in Links : w.before[1][n] = "link") /\ w.before[2].gen > 0)
    /\ MovedFits(w)
    /\ current[c] = IF "current" \in MovedNames(w) THEN NoSelection ELSE w.before[2]
Unlinked(c, w) == \A n \in Links : entry[c][n] = IF n \in MovedNames(w) THEN "none" ELSE w.before[1][n]
Emptied(w) ==
    /\ \A n \in Links : n \notin MovedNames(w) => w.before[1][n] = "none"
    /\ "current" \notin MovedNames(w) => w.before[2].gen = 0
Laid(c, w) ==
    /\ w.before \in [Links -> Kinds] \X Selections /\ w.before[2].gen <= Len(gens)
    /\ w.pc \in Making \cup {"selection", "select"} => Untouched(c, w)
    /\ w.pc \in {"move", "link", "undo"} => Moving(c, w)
    /\ w.pc = "move" \/ (w.pc = "undo" /\ w.linked = 0) => w.linked = 0 /\ Unlinked(c, w)
    /\ w.pc = "link" \/ (w.pc = "undo" /\ w.linked > 0) => Emptied(w)
    /\ w.pc = "link" => \A k \in 1 .. 3 : entry[c][Order[k]] = IF k <= w.linked THEN "link" ELSE "none"
    /\ w.pc = "undo" /\ w.linked > 0 =>
         \A k \in 1 .. 3 : entry[c][Order[k]] \in {"none"} \cup (IF k <= w.linked THEN {"link"} ELSE {})
    /\ w.pc = "tidy" => MovedFits(w) /\ (\A n \in Links : entry[c][n] = "link") /\ current[c] = w.sel
    /\ w.pc \in {"move", "link", "tidy"} /\ ~w.retain =>
         w.before[1]["roles"] # "own" /\ w.before[1]["collections"] # "own"

Fits(p) ==
    /\ Asked(HomeOf[p], work[p])
    /\ Past(work[p]) => holder = {p} /\ Laid(HomeOf[p], work[p])
    /\ Past(work[p]) /\ ~work[p].disturbed => Delivered(HomeOf[p], work[p])

GalaxyInv == GalaxyTyped /\ (\A p \in Preparers : Fits(p)) /\ LegacyKept

LEMMA OrderOfLinks ==
    /\ Len(Order) = 3 /\ DOMAIN Order = 1 .. 3
    /\ Order[1] = "roles" /\ Order[2] = "collections" /\ Order[3] = "requirements"
    /\ \A k \in 1 .. 3 : Order[k] \in Links
    /\ \A j, k \in 1 .. 3 : Order[j] = Order[k] => j = k
    /\ \A n \in Links : \E k \in 1 .. 3 : Order[k] = n
<1>1. /\ Len(Order) = 3 /\ DOMAIN Order = 1 .. 3
      /\ Order[1] = "roles" /\ Order[2] = "collections" /\ Order[3] = "requirements"
  BY DEF Order
<1>2. \A k \in 1 .. 3 : k = 1 \/ k = 2 \/ k = 3
  OBVIOUS
<1>3. \A k \in 1 .. 3 : Order[k] \in Links
  BY <1>1, <1>2 DEF Links
<1>4. \A j, k \in 1 .. 3 : Order[j] = Order[k] => j = k
  BY <1>1, <1>2
<1>5. \A n \in Links : \E k \in 1 .. 3 : Order[k] = n
  <2> SUFFICES ASSUME NEW n \in Links PROVE \E k \in 1 .. 3 : Order[k] = n
    OBVIOUS
  <2>1. n = Order[1] \/ n = Order[2] \/ n = Order[3]
    BY <1>1 DEF Links
  <2> QED
    BY <2>1
<1> QED
  BY <1>1, <1>3, <1>4, <1>5

\* What was moved is compared with what was there by these two alone.
LEMMA Compares ==
    ASSUME NEW v, NEW w, w.moved = v.moved, w.before = v.before
    PROVE  /\ MovedNames(w) = MovedNames(v)
           /\ MovedFits(w) <=> MovedFits(v)
           /\ Emptied(w) <=> Emptied(v)
           /\ \A c \in Checkouts : (Moving(c, w) <=> Moving(c, v)) /\ (Unlinked(c, w) <=> Unlinked(c, v))
<1>1. MovedNames(w) = MovedNames(v)
  BY DEF MovedNames
<1>2. MovedFits(w) <=> MovedFits(v)
  BY DEF MovedFits
<1> QED
  BY <1>1, <1>2 DEF Emptied, Moving, Unlinked

LEMMA IdleTyped == Idle \in WorkType /\ Idle.pc = "idle" /\ Idle.moved = << >> /\ Idle.linked = 0
<1>1. NoBase \in Bases /\ NoSelection \in Selections /\ << >> \in Seq(MovedEntries)
  BY DEF NoBase, Bases, NoSelection, Selections
<1> QED
  BY <1>1 DEF Idle, WorkType

LEMMA PreparerTyped ==
    ASSUME GalaxyInv, NEW p \in Preparers
    PROVE  /\ work[p] \in WorkType /\ HomeOf[p] \in Checkouts /\ Len(gens) \in Nat
           /\ want[HomeOf[p]] \in Files /\ entry[HomeOf[p]] \in [Links -> Kinds] /\ current[HomeOf[p]] \in Selections
           /\ current[HomeOf[p]].gen <= Len(gens)
           /\ \A g \in 1 .. Len(gens) : gens[g] \in Generations
           /\ CheckoutsTyped /\ CacheTyped /\ LegacyKept
           /\ Asked(HomeOf[p], work[p])
           /\ Past(work[p]) => holder = {p} /\ Laid(HomeOf[p], work[p])
           /\ Past(work[p]) /\ ~work[p].disturbed => Delivered(HomeOf[p], work[p])
<1>1. work \in [Preparers -> WorkType] /\ CheckoutsTyped /\ CacheTyped /\ LegacyKept /\ Fits(p) /\ HomeOf[p] \in Checkouts
  BY GalaxyConstants DEF GalaxyInv, GalaxyTyped
<1>2. Len(gens) \in Nat /\ \A g \in 1 .. Len(gens) : gens[g] \in Generations
  BY <1>1 DEF CacheTyped
<1> QED
  BY <1>1, <1>2 DEF CheckoutsTyped, Fits

\* A preparer that holds the lock, or takes it when nobody does, acts: no other is past it.
LEMMA TakesTurn ==
    ASSUME GalaxyInv, NEW p \in Preparers, Past(work[p]) \/ holder = {},
           NEW w \in WorkType, work' = [work EXCEPT ![p] = w],
           CheckoutsTyped', CacheTyped', LegacyKept',
           Asked(HomeOf[p], w)',
           Past(w) => holder' = {p} /\ Laid(HomeOf[p], w)',
           Past(w) /\ ~w.disturbed => Delivered(HomeOf[p], w)'
    PROVE  GalaxyInv'
<1>1. work \in [Preparers -> WorkType]
  BY DEF GalaxyInv, GalaxyTyped
<1>2. work' \in [Preparers -> WorkType] /\ work'[p] = w /\ \A q \in Preparers \ {p} : work'[q] = work[q]
  BY <1>1
<1>3. Fits(p)'
  BY <1>2 DEF Fits
<1>4. ASSUME NEW q \in Preparers \ {p} PROVE Fits(q)'
  <2>1. ~Past(work[q]) /\ work'[q] = work[q] /\ Asked(HomeOf[q], work[q])
    BY <1>2, <1>4, PreparerTyped
  <2> QED
    BY <2>1 DEF Fits, Past, Asked, Selecting, Making
<1> QED
  BY <1>2, <1>3, <1>4 DEF GalaxyInv, GalaxyTyped

\* Nothing that a preparation is compared with changes.
LEMMA AsItWas ==
    ASSUME NEW c, NEW w, UNCHANGED <<want, bases, gens, entry, current>>
    PROVE  (Asked(c, w)' <=> Asked(c, w)) /\ (Laid(c, w)' <=> Laid(c, w)) /\ (Delivered(c, w)' <=> Delivered(c, w))
<1>1. Asked(c, w)' <=> Asked(c, w)
  BY DEF Asked
<1>2. (Untouched(c, w)' <=> Untouched(c, w)) /\ (Moving(c, w)' <=> Moving(c, w)) /\ (Unlinked(c, w)' <=> Unlinked(c, w))
  BY DEF Untouched, Moving, Unlinked
<1>3. Laid(c, w)' <=> Laid(c, w)
  BY <1>2 DEF Laid
<1>4. Delivered(c, w)' <=> Delivered(c, w)
  BY DEF Delivered, Suits
<1> QED
  BY <1>1, <1>3, <1>4

\* It changes nothing but what it knows.
LEMMA Turns ==
    ASSUME GalaxyInv, NEW p \in Preparers, Past(work[p]),
           NEW w \in WorkType, work' = [work EXCEPT ![p] = w],
           UNCHANGED <<want, own, holder, bases, gens, entry, current, kept>>,
           Asked(HomeOf[p], w), Laid(HomeOf[p], w), ~w.disturbed => Delivered(HomeOf[p], w)
    PROVE  GalaxyInv'
<1>1. CheckoutsTyped' /\ CacheTyped' /\ LegacyKept'
  BY PreparerTyped DEF CheckoutsTyped, CacheTyped, LegacyKept
<1>2. Asked(HomeOf[p], w)' /\ Laid(HomeOf[p], w)' /\ (~w.disturbed => Delivered(HomeOf[p], w)') /\ holder' = {p}
  BY PreparerTyped, AsItWas
<1> QED
  BY <1>1, <1>2, TakesTurn

\* Before the links are touched.
LEMMA StaysUntouched ==
    ASSUME GalaxyInv, NEW p \in Preparers, work[p].pc \in Making \cup {"selection", "select"},
           NEW w, w.pc \in Making \cup {"selection", "select"},
           w.moved = work[p].moved, w.linked = work[p].linked, w.before = work[p].before,
           UNCHANGED <<entry, current>>, Len(gens) <= Len(gens'), Len(gens') \in Nat
    PROVE  Laid(HomeOf[p], w)'
<1>1. Past(work[p])
  BY DEF Past, Making
<1>2. Laid(HomeOf[p], work[p]) /\ Len(gens) \in Nat
  BY <1>1, PreparerTyped
<1>3. w.before \in [Links -> Kinds] \X Selections /\ w.before[2].gen <= Len(gens')
  BY <1>2 DEF Laid, Selections
<1> QED
  BY <1>2, <1>3 DEF Laid, Untouched, Making

\* It ends, with or without success.
LEMMA Finishes ==
    ASSUME GalaxyInv, NEW p \in Preparers, Past(work[p]), holder' \in {{}, holder \ {p}}, work' = [work EXCEPT ![p] = Idle],
           CheckoutsTyped', bases' \in [Versions -> Bases], gens' = gens, LegacyKept'
    PROVE  GalaxyInv'
<1>1. CacheTyped'
  BY PreparerTyped DEF CacheTyped
<1>2. PICK w \in WorkType : w = Idle
  BY IdleTyped
<1> QED
  BY <1>1, <1>2, IdleTyped, TakesTurn DEF Past, Asked, Making, Selecting

-----------------------------------------------------------------------------
(* The steps of a preparation up to the selection. *)

LEMMA StartKeeps == ASSUME GalaxyInv, NEW p \in Preparers, NEW repair \in BOOLEAN, StartPrepare(p, repair) PROVE GalaxyInv'
<1>1. PICK idle \in WorkType : idle = Idle /\ idle.moved = << >> /\ idle.linked = 0
  BY IdleTyped
<1>2. PICK w \in WorkType : w = [idle EXCEPT !.pc = "waiting", !.repair = repair, !.hash = want[HomeOf[p]]]
  <2>1. want[HomeOf[p]] \in Files
    BY PreparerTyped
  <2>2. [idle EXCEPT !.pc = "waiting", !.repair = repair, !.hash = want[HomeOf[p]]] \in WorkType
    BY <2>1 DEF WorkType
  <2> QED
    BY <2>2
<1>3. /\ work' = [work EXCEPT ![p] = w]
      /\ UNCHANGED <<want, own, holder, bases, gens, entry, current, kept>>
      /\ w.pc = "waiting" /\ w.hash \in Files /\ w.moved = << >> /\ w.linked = 0
  <2>1. w.pc = "waiting" /\ w.hash = want[HomeOf[p]] /\ w.moved = << >> /\ w.linked = 0
    BY <1>1, <1>2 DEF WorkType
  <2> QED
    BY <1>1, <1>2, <2>1, PreparerTyped DEF StartPrepare, Cache, Layout
<1>4. work' \in [Preparers -> WorkType] /\ work'[p] = w /\ \A q \in Preparers \ {p} : work'[q] = work[q]
  BY <1>3 DEF GalaxyInv, GalaxyTyped
<1>5. CheckoutsTyped' /\ CacheTyped' /\ LegacyKept'
  BY <1>3, PreparerTyped DEF CheckoutsTyped, CacheTyped, LegacyKept
<1>6. Fits(p)'
  BY <1>3, <1>4 DEF Fits, Asked, Past, Making, Selecting
<1>7. ASSUME NEW q \in Preparers \ {p} PROVE Fits(q)'
  <2>1. PICK u : u = work[q]
    OBVIOUS
  <2>2. work'[q] = u /\ holder' = holder /\ Fits(q)
    BY <1>3, <1>4, <2>1 DEF GalaxyInv
  <2>3. (Asked(HomeOf[q], u)' <=> Asked(HomeOf[q], u)) /\ (Laid(HomeOf[q], u)' <=> Laid(HomeOf[q], u))
        /\ (Delivered(HomeOf[q], u)' <=> Delivered(HomeOf[q], u))
    BY <1>3, AsItWas
  <2> QED
    BY <2>1, <2>2, <2>3 DEF Fits, Past
<1> QED
  BY <1>4, <1>5, <1>6, <1>7 DEF GalaxyInv, GalaxyTyped

LEMMA TakeLockKeeps == ASSUME GalaxyInv, NEW p \in Preparers, TakeLock(p) PROVE GalaxyInv'
<1> DEFINE c == HomeOf[p]
<1>1. /\ work[p].pc = "waiting" /\ holder = {} /\ holder' = {p} /\ work[p] \in WorkType
      /\ work[p].moved = << >> /\ work[p].linked = 0 /\ work[p].hash \in Files
      /\ entry[c] \in [Links -> Kinds] /\ current[c] \in Selections /\ current[c].gen <= Len(gens)
      /\ UNCHANGED <<want, own, bases, gens, entry, current, kept>>
  BY PreparerTyped DEF TakeLock, At, Asked, Cache, Layout
<1>2. PICK b \in [Links -> Kinds] \X Selections : b = <<entry[c], current[c]>>
  BY <1>1
<1>3. PICK w \in WorkType : w = [work[p] EXCEPT !.pc = "lookup", !.before = b]
  <2>1. [work[p] EXCEPT !.pc = "lookup", !.before = b] \in WorkType
    BY <1>1 DEF WorkType, Making
  <2> QED
    BY <2>1
<1>4. work' = [work EXCEPT ![p] = w]
  BY <1>1, <1>2, <1>3 DEF TakeLock, GalaxyInv, GalaxyTyped, WorkType
<1>5. w.pc = "lookup" /\ w.before = b /\ w.moved = << >> /\ w.linked = 0 /\ w.hash \in Files
  BY <1>1, <1>3 DEF WorkType
<1>6. CheckoutsTyped' /\ CacheTyped' /\ LegacyKept'
  BY <1>1, PreparerTyped DEF CheckoutsTyped, CacheTyped, LegacyKept
<1>7. Asked(c, w)'
  BY <1>5 DEF Asked, Selecting
<1>8. Laid(c, w)'
  BY <1>1, <1>2, <1>5 DEF Laid, Untouched
<1>9. Delivered(c, w)'
  BY <1>5 DEF Delivered, Selecting
<1> QED
  BY <1>1, <1>4, <1>6, <1>7, <1>8, <1>9, TakesTurn

LEMMA LookupKeeps ==
    ASSUME GalaxyInv, NEW p \in Preparers, NoReuse(p) \/ \E i \in DOMAIN gens : Reuse(p, i)
    PROVE  GalaxyInv'
<1> DEFINE c == HomeOf[p]
<1>1. /\ work[p].pc = "lookup" /\ work[p] \in WorkType /\ work[p].hash \in Files /\ Past(work[p])
      /\ UNCHANGED <<want, own, holder, bases, gens, entry, current, kept>>
  BY PreparerTyped DEF NoReuse, Reuse, At, Asked, Cache, Layout, Making, Past
<1>2. CASE NoReuse(p)
  <2>1. PICK next \in {"fresh", "base"} : work' = [work EXCEPT ![p].pc = next] /\ (work[p].repair => next = "fresh")
    BY <1>2 DEF NoReuse, Fresh
  <2>2. PICK w \in WorkType : w = [work[p] EXCEPT !.pc = next]
    <3>1. [work[p] EXCEPT !.pc = next] \in WorkType
      BY <1>1 DEF WorkType, Making
    <3> QED
      BY <3>1
  <2>3. work' = [work EXCEPT ![p] = w]
    BY <2>1, <2>2 DEF GalaxyInv, GalaxyTyped, WorkType
  <2>4. /\ w.pc = next /\ w.hash = work[p].hash /\ w.repair = work[p].repair
        /\ w.moved = work[p].moved /\ w.linked = work[p].linked /\ w.before = work[p].before
    BY <1>1, <2>2 DEF WorkType
  <2>5. Laid(c, w)
    <3>1. Laid(c, work[p])
      BY <1>1, PreparerTyped
    <3> QED
      BY <1>1, <2>4, <3>1 DEF Laid, Untouched, Making
  <2>6. Asked(c, w) /\ Delivered(c, w)
    BY <1>1, <2>1, <2>4 DEF Asked, Delivered, Making, Selecting
  <2> QED
    BY <1>1, <2>3, <2>5, <2>6, Turns
<1>3. ASSUME NEW i \in DOMAIN gens, Reuse(p, i) PROVE GalaxyInv'
  <2>1. /\ work' = [work EXCEPT ![p].pc = "selection", ![p].gen = i, ![p].hash = NoFiles]
        /\ ~work[p].repair /\ gens[i].req = want[c].req /\ gens[i].ovr = want[c].ovr
    BY <1>3 DEF Reuse, Valid
  <2>2. i \in 1 .. Len(gens) /\ i \in Nat
    BY PreparerTyped DEF CacheTyped
  <2>3. PICK w \in WorkType : w = [work[p] EXCEPT !.pc = "selection", !.gen = i, !.hash = NoFiles]
    <3>1. [work[p] EXCEPT !.pc = "selection", !.gen = i, !.hash = NoFiles] \in WorkType
      BY <1>1, <2>2 DEF WorkType
    <3> QED
      BY <3>1
  <2>4. work' = [work EXCEPT ![p] = w]
    BY <2>1, <2>3 DEF GalaxyInv, GalaxyTyped, WorkType
  <2>5. /\ w.pc = "selection" /\ w.gen = i /\ w.repair = work[p].repair
        /\ w.moved = work[p].moved /\ w.linked = work[p].linked /\ w.before = work[p].before
    BY <1>1, <2>3 DEF WorkType
  <2>6. Laid(c, w)
    <3>1. Laid(c, work[p])
      BY <1>1, PreparerTyped
    <3> QED
      BY <1>1, <2>5, <3>1 DEF Laid, Untouched, Making
  <2>7. Asked(c, w) /\ Delivered(c, w)
    BY <2>1, <2>2, <2>5 DEF Asked, Delivered, Suits, Making, Selecting
  <2> QED
    BY <1>1, <2>4, <2>6, <2>7, Turns
<1> QED
  BY <1>2, <1>3

\* The base is the holder's alone to change.
LEMMA RemoveKeeps == ASSUME GalaxyInv, NEW p \in Preparers, RemoveBase(p) PROVE GalaxyInv'
<1> DEFINE c == HomeOf[p]
<1>1. /\ work[p].pc = "fresh" /\ work[p] \in WorkType /\ work[p].hash \in Files /\ Past(work[p]) /\ holder = {p}
      /\ UNCHANGED <<want, own, holder, gens, entry, current, kept>>
      /\ bases' = [bases EXCEPT ![work[p].hash.req] = NoBase] /\ bases \in [Versions -> Bases]
      /\ Laid(c, work[p]) /\ Len(gens) \in Nat
  BY PreparerTyped DEF RemoveBase, At, Asked, Layout, Making, Past, CacheTyped
<1>2. PICK w \in WorkType : w = [work[p] EXCEPT !.pc = "base"]
  <2>1. [work[p] EXCEPT !.pc = "base"] \in WorkType
    BY <1>1 DEF WorkType, Making
  <2> QED
    BY <2>1
<1>3. work' = [work EXCEPT ![p] = w]
  BY <1>2 DEF RemoveBase, GalaxyInv, GalaxyTyped, WorkType
<1>4. /\ w.pc = "base" /\ w.hash = work[p].hash
      /\ w.moved = work[p].moved /\ w.linked = work[p].linked /\ w.before = work[p].before
  BY <1>1, <1>2 DEF WorkType
<1>5. work[p].hash.req \in Versions /\ NoBase \in Bases
  BY <1>1 DEF Files, NoBase, Bases
<1>6. bases' \in [Versions -> Bases] /\ bases'[w.hash.req] = NoBase
  BY <1>1, <1>4, <1>5
<1>7. CheckoutsTyped' /\ CacheTyped' /\ LegacyKept'
  BY <1>1, <1>6, PreparerTyped DEF CheckoutsTyped, CacheTyped, LegacyKept
<1>8. Asked(c, w)' /\ Delivered(c, w)'
  BY <1>1, <1>4, <1>6 DEF Asked, Delivered, Making, Selecting
<1>9. Laid(c, w)'
  BY <1>1, <1>4, StaysUntouched DEF Making
<1> QED
  BY <1>1, <1>3, <1>7, <1>8, <1>9, TakesTurn

LEMMA BaseKeeps == ASSUME GalaxyInv, NEW p \in Preparers, UseBase(p) \/ InstallBase(p) PROVE GalaxyInv'
<1> DEFINE c == HomeOf[p]
<1>1. /\ work[p].pc = "base" /\ work[p] \in WorkType /\ work[p].hash \in Files /\ Past(work[p])
      /\ UNCHANGED <<want, own, holder, bases, gens, entry, current, kept>>
      /\ Laid(c, work[p]) /\ (~work[p].disturbed => Delivered(c, work[p])) /\ want[c] \in Files
  BY PreparerTyped DEF UseBase, InstallBase, At, Asked, Cache, Layout, Making, Past
<1>2. want[c].req \in Versions /\ want[c].req # 0
  BY <1>1, GalaxyConstants DEF Files
<1>3. CASE UseBase(p)
  <2>1. bases[work[p].hash.req].req = want[c].req /\ work' = [work EXCEPT ![p].pc = "copy"]
    BY <1>3 DEF UseBase
  <2>2. PICK w \in WorkType : w = [work[p] EXCEPT !.pc = "copy"]
    <3>1. [work[p] EXCEPT !.pc = "copy"] \in WorkType
      BY <1>1 DEF WorkType, Making
    <3> QED
      BY <3>1
  <2>3. work' = [work EXCEPT ![p] = w]
    BY <2>1, <2>2 DEF GalaxyInv, GalaxyTyped, WorkType
  <2>4. /\ w.pc = "copy" /\ w.hash = work[p].hash /\ w.repair = work[p].repair /\ w.disturbed = work[p].disturbed
        /\ w.moved = work[p].moved /\ w.linked = work[p].linked /\ w.before = work[p].before
    BY <1>1, <2>2 DEF WorkType
  <2>5. Laid(c, w)
    BY <1>1, <2>4 DEF Laid, Untouched, Making
  <2>6. ~w.disturbed => ~w.repair
    <3>1. NoBase.req = 0
      BY DEF NoBase
    <3> QED
      BY <1>1, <1>2, <2>1, <2>4, <3>1 DEF Delivered
  <2>7. Asked(c, w) /\ (~w.disturbed => Delivered(c, w))
    BY <1>1, <2>4, <2>6 DEF Asked, Delivered, Making, Selecting
  <2> QED
    BY <1>1, <2>3, <2>5, <2>7, Turns
<1>4. CASE InstallBase(p)
  <2>1. work' = [work EXCEPT ![p].pc = "replace", ![p].cand = [req |-> want[c].req, whole |-> TRUE]]
    BY <1>4 DEF InstallBase
  <2>2. PICK b \in Bases : b = [req |-> want[c].req, whole |-> TRUE]
    BY <1>2 DEF Bases
  <2>3. PICK w \in WorkType : w = [work[p] EXCEPT !.pc = "replace", !.cand = b]
    <3>1. [work[p] EXCEPT !.pc = "replace", !.cand = b] \in WorkType
      BY <1>1 DEF WorkType, Making
    <3> QED
      BY <3>1
  <2>4. work' = [work EXCEPT ![p] = w]
    BY <2>1, <2>2, <2>3 DEF GalaxyInv, GalaxyTyped, WorkType
  <2>5. /\ w.pc = "replace" /\ w.hash = work[p].hash /\ w.cand.whole = TRUE
        /\ w.moved = work[p].moved /\ w.linked = work[p].linked /\ w.before = work[p].before
    BY <1>1, <2>2, <2>3 DEF WorkType
  <2>6. Laid(c, w)
    BY <1>1, <2>5 DEF Laid, Untouched, Making
  <2>7. Asked(c, w) /\ Delivered(c, w)
    BY <1>1, <2>5 DEF Asked, Delivered, Making, Selecting
  <2> QED
    BY <1>1, <2>4, <2>6, <2>7, Turns
<1> QED
  BY <1>3, <1>4

LEMMA ReplaceKeeps == ASSUME GalaxyInv, NEW p \in Preparers, PublishBase(p) PROVE GalaxyInv'
<1> DEFINE c == HomeOf[p]
<1>1. /\ work[p].pc = "replace" /\ work[p] \in WorkType /\ work[p].hash \in Files /\ Past(work[p]) /\ holder = {p}
      /\ UNCHANGED <<want, own, holder, gens, entry, current, kept>>
      /\ bases' = [bases EXCEPT ![work[p].hash.req] = work[p].cand] /\ bases \in [Versions -> Bases]
      /\ Laid(c, work[p]) /\ Len(gens) \in Nat /\ (~work[p].disturbed => Delivered(c, work[p]))
  BY PreparerTyped DEF PublishBase, At, Asked, Layout, Making, Past, CacheTyped
<1>2. PICK w \in WorkType : w = [work[p] EXCEPT !.pc = "copy", !.cand = NoBase]
  <2>1. NoBase \in Bases
    BY DEF NoBase, Bases
  <2>2. [work[p] EXCEPT !.pc = "copy", !.cand = NoBase] \in WorkType
    BY <1>1, <2>1 DEF WorkType, Making
  <2> QED
    BY <2>2
<1>3. work' = [work EXCEPT ![p] = w]
  BY <1>2 DEF PublishBase, GalaxyInv, GalaxyTyped, WorkType
<1>4. /\ w.pc = "copy" /\ w.hash = work[p].hash /\ w.repair = work[p].repair /\ w.disturbed = work[p].disturbed
      /\ w.moved = work[p].moved /\ w.linked = work[p].linked /\ w.before = work[p].before
  BY <1>1, <1>2 DEF WorkType
<1>5. work[p].hash.req \in Versions /\ work[p].cand \in Bases
  BY <1>1 DEF Files, WorkType
<1>6. bases' \in [Versions -> Bases] /\ bases'[w.hash.req] = work[p].cand
  BY <1>1, <1>4, <1>5
<1>7. CheckoutsTyped' /\ CacheTyped' /\ LegacyKept'
  BY <1>1, <1>6, PreparerTyped DEF CheckoutsTyped, CacheTyped, LegacyKept
<1>8. Asked(c, w)' /\ (~w.disturbed => Delivered(c, w)')
  BY <1>1, <1>4, <1>6 DEF Asked, Delivered, Making, Selecting
<1>9. Laid(c, w)'
  BY <1>1, <1>4, StaysUntouched DEF Making
<1> QED
  BY <1>1, <1>3, <1>7, <1>8, <1>9, TakesTurn

LEMMA CopyKeeps == ASSUME GalaxyInv, NEW p \in Preparers, CopyBase(p) PROVE GalaxyInv'
<1> DEFINE c == HomeOf[p]
<1>1. /\ work[p].pc = "copy" /\ work[p] \in WorkType /\ work[p].hash \in Files /\ Past(work[p])
      /\ UNCHANGED <<want, own, holder, bases, gens, entry, current, kept>>
      /\ Laid(c, work[p]) /\ (~work[p].disturbed => Delivered(c, work[p])) /\ want[c] \in Files
      /\ bases \in [Versions -> Bases]
  BY PreparerTyped DEF CopyBase, At, Asked, Cache, Layout, Making, Past, CacheTyped
<1>2. bases[work[p].hash.req] \in Bases /\ want[c].ovr \in Overrides
  BY <1>1 DEF Files
<1>3. PICK w \in WorkType : w = [work[p] EXCEPT !.pc = "publish", !.cand = bases[work[p].hash.req], !.ovr = want[c].ovr]
  <2>1. [work[p] EXCEPT !.pc = "publish", !.cand = bases[work[p].hash.req], !.ovr = want[c].ovr] \in WorkType
    BY <1>1, <1>2 DEF WorkType, Making
  <2> QED
    BY <2>1
<1>4. work' = [work EXCEPT ![p] = w]
  BY <1>3 DEF CopyBase, GalaxyInv, GalaxyTyped, WorkType
<1>5. /\ w.pc = "publish" /\ w.hash = work[p].hash /\ w.repair = work[p].repair /\ w.disturbed = work[p].disturbed
      /\ w.cand = bases[work[p].hash.req]
      /\ w.moved = work[p].moved /\ w.linked = work[p].linked /\ w.before = work[p].before
  BY <1>1, <1>3 DEF WorkType
<1>6. Laid(c, w)
  BY <1>1, <1>5 DEF Laid, Untouched, Making
<1>7. Asked(c, w) /\ (~w.disturbed => Delivered(c, w))
  BY <1>1, <1>5 DEF Asked, Delivered, Making, Selecting
<1> QED
  BY <1>1, <1>4, <1>6, <1>7, Turns

LEMMA PublishKeeps == ASSUME GalaxyInv, NEW p \in Preparers, PublishGeneration(p) PROVE GalaxyInv'
<1> DEFINE c == HomeOf[p]
<1>1. /\ work[p].pc = "publish" /\ work[p] \in WorkType /\ work[p].hash \in Files /\ Past(work[p]) /\ holder = {p}
      /\ UNCHANGED <<want, own, holder, bases, entry, current, kept>>
      /\ Laid(c, work[p]) /\ Len(gens) \in Nat /\ (~work[p].disturbed => Delivered(c, work[p]))
      /\ work[p].cand.req = want[c].req /\ work[p].ovr = want[c].ovr /\ want[c] \in Files
  BY PreparerTyped DEF PublishGeneration, At, Asked, Layout, Making, Past
<1>2. PICK g \in Generations : g = [name |-> work[p].hash, req |-> work[p].cand.req, ovr |-> work[p].ovr, whole |-> work[p].cand.whole]
  BY <1>1 DEF Generations, Files, WorkType, Bases
<1>3. gens' = Append(gens, g) /\ gens \in Seq(Generations)
  BY <1>2, PreparerTyped DEF PublishGeneration, CacheTyped
<1>4. gens' \in Seq(Generations) /\ Len(gens') = Len(gens) + 1 /\ gens'[Len(gens) + 1] = g
  BY <1>3
<1>5. PICK w \in WorkType : w = [work[p] EXCEPT !.pc = "selection", !.gen = Len(gens) + 1, !.cand = NoBase, !.ovr = 0, !.hash = NoFiles]
  <2>1. NoBase \in Bases /\ Len(gens) + 1 \in Nat
    BY <1>1 DEF NoBase, Bases
  <2>2. [work[p] EXCEPT !.pc = "selection", !.gen = Len(gens) + 1, !.cand = NoBase, !.ovr = 0, !.hash = NoFiles] \in WorkType
    BY <1>1, <2>1 DEF WorkType
  <2> QED
    BY <2>2
<1>6. work' = [work EXCEPT ![p] = w]
  BY <1>5 DEF PublishGeneration, GalaxyInv, GalaxyTyped, WorkType
<1>7. /\ w.pc = "selection" /\ w.gen = Len(gens) + 1 /\ w.repair = work[p].repair /\ w.disturbed = work[p].disturbed
      /\ w.moved = work[p].moved /\ w.linked = work[p].linked /\ w.before = work[p].before
  BY <1>1, <1>5 DEF WorkType
<1>8. CheckoutsTyped' /\ CacheTyped' /\ LegacyKept'
  <2>1. \A k \in Checkouts : current'[k].gen <= Len(gens')
    BY <1>1, <1>4, PreparerTyped DEF CheckoutsTyped, Selections
  <2> QED
    BY <1>1, <1>4, <2>1, PreparerTyped DEF CheckoutsTyped, CacheTyped, LegacyKept
<1>9. Asked(c, w)'
  BY <1>1, <1>4, <1>7 DEF Asked, Making, Selecting
<1>10. ~w.disturbed => Delivered(c, w)'
  <2>1. g.req = want[c].req /\ g.ovr = want[c].ovr /\ (~work[p].disturbed /\ work[p].repair => g.whole)
    BY <1>1, <1>2 DEF Delivered
  <2> QED
    BY <1>1, <1>4, <1>7, <2>1 DEF Delivered, Suits, Making, Selecting
<1>11. Laid(c, w)'
  BY <1>1, <1>4, <1>7, StaysUntouched DEF Making
<1> QED
  BY <1>1, <1>6, <1>8, <1>9, <1>10, <1>11, TakesTurn

LEMMA SelectionKeeps == ASSUME GalaxyInv, NEW p \in Preparers, PublishSelection(p) PROVE GalaxyInv'
<1> DEFINE c == HomeOf[p]
<1>1. /\ work[p].pc = "selection" /\ work[p] \in WorkType /\ Past(work[p])
      /\ UNCHANGED <<want, own, holder, bases, gens, entry, current, kept>>
      /\ Laid(c, work[p]) /\ (~work[p].disturbed => Delivered(c, work[p])) /\ want[c] \in Files
      /\ work[p].gen \in 1 .. Len(gens) /\ gens[work[p].gen] \in Generations
  BY PreparerTyped DEF PublishSelection, At, Asked, Cache, Layout, Making, Past
<1>2. PICK s \in Selections : s = [gen |-> work[p].gen, req |-> want[c].req, src |-> want[c].ovr, inst |-> gens[work[p].gen].ovr]
  <2>1. want[c].req \in Versions /\ want[c].ovr \in Overrides /\ gens[work[p].gen].ovr \in Overrides /\ work[p].gen \in Nat
    BY <1>1 DEF Files, Generations
  <2>2. [gen |-> work[p].gen, req |-> want[c].req, src |-> want[c].ovr, inst |-> gens[work[p].gen].ovr] \in Selections
    BY <2>1 DEF Selections
  <2> QED
    BY <2>2
<1>3. PICK w \in WorkType : w = [work[p] EXCEPT !.pc = "select", !.gen = 0, !.sel = s]
  <2>1. [work[p] EXCEPT !.pc = "select", !.gen = 0, !.sel = s] \in WorkType
    BY <1>1 DEF WorkType, Selecting
  <2> QED
    BY <2>1
<1>4. work' = [work EXCEPT ![p] = w]
  <2>1. work' = [work EXCEPT ![p].pc = "select", ![p].gen = 0, ![p].sel = s]
    BY <1>2 DEF PublishSelection, Digest
  <2> QED
    BY <1>3, <2>1 DEF GalaxyInv, GalaxyTyped, WorkType
<1>5. /\ w.pc = "select" /\ w.sel = s /\ w.repair = work[p].repair /\ w.disturbed = work[p].disturbed
      /\ w.moved = work[p].moved /\ w.linked = work[p].linked /\ w.before = work[p].before
  BY <1>1, <1>3 DEF WorkType
<1>6. Laid(c, w)
  BY <1>1, <1>5 DEF Laid, Untouched, Making
<1>7. Asked(c, w) /\ (~w.disturbed => Delivered(c, w))
  BY <1>1, <1>2, <1>5 DEF Asked, Delivered, Suits, Making, Selecting
<1> QED
  BY <1>1, <1>4, <1>6, <1>7, Turns

-----------------------------------------------------------------------------
(* The selection: the usual replacement, the take-over, and the way back. *)

\* What is in front of the backup and what is in it.
LEMMA MovedMore ==
    ASSUME NEW m \in Seq(MovedEntries), NEW x \in MovedEntries, NEW w, w.moved = m, NEW v, v.moved = Append(m, x),
           v.before = w.before, MovedFits(w), x[1] \notin MovedNames(w),
           x[2] = IF x[1] = "current" THEN w.before[2] ELSE w.before[1][x[1]]
    PROVE  v.moved \in Seq(MovedEntries) /\ MovedFits(v) /\ MovedNames(v) = MovedNames(w) \cup {x[1]}
<1>1. /\ Len(m) \in Nat /\ DOMAIN m = 1 .. Len(m) /\ DOMAIN v.moved = 1 .. (Len(m) + 1)
      /\ (\A k \in 1 .. Len(m) : v.moved[k] = m[k]) /\ v.moved[Len(m) + 1] = x
      /\ v.moved \in Seq(MovedEntries)
  OBVIOUS
<1>2. \A k \in 1 .. (Len(m) + 1) : k \in 1 .. Len(m) \/ k = Len(m) + 1
  BY <1>1
<1>3. \A k \in 1 .. Len(m) : m[k][1] # x[1]
  BY <1>1 DEF MovedNames
<1>4. MovedNames(v) = MovedNames(w) \cup {x[1]}
  BY <1>1, <1>2 DEF MovedNames
<1>5. \A j, k \in DOMAIN v.moved : v.moved[j][1] = v.moved[k][1] => j = k
  BY <1>1, <1>2, <1>3 DEF MovedFits
<1>6. \A k \in DOMAIN v.moved :
        v.moved[k][2] = IF v.moved[k][1] = "current" THEN v.before[2] ELSE v.before[1][v.moved[k][1]]
  BY <1>1, <1>2 DEF MovedFits
<1> QED
  BY <1>1, <1>4, <1>5, <1>6 DEF MovedFits

LEMMA MovedLess ==
    ASSUME NEW m \in Seq(MovedEntries), m # << >>, NEW w, w.moved = m, NEW v, v.moved = Front(m),
           v.before = w.before, MovedFits(w)
    PROVE  /\ v.moved \in Seq(MovedEntries) /\ MovedFits(v) /\ MovedNames(v) = MovedNames(w) \ {Last(m)[1]}
           /\ Last(m) \in MovedEntries /\ Last(m)[1] \in MovedNames(w)
           /\ Last(m)[2] = IF Last(m)[1] = "current" THEN w.before[2] ELSE w.before[1][Last(m)[1]]
<1>1. Len(m) \in Nat /\ Len(m) > 0
  OBVIOUS
<1>2. PICK l \in Nat : Len(m) = l + 1
  <2>1. Len(m) - 1 \in Nat /\ Len(m) = (Len(m) - 1) + 1
    BY <1>1
  <2> QED
    BY <2>1
<1>3. DOMAIN m = 1 .. (l + 1) /\ Last(m) = m[l + 1] /\ m[l + 1] \in MovedEntries
  BY <1>2 DEF Last
<1>4. /\ v.moved \in Seq(MovedEntries) /\ Len(v.moved) = l /\ DOMAIN v.moved = 1 .. l
      /\ \A k \in 1 .. l : v.moved[k] = m[k]
  <2>1. v.moved = SubSeq(m, 1, l)
    BY <1>2 DEF Front
  <2> QED
    BY <1>2, <2>1
<1>5. \A k \in 1 .. (l + 1) : k \in 1 .. l \/ k = l + 1
  OBVIOUS
<1>6. \A k \in 1 .. l : k \in DOMAIN m /\ m[k][1] # m[l + 1][1]
  BY <1>3 DEF MovedFits
<1>7. MovedNames(v) = MovedNames(w) \ {Last(m)[1]}
  <2>1. \A y : y \in MovedNames(v) <=> \E k \in 1 .. l : m[k][1] = y
    BY <1>4 DEF MovedNames
  <2>2. \A y : y \in MovedNames(w) <=> \E k \in 1 .. (l + 1) : m[k][1] = y
    BY <1>3 DEF MovedNames
  <2> QED
    BY <1>3, <1>5, <1>6, <2>1, <2>2
<1>8. MovedFits(v)
  BY <1>3, <1>4, <1>6 DEF MovedFits
<1> QED
  BY <1>3, <1>4, <1>7, <1>8 DEF MovedFits, MovedNames

LEMMA EntriesTyped ==
    \A x \in MovedEntries : IF x[1] = "current" THEN x[2] \in Selections ELSE x[1] \in Links /\ x[2] \in Kinds
  BY DEF MovedEntries, Links

LEMMA EndingKeeps ==
    ASSUME GalaxyInv, NEW p \in Preparers, Refuse(p) \/ Undone(p) \/ Rejects(p) \/ Repoint(p)
    PROVE  GalaxyInv'
<1> DEFINE c == HomeOf[p]
<1>1. /\ Past(work[p]) /\ holder' = {} /\ work' = [work EXCEPT ![p] = Idle]
      /\ UNCHANGED <<want, own, kept, entry, bases, gens>> /\ c \in Checkouts
  BY PreparerTyped DEF Refuse, Undone, Rejects, Repoint, At, End, Layout, Cache, Past
<1>2. current' = current \/ (current' = [current EXCEPT ![c] = work[p].sel] /\ work[p].pc = "select")
  BY DEF Refuse, Undone, Rejects, Repoint, At, Layout
<1>3. work[p].pc = "select" => work[p].sel \in Selections /\ work[p].sel.gen <= Len(gens)
  BY PreparerTyped DEF Asked, Selecting, WorkType
<1>4. /\ CheckoutsTyped
      /\ LegacyKept /\ bases \in [Versions -> Bases]
  BY PreparerTyped DEF CacheTyped
<1>5. current' \in [Checkouts -> Selections] /\ \A d \in Checkouts : current'[d].gen <= Len(gens)
  BY <1>1, <1>2, <1>3, <1>4 DEF CheckoutsTyped
<1>6. CheckoutsTyped' /\ LegacyKept'
  BY <1>1, <1>4, <1>5 DEF CheckoutsTyped, LegacyKept
<1> QED
  BY <1>1, <1>4, <1>6, Finishes

LEMMA TakeOverKeeps == ASSUME GalaxyInv, NEW p \in Preparers, TakeOver(p) PROVE GalaxyInv'
<1> DEFINE c == HomeOf[p]
<1>1. /\ work[p].pc = "select" /\ work[p] \in WorkType /\ Past(work[p]) /\ ~StableLinks(c)
      /\ UNCHANGED <<want, own, holder, bases, gens, entry, current, kept>>
      /\ work' = [work EXCEPT ![p].pc = "move", ![p].retain = Retains(c)]
      /\ Laid(c, work[p]) /\ Asked(c, work[p]) /\ (~work[p].disturbed => Delivered(c, work[p]))
  BY PreparerTyped DEF TakeOver, At, Cache, Layout, Past
<1>2. Retains(c) \in BOOLEAN
  BY DEF Retains
<1>3. PICK w \in WorkType : w = [work[p] EXCEPT !.pc = "move", !.retain = Retains(c)]
  <2>1. [work[p] EXCEPT !.pc = "move", !.retain = Retains(c)] \in WorkType
    BY <1>1, <1>2 DEF WorkType, Selecting
  <2> QED
    BY <2>1
<1>4. work' = [work EXCEPT ![p] = w]
  BY <1>1, <1>3 DEF GalaxyInv, GalaxyTyped, WorkType
<1>5. /\ w.pc = "move" /\ w.sel = work[p].sel /\ w.repair = work[p].repair /\ w.disturbed = work[p].disturbed
      /\ w.retain = Retains(c)
      /\ w.moved = work[p].moved /\ w.linked = work[p].linked /\ w.before = work[p].before
  BY <1>1, <1>3 DEF WorkType
<1>6. entry[c] = w.before[1] /\ current[c] = w.before[2] /\ w.moved = << >> /\ w.linked = 0
  BY <1>1, <1>5 DEF Laid, Untouched
<1>7. MovedNames(w) = {} /\ MovedFits(w)
  BY <1>6 DEF MovedNames, MovedFits
<1>8. ~w.retain => w.before[1]["roles"] # "own" /\ w.before[1]["collections"] # "own"
  BY <1>5, <1>6 DEF Retains, OwnDirectories
<1>9. Moving(c, w) /\ Unlinked(c, w)
  BY <1>1, <1>6, <1>7 DEF Moving, Unlinked, StableLinks
<1>10. w.before \in [Links -> Kinds] \X Selections /\ w.before[2].gen <= Len(gens)
  BY <1>1, <1>5 DEF Laid
<1>11. Laid(c, w)
  BY <1>5, <1>6, <1>8, <1>9, <1>10 DEF Laid, Making
<1>12. Asked(c, w) /\ (~w.disturbed => Delivered(c, w))
  BY <1>1, <1>5 DEF Asked, Delivered, Suits, Making, Selecting
<1> QED
  BY <1>1, <1>4, <1>11, <1>12, Turns

LEMMA MoveKeeps == ASSUME GalaxyInv, NEW p \in Preparers, MoveAway(p) PROVE GalaxyInv'
<1> DEFINE c == HomeOf[p]
<1>1. /\ work[p].pc = "move" /\ work[p] \in WorkType /\ Past(work[p]) /\ c \in Checkouts /\ holder = {p}
      /\ UNCHANGED <<want, own, holder, bases, gens>>
      /\ Laid(c, work[p]) /\ Asked(c, work[p]) /\ (~work[p].disturbed => Delivered(c, work[p]))
      /\ CheckoutsTyped /\ CacheTyped /\ LegacyKept
      /\ entry[c] \in [Links -> Kinds] /\ current[c] \in Selections
  BY PreparerTyped DEF MoveAway, At, Cache, Past
<1>2. /\ Moving(c, work[p]) /\ Unlinked(c, work[p]) /\ work[p].linked = 0 /\ MovedFits(work[p])
      /\ work[p].before \in [Links -> Kinds] \X Selections /\ work[p].before[2].gen <= Len(gens)
      /\ (~work[p].retain => work[p].before[1]["roles"] # "own" /\ work[p].before[1]["collections"] # "own")
      /\ current[c] = IF "current" \in MovedNames(work[p]) THEN NoSelection ELSE work[p].before[2]
  BY <1>1 DEF Laid, Moving
<1>3. work[p].moved \in Seq(MovedEntries)
  BY <1>1 DEF WorkType
<1>4. CacheTyped'
  BY <1>1 DEF CacheTyped
<1>5. ASSUME NEW w \in WorkType, w.pc \in {"move", "link"}, w.sel = work[p].sel, w.repair = work[p].repair,
             w.disturbed = work[p].disturbed
      PROVE  Asked(c, w)' /\ (~w.disturbed => Delivered(c, w)')
  BY <1>1, <1>5 DEF Asked, Delivered, Suits, Making, Selecting
<1>6. ASSUME NEW k \in Present(c), entry' = [entry EXCEPT ![c][Order[k]] = "none"],
             kept' = [kept EXCEPT ![c] = IF entry[c][Order[k]] = "own" THEN @ \cup {Order[k]} ELSE @],
             work' = [work EXCEPT ![p].moved = Append(@, <<Order[k], entry[c][Order[k]]>>)], current' = current
      PROVE  GalaxyInv'
  <2>1. PICK n \in Links : n = Order[k] /\ entry[c][n] # "none"
    BY <1>6, OrderOfLinks DEF Present
  <2>2. n # "current" /\ n \notin MovedNames(work[p]) /\ entry[c][n] = work[p].before[1][n]
    BY <1>2, <2>1 DEF Unlinked, Links
  <2>3. PICK x \in MovedEntries : x = <<n, entry[c][n]>>
    BY <1>1, <2>1 DEF MovedEntries
  <2>4. PICK w \in WorkType : w = [work[p] EXCEPT !.moved = Append(work[p].moved, x)]
    <3>1. Append(work[p].moved, x) \in Seq(MovedEntries)
      BY <1>3
    <3>2. [work[p] EXCEPT !.moved = Append(work[p].moved, x)] \in WorkType
      BY <1>1, <3>1 DEF WorkType
    <3> QED
      BY <3>2
  <2>5. work' = [work EXCEPT ![p] = w]
    BY <1>1, <1>6, <2>1, <2>3, <2>4 DEF GalaxyInv, GalaxyTyped, WorkType
  <2>6. /\ w.pc = "move" /\ w.sel = work[p].sel /\ w.repair = work[p].repair /\ w.disturbed = work[p].disturbed
        /\ w.retain = work[p].retain /\ w.linked = 0 /\ w.before = work[p].before
        /\ w.moved = Append(work[p].moved, x)
    BY <1>1, <1>2, <2>4 DEF WorkType
  <2>7. MovedFits(w) /\ MovedNames(w) = MovedNames(work[p]) \cup {n}
    <3>1. x[1] = n /\ x[2] = IF x[1] = "current" THEN work[p].before[2] ELSE work[p].before[1][x[1]]
      BY <2>2, <2>3
    <3> PICK u : u = work[p]
      OBVIOUS
    <3>2. PICK m \in Seq(MovedEntries) : m = work[p].moved
      BY <1>3
    <3>3. /\ u.moved = m /\ w.moved = Append(m, x) /\ w.before = u.before /\ MovedFits(u) /\ x[1] \notin MovedNames(u)
          /\ x[2] = IF x[1] = "current" THEN u.before[2] ELSE u.before[1][x[1]]
      BY <1>2, <2>2, <2>6, <3>1, <3>2
    <3>4. MovedFits(w) /\ MovedNames(w) = MovedNames(u) \cup {x[1]}
      BY <3>2, <3>3, MovedMore
    <3> QED
      BY <3>1, <3>2, <3>4
  <2>8. /\ entry' = [entry EXCEPT ![c][n] = "none"]
        /\ kept' = [kept EXCEPT ![c] = IF entry[c][n] = "own" THEN @ \cup {n} ELSE @]
    BY <1>6, <2>1
  <2>9. /\ \A d \in Checkouts, l \in Links : entry'[d][l] = IF d = c /\ l = n THEN "none" ELSE entry[d][l]
        /\ \A d \in Checkouts, l \in Links : l \in kept[d] => l \in kept'[d]
        /\ entry[c][n] = "own" => n \in kept'[c]
    BY <1>1, <2>1, <2>8 DEF CheckoutsTyped
  <2>10. CheckoutsTyped'
    <3>1. entry' \in [Checkouts -> [Links -> Kinds]]
      BY <1>1, <2>8 DEF CheckoutsTyped, Kinds
    <3>2. kept' \in [Checkouts -> SUBSET Links]
      BY <1>1, <2>1, <2>8 DEF CheckoutsTyped
    <3> QED
      BY <1>1, <1>6, <3>1, <3>2 DEF CheckoutsTyped
  <2>11. LegacyKept'
    <3>1. \A l \in {"roles", "collections"} : l \in Links
      BY DEF Links
    <3> QED
      BY <1>1, <2>9, <3>1 DEF LegacyKept
  <2>12. Laid(c, w)'
    <3>1. Moving(c, w)'
      BY <1>2, <1>6, <2>2, <2>6, <2>7 DEF Moving
    <3>2. Unlinked(c, w)'
      BY <1>1, <1>2, <2>6, <2>7, <2>9 DEF Unlinked
    <3> QED
      BY <1>1, <1>2, <2>6, <3>1, <3>2 DEF Laid, Making
  <2> QED
    BY <1>1, <1>4, <1>5, <2>5, <2>6, <2>10, <2>11, <2>12, TakesTurn
<1>7. ASSUME Present(c) = {} PROVE (\A n \in Links : entry[c][n] = "none") /\ \A k \in 1 .. 3 : entry[c][Order[k]] = "none"
  BY <1>7, OrderOfLinks DEF Present
<1>8. ASSUME Present(c) = {}, current[c].gen > 0, current' = [current EXCEPT ![c] = NoSelection],
             work' = [work EXCEPT ![p].pc = "link", ![p].moved = Append(@, <<"current", current[c]>>)],
             entry' = entry, kept' = kept
      PROVE  GalaxyInv'
  <2>1. PICK x \in MovedEntries : x = <<"current", current[c]>>
    BY <1>1 DEF MovedEntries
  <2>2. PICK w \in WorkType : w = [work[p] EXCEPT !.pc = "link", !.moved = Append(work[p].moved, x)]
    <3>1. Append(work[p].moved, x) \in Seq(MovedEntries)
      BY <1>3
    <3>2. [work[p] EXCEPT !.pc = "link", !.moved = Append(work[p].moved, x)] \in WorkType
      BY <1>1, <3>1 DEF WorkType, Selecting
    <3> QED
      BY <3>2
  <2>3. work' = [work EXCEPT ![p] = w]
    BY <1>1, <1>8, <2>1, <2>2 DEF GalaxyInv, GalaxyTyped, WorkType
  <2>4. /\ w.pc = "link" /\ w.sel = work[p].sel /\ w.repair = work[p].repair /\ w.disturbed = work[p].disturbed
        /\ w.retain = work[p].retain /\ w.linked = 0 /\ w.before = work[p].before
        /\ w.moved = Append(work[p].moved, x)
    BY <1>1, <1>2, <2>2 DEF WorkType
  <2>5. "current" \notin MovedNames(work[p]) /\ current[c] = work[p].before[2]
    BY <1>2, <1>8 DEF NoSelection
  <2>6. MovedFits(w) /\ MovedNames(w) = MovedNames(work[p]) \cup {"current"}
    <3>1. x[1] = "current" /\ x[2] = IF x[1] = "current" THEN work[p].before[2] ELSE work[p].before[1][x[1]]
      BY <2>1, <2>5
    <3> PICK u : u = work[p]
      OBVIOUS
    <3>2. PICK m \in Seq(MovedEntries) : m = work[p].moved
      BY <1>3
    <3>3. /\ u.moved = m /\ w.moved = Append(m, x) /\ w.before = u.before /\ MovedFits(u) /\ x[1] \notin MovedNames(u)
          /\ x[2] = IF x[1] = "current" THEN u.before[2] ELSE u.before[1][x[1]]
      BY <1>2, <2>4, <2>5, <3>1, <3>2
    <3>4. MovedFits(w) /\ MovedNames(w) = MovedNames(u) \cup {x[1]}
      BY <3>2, <3>3, MovedMore
    <3> QED
      BY <3>1, <3>2, <3>4
  <2>7. current' \in [Checkouts -> Selections] /\ current'[c] = NoSelection /\ \A d \in Checkouts : current'[d].gen <= Len(gens)
    <3>1. NoSelection \in Selections /\ NoSelection.gen <= Len(gens)
      BY <1>1, PreparerTyped DEF NoSelection, Selections
    <3> QED
      BY <1>1, <1>8, <3>1 DEF CheckoutsTyped
  <2>8. CheckoutsTyped' /\ LegacyKept'
    BY <1>1, <1>8, <2>7 DEF CheckoutsTyped, LegacyKept
  <2>9. Laid(c, w)'
    <3>1. Moving(c, w)'
      BY <1>2, <2>4, <2>6, <2>7 DEF Moving
    <3>2. Emptied(w)
      BY <1>2, <1>7, <1>8, <2>4, <2>6 DEF Emptied, Unlinked
    <3> QED
      BY <1>1, <1>2, <1>7, <1>8, <2>4, <3>1, <3>2 DEF Laid, Making
  <2> QED
    BY <1>1, <1>4, <1>5, <2>3, <2>4, <2>8, <2>9, TakesTurn
<1>9. ASSUME Present(c) = {}, current[c].gen = 0, work' = [work EXCEPT ![p].pc = "link"],
             current' = current, entry' = entry, kept' = kept
      PROVE  GalaxyInv'
  <2>1. PICK w \in WorkType : w = [work[p] EXCEPT !.pc = "link"]
    <3>1. [work[p] EXCEPT !.pc = "link"] \in WorkType
      BY <1>1 DEF WorkType, Selecting
    <3> QED
      BY <3>1
  <2>2. work' = [work EXCEPT ![p] = w]
    BY <1>9, <2>1 DEF GalaxyInv, GalaxyTyped, WorkType
  <2>3. /\ w.pc = "link" /\ w.sel = work[p].sel /\ w.repair = work[p].repair /\ w.disturbed = work[p].disturbed
        /\ w.retain = work[p].retain /\ w.linked = 0 /\ w.before = work[p].before /\ w.moved = work[p].moved
    BY <1>1, <1>2, <2>1 DEF WorkType
  <2>4. Moving(c, w) /\ Emptied(w)
    <3>1. Emptied(work[p])
      BY <1>2, <1>7, <1>9 DEF Emptied, Unlinked
    <3> QED
      BY <1>1, <1>2, <2>3, <3>1, Compares
  <2>5. Laid(c, w)
    BY <1>2, <1>7, <1>9, <2>3, <2>4 DEF Laid, Making
  <2>6. Asked(c, w) /\ (~w.disturbed => Delivered(c, w))
    BY <1>1, <2>3 DEF Asked, Delivered, Suits, Making, Selecting
  <2> QED
    BY <1>1, <1>9, <2>2, <2>5, <2>6, Turns
<1> QED
  BY <1>6, <1>8, <1>9 DEF MoveAway, Layout

LEMMA LinkKeeps == ASSUME GalaxyInv, NEW p \in Preparers, PutLink(p) PROVE GalaxyInv'
<1> DEFINE c == HomeOf[p]
<1>1. /\ work[p].pc = "link" /\ work[p] \in WorkType /\ Past(work[p]) /\ c \in Checkouts /\ holder = {p}
      /\ UNCHANGED <<want, own, holder, kept, bases, gens>> /\ Len(gens) \in Nat
      /\ Laid(c, work[p]) /\ Asked(c, work[p]) /\ (~work[p].disturbed => Delivered(c, work[p]))
      /\ CheckoutsTyped /\ CacheTyped /\ LegacyKept
  BY PreparerTyped DEF PutLink, At, Cache, Past
<1>2. /\ Moving(c, work[p]) /\ Emptied(work[p]) /\ MovedFits(work[p])
      /\ work[p].before \in [Links -> Kinds] \X Selections /\ work[p].before[2].gen <= Len(gens)
      /\ (~work[p].retain => work[p].before[1]["roles"] # "own" /\ work[p].before[1]["collections"] # "own")
      /\ \A k \in 1 .. 3 : entry[c][Order[k]] = IF k <= work[p].linked THEN "link" ELSE "none"
  BY <1>1 DEF Laid, Moving
<1>3. work[p].linked \in 0 .. 3 /\ work[p].sel \in Selections /\ work[p].sel.gen \in 1 .. Len(gens)
  BY <1>1 DEF WorkType, Asked, Selecting
<1>4. CacheTyped'
  BY <1>1 DEF CacheTyped
<1>5. ASSUME NEW w \in WorkType, w.pc \in {"link", "tidy"}, w.sel = work[p].sel, w.repair = work[p].repair,
             w.disturbed = work[p].disturbed
      PROVE  Asked(c, w)' /\ (~w.disturbed => Delivered(c, w)')
  BY <1>1, <1>5 DEF Asked, Delivered, Suits, Making, Selecting
<1>6. CASE work[p].linked + 1 <= Len(Order)
  <2>1. PICK k \in 1 .. 3 : k = work[p].linked + 1
    BY <1>3, <1>6, OrderOfLinks
  <2>2. PICK n \in Links : n = Order[k]
    BY OrderOfLinks
  <2>3. /\ entry' = [entry EXCEPT ![c][n] = "link"] /\ current' = current
        /\ work' = [work EXCEPT ![p].linked = k]
    BY <1>6, <2>1, <2>2 DEF PutLink
  <2>4. PICK w \in WorkType : w = [work[p] EXCEPT !.linked = k]
    <3>1. [work[p] EXCEPT !.linked = k] \in WorkType
      BY <1>1 DEF WorkType
    <3> QED
      BY <3>1
  <2>5. work' = [work EXCEPT ![p] = w]
    BY <2>3, <2>4 DEF GalaxyInv, GalaxyTyped, WorkType
  <2>6. /\ w.pc = "link" /\ w.sel = work[p].sel /\ w.repair = work[p].repair /\ w.disturbed = work[p].disturbed
        /\ w.retain = work[p].retain /\ w.linked = k /\ w.before = work[p].before /\ w.moved = work[p].moved
    BY <1>1, <2>4 DEF WorkType
  <2>7. /\ \A d \in Checkouts, l \in Links : entry'[d][l] = IF d = c /\ l = n THEN "link" ELSE entry[d][l]
        /\ entry[c][n] = "none"
    BY <1>1, <1>2, <1>3, <2>1, <2>2, <2>3 DEF CheckoutsTyped
  <2>8. CheckoutsTyped'
    <3>1. entry' \in [Checkouts -> [Links -> Kinds]]
      BY <1>1, <2>3 DEF CheckoutsTyped, Kinds
    <3> QED
      BY <1>1, <2>3, <3>1 DEF CheckoutsTyped
  <2>9. LegacyKept'
    <3>1. \A l \in {"roles", "collections"} : l \in Links
      BY DEF Links
    <3> QED
      BY <1>1, <2>7, <3>1 DEF LegacyKept
  <2>10. \A j \in 1 .. 3 : entry'[c][Order[j]] = IF j <= k THEN "link" ELSE "none"
    <3> SUFFICES ASSUME NEW j \in 1 .. 3 PROVE entry'[c][Order[j]] = IF j <= k THEN "link" ELSE "none"
      OBVIOUS
    <3>1. Order[j] \in Links /\ (Order[j] = n <=> j = k)
      BY <2>2, OrderOfLinks
    <3>2. CASE j = k
      BY <1>1, <2>7, <3>1, <3>2
    <3>3. CASE j # k
      BY <1>1, <1>2, <1>3, <2>1, <2>7, <3>1, <3>3
    <3> QED
      BY <3>2, <3>3
  <2>11. Moving(c, w)' /\ Emptied(w)
    <3>1. Moving(c, w) /\ Emptied(w)
      BY <1>1, <1>2, <2>6, Compares
    <3> QED
      BY <2>3, <3>1 DEF Moving
  <2>12. Laid(c, w)'
    BY <1>1, <1>2, <2>6, <2>10, <2>11 DEF Laid, Making
  <2> QED
    BY <1>1, <1>4, <1>5, <2>5, <2>6, <2>8, <2>9, <2>12, TakesTurn
<1>7. CASE ~(work[p].linked + 1 <= Len(Order))
  <2>1. work[p].linked = 3
    BY <1>3, <1>7, OrderOfLinks
  <2>2. /\ current' = [current EXCEPT ![c] = work[p].sel] /\ entry' = entry
        /\ work' = [work EXCEPT ![p].pc = "tidy"]
    BY <1>7 DEF PutLink
  <2>3. PICK w \in WorkType : w = [work[p] EXCEPT !.pc = "tidy"]
    <3>1. [work[p] EXCEPT !.pc = "tidy"] \in WorkType
      BY <1>1 DEF WorkType, Selecting
    <3> QED
      BY <3>1
  <2>4. work' = [work EXCEPT ![p] = w]
    BY <2>2, <2>3 DEF GalaxyInv, GalaxyTyped, WorkType
  <2>5. /\ w.pc = "tidy" /\ w.sel = work[p].sel /\ w.repair = work[p].repair /\ w.disturbed = work[p].disturbed
        /\ w.retain = work[p].retain /\ w.before = work[p].before /\ w.moved = work[p].moved
    BY <1>1, <2>3 DEF WorkType
  <2>6. current' \in [Checkouts -> Selections] /\ current'[c] = work[p].sel /\ \A d \in Checkouts : current'[d].gen <= Len(gens)
    BY <1>1, <1>3, <2>2 DEF CheckoutsTyped
  <2>7. CheckoutsTyped' /\ LegacyKept'
    BY <1>1, <2>2, <2>6 DEF CheckoutsTyped, LegacyKept
  <2>8. \A n \in Links : entry'[c][n] = "link"
    BY <1>2, <2>1, <2>2, OrderOfLinks
  <2>9. MovedFits(w)
    BY <1>2, <2>5 DEF MovedFits
  <2>10. Laid(c, w)'
    BY <1>1, <1>2, <2>5, <2>6, <2>8, <2>9 DEF Laid, Making
  <2> QED
    BY <1>1, <1>4, <1>5, <2>4, <2>5, <2>7, <2>10, TakesTurn
<1> QED
  BY <1>6, <1>7

LEMMA TidyKeeps == ASSUME GalaxyInv, NEW p \in Preparers, Tidy(p) PROVE GalaxyInv'
<1> DEFINE c == HomeOf[p]
<1>1. /\ work[p].pc = "tidy" /\ work[p] \in WorkType /\ Past(work[p]) /\ c \in Checkouts
      /\ holder' = {} /\ work' = [work EXCEPT ![p] = Idle] /\ UNCHANGED <<want, own, entry, current, bases, gens>>
      /\ Laid(c, work[p]) /\ CheckoutsTyped /\ CacheTyped /\ LegacyKept
      /\ kept' = [kept EXCEPT ![c] = @ \ (IF work[p].retain THEN {"requirements"} ELSE BackedUp(p))]
  BY PreparerTyped DEF Tidy, At, End, Cache, Past
<1>2. ASSUME NEW n \in {"roles", "collections"} PROVE \A d \in Checkouts : n \in kept[d] => n \in kept'[d]
  <2>1. CASE work[p].retain
    BY <1>1, <2>1 DEF CheckoutsTyped
  <2>2. CASE ~work[p].retain
    <3>1. work[p].before[1][n] # "own" /\ MovedFits(work[p])
      BY <1>1, <2>2 DEF Laid
    <3>2. n \notin BackedUp(p)
      BY <3>1 DEF BackedUp, MovedFits
    <3> QED
      BY <1>1, <2>2, <3>2 DEF CheckoutsTyped
  <2> QED
    BY <2>1, <2>2
<1>3. LegacyKept'
  BY <1>1, <1>2 DEF LegacyKept
<1>4. CheckoutsTyped'
  BY <1>1 DEF CheckoutsTyped
<1>5. bases' \in [Versions -> Bases]
  BY <1>1 DEF CacheTyped
<1> QED
  BY <1>1, <1>3, <1>4, <1>5, Finishes

LEMMA UndoLinkKeeps == ASSUME GalaxyInv, NEW p \in Preparers, UndoLink(p) PROVE GalaxyInv'
<1> DEFINE c == HomeOf[p]
           left == {k \in 1 .. work[p].linked : entry[c][Order[k]] = "link"}
<1>1. /\ work[p].pc = "undo" /\ work[p] \in WorkType /\ Past(work[p]) /\ c \in Checkouts /\ holder = {p}
      /\ work[p].linked > 0 /\ work[p].linked \in 0 .. 3
      /\ UNCHANGED <<want, own, holder, current, kept, bases, gens>>
      /\ Laid(c, work[p]) /\ CheckoutsTyped /\ CacheTyped /\ LegacyKept
  BY PreparerTyped DEF UndoLink, At, Cache, Past, WorkType
<1>2. /\ Moving(c, work[p]) /\ Emptied(work[p])
      /\ work[p].before \in [Links -> Kinds] \X Selections /\ work[p].before[2].gen <= Len(gens)
      /\ \A k \in 1 .. 3 : entry[c][Order[k]] \in {"none"} \cup (IF k <= work[p].linked THEN {"link"} ELSE {})
  BY <1>1 DEF Laid
<1>3. CacheTyped'
  BY <1>1 DEF CacheTyped
<1>4. CASE left # {}
  <2>1. \E k \in left : \A j \in left : k <= j
    <3>1. left \subseteq 1 .. 3
      BY <1>1
    <3>2. CASE 1 \in left
      BY <3>1, <3>2
    <3>3. CASE 1 \notin left /\ 2 \in left
      BY <3>1, <3>3
    <3>4. CASE 1 \notin left /\ 2 \notin left
      BY <1>4, <3>1, <3>4
    <3> QED
      BY <3>2, <3>3, <3>4
  <2>2. PICK k \in left : entry' = [entry EXCEPT ![c][Order[k]] = "none"] /\ work' = work
    <3>1. (CHOOSE k \in left : \A j \in left : k <= j) \in left
      BY <2>1
    <3> QED
      BY <1>4, <3>1 DEF UndoLink
  <2>3. PICK n \in Links : n = Order[k] /\ entry[c][n] = "link"
    BY <1>1, OrderOfLinks
  <2>4. \A d \in Checkouts, l \in Links : entry'[d][l] = IF d = c /\ l = n THEN "none" ELSE entry[d][l]
    BY <1>1, <2>2, <2>3 DEF CheckoutsTyped
  <2>5. CheckoutsTyped'
    <3>1. entry' \in [Checkouts -> [Links -> Kinds]]
      BY <1>1, <2>2 DEF CheckoutsTyped, Kinds
    <3> QED
      BY <1>1, <3>1 DEF CheckoutsTyped
  <2>6. LegacyKept'
    <3>1. \A l \in {"roles", "collections"} : l \in Links
      BY DEF Links
    <3> QED
      BY <1>1, <2>3, <2>4, <3>1 DEF LegacyKept
  <2>7. PICK w \in WorkType : w = work[p]
    BY <1>1
  <2>8. work' = [work EXCEPT ![p] = w]
    BY <2>2, <2>7 DEF GalaxyInv, GalaxyTyped
  <2>9. \A j \in 1 .. 3 : entry'[c][Order[j]] \in {"none"} \cup (IF j <= w.linked THEN {"link"} ELSE {})
    BY <1>1, <1>2, <2>4, <2>7, OrderOfLinks
  <2>10. Moving(c, w)'
    BY <1>1, <1>2, <2>7 DEF Moving
  <2>11. Laid(c, w)'
    BY <1>1, <1>2, <2>7, <2>9, <2>10 DEF Laid, Making
  <2>12. Asked(c, w)' /\ Delivered(c, w)'
    BY <1>1, <2>7 DEF Asked, Delivered, Making, Selecting
  <2> QED
    BY <1>1, <1>3, <2>5, <2>6, <2>8, <2>11, <2>12, TakesTurn
<1>5. CASE left = {}
  <2>1. entry' = entry /\ work' = [work EXCEPT ![p].linked = 0]
    BY <1>5 DEF UndoLink
  <2>2. PICK w \in WorkType : w = [work[p] EXCEPT !.linked = 0]
    <3>1. [work[p] EXCEPT !.linked = 0] \in WorkType
      BY <1>1 DEF WorkType
    <3> QED
      BY <3>1
  <2>3. work' = [work EXCEPT ![p] = w]
    BY <2>1, <2>2 DEF GalaxyInv, GalaxyTyped, WorkType
  <2>4. w.pc = "undo" /\ w.linked = 0 /\ w.before = work[p].before /\ w.moved = work[p].moved
    BY <1>1, <2>2 DEF WorkType
  <2>5. \A n \in Links : entry[c][n] = "none"
    <3>1. \A k \in 1 .. 3 : entry[c][Order[k]] = "none"
      BY <1>1, <1>2, <1>5
    <3> QED
      BY <3>1, OrderOfLinks
  <2>6. Moving(c, w) /\ Unlinked(c, w)
    <3>1. Unlinked(c, work[p])
      BY <1>2, <2>5 DEF Emptied, Unlinked
    <3> QED
      BY <1>1, <1>2, <2>4, <3>1, Compares
  <2>7. Laid(c, w)
    BY <1>2, <2>4, <2>6 DEF Laid, Making
  <2>8. Asked(c, w) /\ Delivered(c, w)
    BY <2>4 DEF Asked, Delivered, Making, Selecting
  <2> QED
    BY <1>1, <2>1, <2>3, <2>7, <2>8, Turns
<1> QED
  BY <1>4, <1>5

LEMMA UndoMoveKeeps == ASSUME GalaxyInv, NEW p \in Preparers, UndoMove(p) PROVE GalaxyInv'
<1> DEFINE c == HomeOf[p]
<1>1. /\ work[p].pc = "undo" /\ work[p] \in WorkType /\ Past(work[p]) /\ c \in Checkouts /\ holder = {p}
      /\ work[p].linked = 0 /\ work[p].moved # << >>
      /\ UNCHANGED <<want, own, holder, bases, gens>>
      /\ Laid(c, work[p]) /\ CheckoutsTyped /\ CacheTyped /\ LegacyKept
  BY PreparerTyped DEF UndoMove, At, Cache, Past
<1>2. /\ Moving(c, work[p]) /\ Unlinked(c, work[p]) /\ MovedFits(work[p])
      /\ work[p].before \in [Links -> Kinds] \X Selections /\ work[p].before[2].gen <= Len(gens)
      /\ current[c] = IF "current" \in MovedNames(work[p]) THEN NoSelection ELSE work[p].before[2]
  BY <1>1 DEF Laid, Moving
<1>3. PICK m \in Seq(MovedEntries) : m = work[p].moved
  BY <1>1 DEF WorkType
<1>4. PICK u \in WorkType : u = work[p]
  BY <1>1
<1>5. Front(m) \in Seq(MovedEntries)
  <2>1. Len(m) \in Nat /\ Len(m) > 0
    BY <1>1, <1>3
  <2> QED
    BY <2>1 DEF Front
<1>6. PICK w \in WorkType : w = [u EXCEPT !.moved = Front(m)]
  <2>1. [u EXCEPT !.moved = Front(m)] \in WorkType
    BY <1>5 DEF WorkType
  <2> QED
    BY <2>1
<1>7. work' = [work EXCEPT ![p] = w]
  BY <1>3, <1>4, <1>6 DEF UndoMove, GalaxyInv, GalaxyTyped, WorkType
<1>8. w.pc = "undo" /\ w.linked = 0 /\ w.before = u.before /\ w.moved = Front(m) /\ u.moved = m
  BY <1>1, <1>3, <1>4, <1>6 DEF WorkType
<1>9. PICK x \in MovedEntries :
        /\ x = Last(m) /\ x[1] \in MovedNames(u) /\ MovedFits(w) /\ MovedNames(w) = MovedNames(u) \ {x[1]}
        /\ x[2] = IF x[1] = "current" THEN u.before[2] ELSE u.before[1][x[1]]
  <2>1. m # << >> /\ MovedFits(u)
    BY <1>1, <1>2, <1>3, <1>4
  <2> QED
    BY <1>8, <2>1, MovedLess
<1>10. CacheTyped'
  BY <1>1 DEF CacheTyped
<1>11. Asked(c, w)' /\ Delivered(c, w)'
  BY <1>8 DEF Asked, Delivered, Making, Selecting
<1>12. CASE x[1] = "current"
  <2>1. current' = [current EXCEPT ![c] = x[2]] /\ entry' = entry /\ kept' = kept
    BY <1>3, <1>9, <1>12 DEF UndoMove
  <2>2. x[2] \in Selections /\ x[2] = u.before[2] /\ x[2].gen <= Len(gens)
    BY <1>2, <1>4, <1>9, <1>12, EntriesTyped
  <2>3. current' \in [Checkouts -> Selections] /\ current'[c] = u.before[2] /\ \A d \in Checkouts : current'[d].gen <= Len(gens)
    BY <1>1, <2>1, <2>2 DEF CheckoutsTyped
  <2>4. CheckoutsTyped' /\ LegacyKept'
    BY <1>1, <2>1, <2>3 DEF CheckoutsTyped, LegacyKept
  <2>5. Moving(c, w)' /\ Unlinked(c, w)'
    <3>1. "current" \notin Links
      BY DEF Links
    <3>2. ~((\A n \in Links : w.before[1][n] = "link") /\ w.before[2].gen > 0)
      BY <1>2, <1>4, <1>8 DEF Moving
    <3>3. Moving(c, w)'
      BY <1>8, <1>9, <1>12, <2>3, <3>2 DEF Moving
    <3>4. Unlinked(c, w)'
      BY <1>2, <1>4, <1>8, <1>9, <1>12, <2>1, <3>1 DEF Unlinked
    <3> QED
      BY <3>3, <3>4
  <2>6. Laid(c, w)'
    BY <1>1, <1>2, <1>4, <1>8, <2>5 DEF Laid, Making
  <2> QED
    BY <1>1, <1>7, <1>10, <1>11, <2>4, <2>6, TakesTurn
<1>13. CASE x[1] # "current"
  <2>1. PICK n \in Links : n = x[1] /\ x[2] \in Kinds /\ x[2] = u.before[1][n]
    BY <1>9, <1>13, EntriesTyped
  <2>2. /\ current' = current /\ entry' = [entry EXCEPT ![c][n] = x[2]]
        /\ kept' = [kept EXCEPT ![c] = IF x[2] = "own" THEN @ \ {n} ELSE @]
    BY <1>3, <1>9, <1>13, <2>1 DEF UndoMove
  <2>3. entry[c][n] = "none"
    BY <1>2, <1>4, <1>9, <2>1 DEF Unlinked
  <2>4. \A d \in Checkouts, l \in Links : entry'[d][l] = IF d = c /\ l = n THEN x[2] ELSE entry[d][l]
    BY <1>1, <2>1, <2>2 DEF CheckoutsTyped
  <2>5. \A d \in Checkouts, l \in Links : l \in kept[d] => l \in kept'[d] \/ (d = c /\ l = n /\ x[2] = "own")
    BY <1>1, <2>1, <2>2 DEF CheckoutsTyped
  <2>6. CheckoutsTyped'
    <3>1. entry' \in [Checkouts -> [Links -> Kinds]]
      BY <1>1, <2>1, <2>2 DEF CheckoutsTyped
    <3>2. kept' \in [Checkouts -> SUBSET Links]
      BY <1>1, <2>2 DEF CheckoutsTyped
    <3> QED
      BY <1>1, <2>2, <3>1, <3>2 DEF CheckoutsTyped
  <2>7. LegacyKept'
    <3>1. \A l \in {"roles", "collections"} : l \in Links
      BY DEF Links
    <3> SUFFICES ASSUME NEW d \in Checkouts, own[d].had, NEW l \in {"roles", "collections"}
                 PROVE  entry'[d][l] = "own" \/ l \in kept'[d]
      BY <1>1 DEF LegacyKept
    <3>2. entry[d][l] = "own" \/ l \in kept[d]
      BY <1>1 DEF LegacyKept
    <3> QED
      BY <1>1, <2>3, <2>4, <2>5, <3>1, <3>2
  <2>8. Moving(c, w)'
    <3>1. "current" \in MovedNames(w) <=> "current" \in MovedNames(u)
      BY <1>9, <1>13
    <3>2. ~((\A l \in Links : w.before[1][l] = "link") /\ w.before[2].gen > 0)
      BY <1>2, <1>4, <1>8 DEF Moving
    <3> QED
      BY <1>2, <1>4, <1>8, <1>9, <2>2, <3>1, <3>2 DEF Moving
  <2>9. Unlinked(c, w)'
    BY <1>1, <1>2, <1>4, <1>8, <1>9, <2>1, <2>4 DEF Unlinked
  <2>10. Laid(c, w)'
    BY <1>1, <1>2, <1>4, <1>8, <2>8, <2>9 DEF Laid, Making
  <2> QED
    BY <1>1, <1>7, <1>10, <1>11, <2>6, <2>7, <2>10, TakesTurn
<1> QED
  BY <1>12, <1>13

-----------------------------------------------------------------------------
(* Failures, kills, edits and damage. *)

LEMMA RemainsTyped == ASSUME NEW b \in Bases PROVE Remains(b) \subseteq Bases
<1>1. NoBase \in Bases
  BY DEF NoBase, Bases
<1>2. [req |-> b.req, whole |-> FALSE] \in Bases
  BY DEF Bases
<1> QED
  BY <1>1, <1>2 DEF Remains

\* A base that is being removed when its preparer fails or is killed.
LEMMA LeftTyped ==
    ASSUME GalaxyInv, NEW p \in Preparers,
           IF Removes(p)
           THEN \E b \in Remains(bases[work[p].hash.req]) : bases' = [bases EXCEPT ![work[p].hash.req] = b]
           ELSE UNCHANGED bases
    PROVE  bases' \in [Versions -> Bases]
<1>1. bases \in [Versions -> Bases]
  BY PreparerTyped DEF CacheTyped
<1>2. CASE Removes(p)
  <2>1. work[p].hash \in Files
    BY <1>2, PreparerTyped DEF Removes, Asked, Making
  <2>2. bases[work[p].hash.req] \in Bases
    BY <1>1, <2>1 DEF Files
  <2> QED
    BY <1>1, <1>2, <2>2, RemainsTyped
<1> QED
  BY <1>1, <1>2

LEMMA FailKeeps == ASSUME GalaxyInv, NEW p \in Preparers, Fails(p) PROVE GalaxyInv'
<1> DEFINE c == HomeOf[p]
<1>1. /\ work[p].pc \notin {"idle", "waiting", "undo", "tidy"} /\ work[p] \in WorkType /\ Past(work[p])
      /\ UNCHANGED <<want, own, gens, entry, current, kept>>
      /\ Laid(c, work[p]) /\ CheckoutsTyped /\ CacheTyped /\ LegacyKept
  BY PreparerTyped DEF Fails, Layout, Past
<1>2. CASE work[p].pc \in {"move", "link"}
  <2>1. work' = [work EXCEPT ![p].pc = "undo"] /\ UNCHANGED <<holder, bases>>
    BY <1>2 DEF Fails
  <2>2. PICK w \in WorkType : w = [work[p] EXCEPT !.pc = "undo"]
    <3>1. [work[p] EXCEPT !.pc = "undo"] \in WorkType
      BY <1>1 DEF WorkType
    <3> QED
      BY <3>1
  <2>3. work' = [work EXCEPT ![p] = w]
    BY <2>1, <2>2 DEF GalaxyInv, GalaxyTyped, WorkType
  <2>4. w.pc = "undo" /\ w.linked = work[p].linked /\ w.before = work[p].before /\ w.moved = work[p].moved /\ w.linked \in 0 .. 3
    BY <1>1, <2>2 DEF WorkType
  <2>5. Moving(c, w)
    <3>1. Moving(c, work[p]) /\ c \in Checkouts
      BY <1>1, <1>2, PreparerTyped DEF Laid
    <3> QED
      BY <2>4, <3>1, Compares
  <2>6. /\ w.before \in [Links -> Kinds] \X Selections /\ w.before[2].gen <= Len(gens)
        /\ work[p].pc = "move" => w.linked = 0 /\ Unlinked(c, work[p])
        /\ work[p].pc = "link" => /\ Emptied(work[p])
                                  /\ \A k \in 1 .. 3 : entry[c][Order[k]] = IF k <= w.linked THEN "link" ELSE "none"
    BY <1>1, <2>4 DEF Laid
  <2>7. w.linked > 0 => /\ Emptied(w)
                        /\ \A k \in 1 .. 3 : entry[c][Order[k]] \in {"none"} \cup (IF k <= w.linked THEN {"link"} ELSE {})
    BY <1>2, <2>4, <2>6 DEF Emptied, MovedNames
  <2>8. w.linked = 0 => Unlinked(c, w)
    <3>1. CASE work[p].pc = "move"
      BY <2>4, <2>6, <3>1 DEF Unlinked, MovedNames
    <3>2. CASE work[p].pc = "link" /\ w.linked = 0
      <4>1. \A k \in 1 .. 3 : entry[c][Order[k]] = "none"
        BY <2>6, <3>2
      <4>2. \A n \in Links : entry[c][n] = "none"
        BY <4>1, OrderOfLinks
      <4> QED
        BY <2>4, <2>6, <3>2, <4>2 DEF Unlinked, Emptied, MovedNames
    <3> QED
      BY <1>2, <3>1, <3>2
  <2>9. Laid(c, w)
    BY <2>4, <2>5, <2>6, <2>7, <2>8 DEF Laid, Making
  <2>10. Asked(c, w) /\ Delivered(c, w)
    BY <2>4 DEF Asked, Delivered, Making, Selecting
  <2> QED
    BY <1>1, <2>1, <2>3, <2>9, <2>10, Turns
<1>3. CASE work[p].pc \notin {"move", "link"}
  <2>1. /\ holder' = {} /\ work' = [work EXCEPT ![p] = Idle]
        /\ IF Removes(p)
           THEN \E b \in Remains(bases[work[p].hash.req]) : bases' = [bases EXCEPT ![work[p].hash.req] = b]
           ELSE UNCHANGED bases
    BY <1>3 DEF Fails, End
  <2>2. bases' \in [Versions -> Bases]
    BY <2>1, LeftTyped
  <2>3. CheckoutsTyped' /\ LegacyKept'
    BY <1>1 DEF CheckoutsTyped, LegacyKept
  <2> QED
    BY <1>1, <2>1, <2>2, <2>3, Finishes
<1> QED
  BY <1>2, <1>3

LEMMA KillKeeps == ASSUME GalaxyInv, NEW p \in Preparers, Kill(p) PROVE GalaxyInv'
<1>1. /\ work[p].pc # "idle" /\ holder' = holder \ {p} /\ work' = [work EXCEPT ![p] = Idle]
      /\ UNCHANGED <<want, own, gens, entry, current, kept>>
      /\ CheckoutsTyped /\ CacheTyped /\ LegacyKept
  BY PreparerTyped DEF Kill, Layout
<1>2. bases' \in [Versions -> Bases]
  BY LeftTyped DEF Kill
<1>3. CheckoutsTyped' /\ LegacyKept'
  BY <1>1 DEF CheckoutsTyped, LegacyKept
<1>4. CASE Past(work[p])
  BY <1>1, <1>2, <1>3, <1>4, Finishes
<1>5. CASE ~Past(work[p])
  <2>1. work[p].pc = "waiting" /\ bases' = bases
    BY <1>1, <1>5 DEF Past, Kill, Removes
  <2>2. \A q \in Preparers : Past(work[q]) => holder = {q} /\ q # p
    BY <1>5, PreparerTyped
  <2>3. holder' = holder \/ \A q \in Preparers : ~Past(work[q])
    BY <1>1, <2>2
  <2>4. work \in [Preparers -> WorkType]
    BY DEF GalaxyInv, GalaxyTyped
  <2>5. work' \in [Preparers -> WorkType] /\ work'[p] = Idle /\ \A q \in Preparers \ {p} : work'[q] = work[q]
    BY <1>1, <2>4, IdleTyped
  <2>6. Fits(p)'
    BY <2>5, IdleTyped DEF Fits, Asked, Past, Making, Selecting
  <2>7. ASSUME NEW q \in Preparers \ {p} PROVE Fits(q)'
    <3>1. PICK u : u = work[q]
      OBVIOUS
    <3>2. work'[q] = u /\ Fits(q) /\ (Past(u) => holder' = {q})
      BY <1>1, <2>2, <2>3, <2>5, <3>1 DEF GalaxyInv
    <3>3. (Asked(HomeOf[q], u)' <=> Asked(HomeOf[q], u)) /\ (Laid(HomeOf[q], u)' <=> Laid(HomeOf[q], u))
          /\ (Delivered(HomeOf[q], u)' <=> Delivered(HomeOf[q], u))
      BY <1>1, <2>1, AsItWas
    <3> QED
      BY <3>1, <3>2, <3>3 DEF Fits, Past
  <2>8. CacheTyped'
    BY <1>1, <2>1 DEF CacheTyped
  <2> QED
    BY <1>3, <2>5, <2>6, <2>7, <2>8 DEF GalaxyInv, GalaxyTyped
<1> QED
  BY <1>4, <1>5

\* Preparers that are past the lock, where something changes under them, are disturbed.
LEMMA Disturbs ==
    ASSUME GalaxyInv, NEW C \in SUBSET Checkouts, work' = Disturb(C),
           UNCHANGED <<entry, current, holder, kept, own>>,
           CheckoutsTyped', CacheTyped', LegacyKept', Len(gens') = Len(gens),
           \/ UNCHANGED <<bases, gens>> /\ \A c \in Checkouts \ C : want'[c] = want[c]
           \/ C = Checkouts
    PROVE  GalaxyInv'
<1>1. work \in [Preparers -> WorkType]
  BY DEF GalaxyInv, GalaxyTyped
<1>2. ASSUME NEW p \in Preparers
      PROVE /\ work'[p] \in WorkType
            /\ work'[p] = [work[p] EXCEPT !.disturbed = work'[p].disturbed]
            /\ work'[p] = work[p] \/ (Past(work[p]) /\ HomeOf[p] \in C)
            /\ Past(work[p]) /\ HomeOf[p] \in C => work'[p].disturbed
  <2>1. CASE HomeOf[p] \in C /\ Past(work[p])
    <3>1. PICK w \in WorkType : w = work[p]
      BY <1>1
    <3>2. work'[p] = [w EXCEPT !.disturbed = TRUE]
      BY <2>1, <3>1 DEF Disturb, Past
    <3>3. work'[p] \in WorkType /\ work'[p].disturbed = TRUE
      BY <3>2 DEF WorkType
    <3> QED
      BY <2>1, <3>1, <3>2, <3>3
  <2>2. CASE ~(HomeOf[p] \in C /\ Past(work[p]))
    <3>1. work'[p] = work[p]
      BY <2>2 DEF Disturb, Past
    <3> QED
      BY <1>1, <2>2, <3>1 DEF WorkType
  <2> QED
    BY <2>1, <2>2
<1>3. work' \in [Preparers -> WorkType]
  <2>1. work' = [p \in Preparers |-> work'[p]]
    BY DEF Disturb
  <2> QED
    BY <1>2, <2>1
<1>4. ASSUME NEW p \in Preparers PROVE Fits(p)'
  <2> DEFINE c == HomeOf[p]
  <2>1. PICK w \in WorkType : w = work[p]
    BY <1>1
  <2>2. PICK u \in WorkType : u = work'[p]
    BY <1>2
  <2>3. /\ u.pc = w.pc /\ u.hash = w.hash /\ u.gen = w.gen /\ u.sel = w.sel /\ u.moved = w.moved
        /\ u.linked = w.linked /\ u.before = w.before /\ u.retain = w.retain
    <3>1. u = [w EXCEPT !.disturbed = u.disturbed]
      BY <1>2, <2>1, <2>2
    <3> QED
      BY <3>1 DEF WorkType
  <2>4. Asked(c, u)'
    <3>1. Asked(c, w)
      BY <2>1, PreparerTyped
    <3> QED
      BY <2>3, <3>1 DEF Asked
  <2>5. Past(u) => holder' = {p} /\ Laid(c, u)'
    <3>1. Past(w) => holder = {p} /\ Laid(c, w)
      BY <2>1, PreparerTyped
    <3>2. c \in Checkouts
      BY PreparerTyped
    <3>3. Laid(c, w) => Laid(c, u)
      <4>1. /\ (MovedFits(w) <=> MovedFits(u)) /\ (Emptied(w) <=> Emptied(u))
            /\ (Moving(c, w) <=> Moving(c, u)) /\ (Unlinked(c, w) <=> Unlinked(c, u))
            /\ (Untouched(c, w) <=> Untouched(c, u))
        BY <2>3, <3>2, Compares DEF Untouched
      <4> QED
        BY <2>3, <4>1 DEF Laid
    <3>4. Laid(c, u)' <=> Laid(c, u)
      <4>1. (Untouched(c, u)' <=> Untouched(c, u)) /\ (Moving(c, u)' <=> Moving(c, u)) /\ (Unlinked(c, u)' <=> Unlinked(c, u))
        BY DEF Untouched, Moving, Unlinked
      <4> QED
        BY <4>1 DEF Laid
    <3> QED
      BY <2>3, <3>1, <3>3, <3>4 DEF Past
  <2>6. Past(u) /\ ~u.disturbed => Delivered(c, u)'
    <3> SUFFICES ASSUME Past(u), ~u.disturbed PROVE Delivered(c, u)'
      OBVIOUS
    <3>1. c \in Checkouts
      BY PreparerTyped
    <3>2. Past(w) /\ c \notin C /\ u = w
      BY <1>2, <2>1, <2>2, <2>3 DEF Past
    <3>3. UNCHANGED <<bases, gens>> /\ want'[c] = want[c] /\ Delivered(c, w)
      BY <2>1, <3>1, <3>2, PreparerTyped
    <3> QED
      BY <3>2, <3>3 DEF Delivered, Suits
  <2> QED
    BY <2>2, <2>4, <2>5, <2>6 DEF Fits
<1> QED
  BY <1>3, <1>4 DEF GalaxyInv, GalaxyTyped

LEMMA EditKeeps == ASSUME GalaxyInv, NEW c \in Checkouts, Edit(c) PROVE GalaxyInv'
<1>1. /\ UNCHANGED <<own, holder, bases, gens, entry, current, kept>> /\ work' = Disturb({c})
      /\ GalaxyTyped /\ LegacyKept
  BY DEF Edit, Cache, Layout, GalaxyInv
<1>2. want' \in [Checkouts -> Files] /\ \A d \in Checkouts \ {c} : want'[d] = want[d]
  BY <1>1 DEF Edit, GalaxyTyped, CheckoutsTyped
<1>3. CheckoutsTyped' /\ CacheTyped' /\ LegacyKept'
  BY <1>1, <1>2 DEF GalaxyTyped, CheckoutsTyped, CacheTyped, LegacyKept
<1> QED
  BY <1>1, <1>2, <1>3, Disturbs

LEMMA DamageKeeps == ASSUME GalaxyInv, Damage PROVE GalaxyInv'
<1>1. /\ UNCHANGED <<want, own, holder, entry, current, kept>> /\ work' = Disturb(Checkouts)
      /\ CheckoutsTyped /\ CacheTyped /\ LegacyKept
  BY DEF Damage, Layout, GalaxyInv, GalaxyTyped
<1>2. bases' \in [Versions -> Bases] /\ gens' \in Seq(Generations) /\ Len(gens') = Len(gens)
  <2>1. ASSUME NEW i \in DOMAIN gens, NEW o \in Overrides \cup {gens[i].ovr},
               gens' = [gens EXCEPT ![i].whole = FALSE, ![i].ovr = o], UNCHANGED bases
        PROVE  bases' \in [Versions -> Bases] /\ gens' \in Seq(Generations) /\ Len(gens') = Len(gens)
    <3>1. gens \in Seq(Generations) /\ i \in 1 .. Len(gens) /\ gens[i] \in Generations
      BY <1>1 DEF CacheTyped
    <3>2. PICK g \in Generations : g = [gens[i] EXCEPT !.whole = FALSE, !.ovr = o]
      BY <3>1 DEF Generations
    <3>3. gens' = [gens EXCEPT ![i] = g]
      BY <2>1, <3>1, <3>2 DEF Generations
    <3>4. gens' \in Seq(Generations) /\ Len(gens') = Len(gens)
      BY <3>1, <3>3
    <3> QED
      BY <1>1, <2>1, <3>4 DEF CacheTyped
  <2>2. ASSUME NEW v \in Versions, NEW b \in Remains(bases[v]), bases' = [bases EXCEPT ![v] = b], UNCHANGED gens
        PROVE  bases' \in [Versions -> Bases] /\ gens' \in Seq(Generations) /\ Len(gens') = Len(gens)
    <3>1. bases[v] \in Bases
      BY <1>1 DEF CacheTyped
    <3>2. b \in Bases
      BY <3>1, RemainsTyped
    <3> QED
      BY <1>1, <2>2, <3>2 DEF CacheTyped
  <2> QED
    BY <2>1, <2>2 DEF Damage
<1>3. CheckoutsTyped' /\ CacheTyped' /\ LegacyKept'
  BY <1>1, <1>2 DEF CheckoutsTyped, CacheTyped, LegacyKept
<1>4. Checkouts \in SUBSET Checkouts
  OBVIOUS
<1> QED
  BY <1>1, <1>2, <1>3, <1>4, Disturbs

-----------------------------------------------------------------------------
(* The invariant. *)

LEMMA GalaxyStarts == ASSUME GalaxyInit PROVE GalaxyInv
<1>1. PICK layout \in [Checkouts -> {"none", "own", "other"}] :
         /\ entry = [c \in Checkouts |-> [n \in Links |-> layout[c]]]
         /\ own = [c \in Checkouts |-> [req |-> want[c].req, ovr |-> want[c].ovr, had |-> layout[c] = "own"]]
  BY DEF GalaxyInit
<1>2. /\ want \in [Checkouts -> Files] /\ current = [c \in Checkouts |-> NoSelection]
      /\ kept = [c \in Checkouts |-> {}] /\ bases = [v \in Versions |-> NoBase] /\ gens = << >>
      /\ holder = {} /\ work = [p \in Preparers |-> Idle]
  BY DEF GalaxyInit
<1>3. NoSelection \in Selections /\ NoSelection.gen = 0 /\ NoBase \in Bases
  BY DEF NoSelection, Selections, NoBase, Bases
<1>4. CheckoutsTyped
  <2>1. entry \in [Checkouts -> [Links -> Kinds]]
    BY <1>1 DEF Kinds
  <2>2. own \in [Checkouts -> [req : Versions, ovr : Overrides, had : BOOLEAN]]
    <3> SUFFICES ASSUME NEW c \in Checkouts
                 PROVE  [req |-> want[c].req, ovr |-> want[c].ovr, had |-> layout[c] = "own"]
                          \in [req : Versions, ovr : Overrides, had : BOOLEAN]
      BY <1>1
    <3> QED
      BY <1>2 DEF Files
  <2>3. current \in [Checkouts -> Selections] /\ \A c \in Checkouts : current[c].gen <= Len(gens)
    BY <1>2, <1>3
  <2> QED
    BY <1>2, <2>1, <2>2, <2>3 DEF CheckoutsTyped
<1>5. CacheTyped
  BY <1>2, <1>3 DEF CacheTyped
<1>6. work \in [Preparers -> WorkType]
  BY <1>2, IdleTyped
<1>7. \A p \in Preparers : Fits(p)
  BY <1>2, IdleTyped DEF Fits, Asked, Past, Making, Selecting
<1>8. LegacyKept
  <2>1. \A n \in {"roles", "collections"} : n \in Links
    BY DEF Links
  <2> QED
    BY <1>1, <2>1 DEF LegacyKept
<1> QED
  BY <1>4, <1>5, <1>6, <1>7, <1>8 DEF GalaxyInv, GalaxyTyped

LEMMA PreparerKeeps == ASSUME GalaxyInv, NEW p \in Preparers, PreparerNext(p) PROVE GalaxyInv'
<1>1. CASE \E repair \in BOOLEAN : StartPrepare(p, repair)
  BY <1>1, StartKeeps
<1>2. CASE TakeLock(p) \/ (\E i \in DOMAIN gens : Reuse(p, i)) \/ NoReuse(p)
  BY <1>2, TakeLockKeeps, LookupKeeps
<1>3. CASE RemoveBase(p) \/ UseBase(p) \/ InstallBase(p) \/ PublishBase(p)
  BY <1>3, RemoveKeeps, BaseKeeps, ReplaceKeeps
<1>4. CASE CopyBase(p) \/ PublishGeneration(p) \/ PublishSelection(p)
  BY <1>4, CopyKeeps, PublishKeeps, SelectionKeeps
<1>5. CASE Repoint(p) \/ Refuse(p) \/ Undone(p) \/ Rejects(p)
  BY <1>5, EndingKeeps
<1>6. CASE TakeOver(p) \/ MoveAway(p) \/ PutLink(p) \/ Tidy(p)
  BY <1>6, TakeOverKeeps, MoveKeeps, LinkKeeps, TidyKeeps
<1>7. CASE UndoLink(p) \/ UndoMove(p)
  BY <1>7, UndoLinkKeeps, UndoMoveKeeps
<1>8. CASE Fails(p) \/ Kill(p)
  BY <1>8, FailKeeps, KillKeeps
<1> QED
  BY <1>1, <1>2, <1>3, <1>4, <1>5, <1>6, <1>7, <1>8 DEF PreparerNext

LEMMA GalaxyKeeps == ASSUME GalaxyInv, [GalaxyNext]_galaxyVars PROVE GalaxyInv'
<1>1. CASE \E p \in Preparers : PreparerNext(p)
  BY <1>1, PreparerKeeps
<1>2. CASE (\E c \in Checkouts : Edit(c)) \/ Damage
  BY <1>2, EditKeeps, DamageKeeps
<1>3. CASE UNCHANGED galaxyVars
  <2>1. UNCHANGED <<want, entry, current, own, kept, bases, gens, holder, work>>
    BY <1>3 DEF galaxyVars
  <2>2. GalaxyTyped' /\ LegacyKept'
    BY <2>1 DEF GalaxyInv, GalaxyTyped, CheckoutsTyped, CacheTyped, LegacyKept
  <2>3. ASSUME NEW p \in Preparers PROVE Fits(p)'
    <3>1. PICK u : u = work[p]
      OBVIOUS
    <3>2. work'[p] = u /\ holder' = holder /\ Fits(p)
      BY <2>1, <3>1 DEF GalaxyInv
    <3>3. (Asked(HomeOf[p], u)' <=> Asked(HomeOf[p], u)) /\ (Laid(HomeOf[p], u)' <=> Laid(HomeOf[p], u))
          /\ (Delivered(HomeOf[p], u)' <=> Delivered(HomeOf[p], u))
      BY <2>1, AsItWas
    <3> QED
      BY <3>1, <3>2, <3>3 DEF Fits, Past
  <2> QED
    BY <2>2, <2>3 DEF GalaxyInv
<1> QED
  BY <1>1, <1>2, <1>3 DEF GalaxyNext

LEMMA GalaxyTypes == ASSUME GalaxyInv PROVE GalaxyTypeOK
<1>1. CheckoutsTyped /\ CacheTyped
  BY DEF GalaxyInv, GalaxyTyped
<1>2. \A c \in Checkouts : \A n \in Links : entry[c][n] \in {"none", "own", "other", "link"}
  BY <1>1 DEF CheckoutsTyped, Kinds
<1>3. \A c \in Checkouts : current[c].gen \in 0 .. Len(gens)
  BY <1>1 DEF CheckoutsTyped, CacheTyped, Selections
<1>4. Cardinality(holder) <= 1
  <2>1. CASE holder = {}
    BY <2>1, FS_EmptySet
  <2>2. ASSUME NEW p \in holder PROVE Cardinality(holder) = 1
    <3>1. holder = {p}
      BY <1>1 DEF CacheTyped
    <3> QED
      BY <3>1, FS_Singleton
  <2> QED
    BY <2>1, <2>2
<1>5. \A p \in Preparers : work[p].pc \notin {"idle", "waiting"} => holder = {p}
  BY PreparerTyped DEF Past
<1> QED
  BY <1>1, <1>2, <1>3, <1>4, <1>5 DEF GalaxyTypeOK, CheckoutsTyped, CacheTyped, Bases

-----------------------------------------------------------------------------
(* What a step promises. *)

Counted == luck \in [edits : Nat, faults : Nat]

LEMMA StaysCounted == ASSUME Counted, [GalaxyNext]_galaxyVars PROVE Counted'
<1>1. luck' \in {luck, [luck EXCEPT !.edits = @ + 1], [luck EXCEPT !.faults = @ + 1]}
  <2>1. ASSUME NEW p \in Preparers, PreparerNext(p) PROVE luck' \in {luck, [luck EXCEPT !.faults = @ + 1]}
    BY <2>1 DEF PreparerNext, StartPrepare, TakeLock, Reuse, NoReuse, RemoveBase, UseBase, InstallBase, PublishBase, CopyBase,
       PublishGeneration, PublishSelection, Repoint, Refuse, TakeOver, MoveAway, PutLink, Tidy, UndoLink, UndoMove, Undone,
       Fails, Rejects, Kill
  <2>2. ASSUME NEW c \in Checkouts, Edit(c) PROVE luck' = [luck EXCEPT !.edits = @ + 1]
    BY <2>2 DEF Edit
  <2>3. CASE Damage
    BY <2>3 DEF Damage
  <2>4. CASE UNCHANGED galaxyVars
    BY <2>4 DEF galaxyVars
  <2> QED
    BY <2>1, <2>2, <2>3, <2>4 DEF GalaxyNext
<1> QED
  BY <1>1 DEF Counted

\* What a preparer with its selection makes of its checkout.
LEMMA DeliversWell ==
    ASSUME GalaxyInv, NEW p \in Preparers, Delivers(p), ~work[p].disturbed
    PROVE  Verified(HomeOf[p])' /\ (work[p].repair => gens'[current'[HomeOf[p]].gen].whole)
<1> DEFINE c == HomeOf[p]
<1>1. /\ c \in Checkouts /\ UNCHANGED <<want, entry, gens>> /\ CheckoutsTyped
      /\ work[p].pc \in Selecting /\ work[p].sel \in Selections
      /\ Asked(c, work[p]) /\ Delivered(c, work[p]) /\ Laid(c, work[p])
  BY PreparerTyped DEF Delivers, Repoint, Tidy, At, Cache, Selecting, Past, WorkType
<1>2. current'[c] = work[p].sel /\ \A n \in Links : entry[c][n] = "link"
  <2>1. CASE Repoint(p)
    BY <1>1, <2>1 DEF Repoint, StableLinks, CheckoutsTyped
  <2>2. CASE Tidy(p)
    BY <1>1, <2>2 DEF Tidy, At, Laid
  <2> QED
    BY <2>1, <2>2 DEF Delivers
<1>3. /\ work[p].sel.gen \in 1 .. Len(gens) /\ Suits(work[p].sel.gen, c, work[p])
      /\ work[p].sel.req = want[c].req /\ work[p].sel.src = want[c].ovr /\ work[p].sel.inst = want[c].ovr
  BY <1>1 DEF Asked, Delivered
<1>4. "roles" \in Links /\ "collections" \in Links /\ "requirements" \in Links
  BY DEF Links
<1>5. ASSUME NEW n \in Links
      PROVE  Shown(c, n)' = [req |-> want[c].req, ovr |-> want[c].ovr, whole |-> gens[work[p].sel.gen].whole]
  <2>1. entry'[c][n] = "link" /\ current'[c].gen > 0 /\ current'[c].gen = work[p].sel.gen
    BY <1>1, <1>2, <1>3
  <2>2. gens'[current'[c].gen].req = want[c].req /\ gens'[current'[c].gen].ovr = want[c].ovr
    BY <1>1, <1>3, <2>1 DEF Suits
  <2> QED
    BY <1>1, <2>1, <2>2 DEF Shown
<1>6. Fingerprint(c)' = [req |-> want[c].req, src |-> want[c].ovr, inst |-> want[c].ovr]
  BY <1>1, <1>2, <1>3, <1>4 DEF Fingerprint
<1>7. Verified(c)'
  BY <1>1, <1>4, <1>5, <1>6 DEF Verified, Digest
<1> QED
  BY <1>1, <1>2, <1>3, <1>7 DEF Suits

\* A checkout whose links are being moved away, laid or taken back did not have the stable ones.
LEMMA NotStable ==
    ASSUME GalaxyInv, NEW p \in Preparers,
           work[p].pc \in {"move", "undo"} \/ (work[p].pc = "link" /\ work[p].linked < 3)
    PROVE  ~StableLinks(HomeOf[p])
<1> DEFINE c == HomeOf[p]
<1>1. Laid(c, work[p]) /\ Moving(c, work[p]) /\ work[p].linked \in 0 .. 3 /\ NoSelection.gen = 0
  BY PreparerTyped DEF Past, Laid, WorkType, NoSelection
<1>2. CASE work[p].pc = "move" \/ (work[p].pc = "undo" /\ work[p].linked = 0)
  BY <1>1, <1>2 DEF Laid, Unlinked, Moving, StableLinks
<1>3. CASE work[p].pc = "undo" /\ work[p].linked > 0
  BY <1>1, <1>3 DEF Laid, Emptied, Moving, StableLinks
<1>4. CASE work[p].pc = "link" /\ work[p].linked < 3
  <2>1. entry[c][Order[3]] = "none"
    BY <1>1, <1>4 DEF Laid
  <2> QED
    BY <2>1, OrderOfLinks DEF StableLinks
<1> QED
  BY <1>1, <1>2, <1>3, <1>4

LEMMA StaysStable == ASSUME GalaxyInv, GalaxyNext, NEW c \in Checkouts, StableLinks(c) PROVE StableLinks(c)'
<1>1. CheckoutsTyped
  BY DEF GalaxyInv, GalaxyTyped
<1>2. CASE UNCHANGED <<entry, current>>
  BY <1>2 DEF StableLinks
<1>3. ASSUME NEW p \in Preparers, Repoint(p) PROVE StableLinks(c)'
  <2>1. /\ entry' = entry /\ current' = [current EXCEPT ![HomeOf[p]] = work[p].sel]
        /\ work[p].sel.gen > 0 /\ HomeOf[p] \in Checkouts
    BY <1>3, PreparerTyped DEF Repoint, At, Asked, Selecting
  <2> QED
    BY <1>1, <2>1 DEF StableLinks, CheckoutsTyped
<1>4. ASSUME NEW p \in Preparers, MoveAway(p) \/ UndoLink(p) \/ UndoMove(p) PROVE StableLinks(c)'
  <2>1. HomeOf[p] # c
    BY <1>4, NotStable DEF MoveAway, UndoLink, UndoMove, At
  <2>2. entry'[c] = entry[c] /\ current'[c] = current[c]
    <3>1. CASE MoveAway(p)
      BY <1>1, <2>1, <3>1 DEF MoveAway, Layout, CheckoutsTyped
    <3>2. CASE UndoLink(p)
      BY <1>1, <2>1, <3>2 DEF UndoLink, CheckoutsTyped
    <3>3. CASE UndoMove(p)
      BY <1>1, <2>1, <3>3 DEF UndoMove, CheckoutsTyped
    <3> QED
      BY <1>4, <3>1, <3>2, <3>3
  <2> QED
    BY <2>2 DEF StableLinks
<1>5. ASSUME NEW p \in Preparers, PutLink(p) PROVE StableLinks(c)'
  <2>1. work[p].pc = "link" /\ work[p].linked \in 0 .. 3 /\ work[p].sel.gen > 0 /\ HomeOf[p] \in Checkouts
    BY <1>5, PreparerTyped DEF PutLink, At, WorkType, Asked, Selecting
  <2>2. CASE work[p].linked + 1 <= Len(Order)
    <3>1. HomeOf[p] # c
      BY <2>1, <2>2, OrderOfLinks, NotStable
    <3>2. entry'[c] = entry[c] /\ current' = current
      BY <1>1, <1>5, <2>2, <3>1 DEF PutLink, CheckoutsTyped
    <3> QED
      BY <3>2 DEF StableLinks
  <2>3. CASE ~(work[p].linked + 1 <= Len(Order))
    <3>1. entry' = entry /\ current' = [current EXCEPT ![HomeOf[p]] = work[p].sel]
      BY <1>5, <2>3 DEF PutLink
    <3> QED
      BY <1>1, <2>1, <3>1 DEF StableLinks, CheckoutsTyped
  <2> QED
    BY <2>2, <2>3
<1>6. ASSUME NEW p \in Preparers, PreparerNext(p)
      PROVE  \/ UNCHANGED <<entry, current>>
             \/ Repoint(p) \/ MoveAway(p) \/ UndoLink(p) \/ UndoMove(p) \/ PutLink(p)
  BY <1>6 DEF PreparerNext, StartPrepare, TakeLock, Reuse, NoReuse, RemoveBase, UseBase, InstallBase, PublishBase, CopyBase,
     PublishGeneration, PublishSelection, Refuse, TakeOver, Tidy, Undone, Fails, Rejects, Kill, Layout
<1>7. (\E d \in Checkouts : Edit(d)) \/ Damage => UNCHANGED <<entry, current>>
  BY DEF Edit, Damage, Layout
<1> QED
  BY <1>2, <1>3, <1>4, <1>5, <1>6, <1>7 DEF GalaxyNext

\* A preparer that ends by neither delivering nor a fault was refused, rolled back or rejected.
LEMMA HowItEnds ==
    ASSUME GalaxyInv, Counted, GalaxyNext, NEW p \in Preparers, Ends(p), ~Delivers(p)
    PROVE  Refuse(p) \/ Undone(p) \/ Rejects(p)
<1>1. work \in [Preparers -> WorkType] /\ work[p].pc \notin {"idle", "waiting"} /\ work'[p].pc = "idle"
  BY DEF GalaxyInv, GalaxyTyped, Ends
<1>2. ASSUME NEW q \in Preparers, PreparerNext(q) PROVE q = p
  <2> SUFFICES ASSUME q # p PROVE work'[p] = work[p]
    BY <1>1
  <2>1. CASE \E repair \in BOOLEAN : StartPrepare(q, repair)
    BY <1>1, <2>1 DEF StartPrepare
  <2>2. CASE TakeLock(q) \/ (\E i \in DOMAIN gens : Reuse(q, i)) \/ NoReuse(q) \/ RemoveBase(q)
    BY <1>1, <2>2 DEF TakeLock, Reuse, NoReuse, RemoveBase
  <2>3. CASE UseBase(q) \/ InstallBase(q) \/ PublishBase(q) \/ CopyBase(q)
    BY <1>1, <2>3 DEF UseBase, InstallBase, PublishBase, CopyBase
  <2>4. CASE PublishGeneration(q) \/ PublishSelection(q)
    BY <1>1, <2>4 DEF PublishGeneration, PublishSelection
  <2>5. CASE Repoint(q) \/ Refuse(q) \/ Undone(q) \/ Rejects(q) \/ Tidy(q)
    BY <1>1, <2>5 DEF Repoint, Refuse, Undone, Rejects, Tidy, End
  <2>6. CASE TakeOver(q) \/ MoveAway(q) \/ PutLink(q)
    BY <1>1, <2>6 DEF TakeOver, MoveAway, PutLink
  <2>7. CASE UndoLink(q) \/ UndoMove(q)
    BY <1>1, <2>7 DEF UndoLink, UndoMove
  <2>8. CASE Fails(q) \/ Kill(q)
    BY <1>1, <2>8 DEF Fails, Kill, End
  <2> QED
    BY <1>2, <2>1, <2>2, <2>3, <2>4, <2>5, <2>6, <2>7, <2>8 DEF PreparerNext
<1>3. ~((\E c \in Checkouts : Edit(c)) \/ Damage)
  <2>1. \A C : work' = Disturb(C) => work'[p].pc = work[p].pc
    <3> SUFFICES ASSUME NEW C, work' = Disturb(C) PROVE work'[p].pc = work[p].pc
      OBVIOUS
    <3>1. work'[p] = [work[p] EXCEPT !.disturbed = TRUE] \/ work'[p] = work[p]
      BY DEF Disturb
    <3> QED
      BY <1>1, <3>1 DEF WorkType
  <2> QED
    BY <1>1, <2>1 DEF Edit, Damage
<1>4. PreparerNext(p)
  BY <1>2, <1>3 DEF GalaxyNext
<1>5. ~Fails(p) /\ ~Kill(p)
  <2>1. luck' # [luck EXCEPT !.faults = @ + 1]
    BY DEF Counted, Ends
  <2> QED
    BY <2>1 DEF Fails, Kill
<1>6. ~(\E repair \in BOOLEAN : StartPrepare(p, repair)) /\ ~TakeLock(p)
  BY <1>1 DEF StartPrepare, TakeLock, At
<1>7. \A pc : work' = [work EXCEPT ![p].pc = pc] => pc = "idle"
  BY <1>1 DEF WorkType
<1>8. ~(\E i \in DOMAIN gens : Reuse(p, i)) /\ ~NoReuse(p)
  <2>1. \A i \in DOMAIN gens : ~Reuse(p, i)
    BY <1>1 DEF Reuse, WorkType
  <2>2. ~NoReuse(p)
    BY <1>7 DEF NoReuse
  <2> QED
    BY <2>1, <2>2
<1>9. ~RemoveBase(p) /\ ~UseBase(p) /\ ~TakeOver(p)
  <2>1. ~RemoveBase(p) /\ ~UseBase(p)
    BY <1>7 DEF RemoveBase, UseBase
  <2>2. ~TakeOver(p)
    BY <1>1 DEF TakeOver, WorkType
  <2> QED
    BY <2>1, <2>2
<1>10. ~InstallBase(p)
  BY <1>1 DEF InstallBase, WorkType
<1>11. ~PublishBase(p) /\ ~CopyBase(p) /\ ~PublishGeneration(p) /\ ~PublishSelection(p)
  BY <1>1 DEF PublishBase, CopyBase, PublishGeneration, PublishSelection, WorkType
<1>12. ~MoveAway(p)
  <2>1. \A m : work' # [work EXCEPT ![p].pc = "link", ![p].moved = m]
    BY <1>1 DEF WorkType
  <2>2. ASSUME NEW m, work[p].pc = "move", work' = [work EXCEPT ![p].moved = m] PROVE FALSE
    <3>1. work'[p] = [work[p] EXCEPT !.moved = m]
      BY <1>1, <2>2
    <3> QED
      BY <1>1, <2>2, <3>1 DEF WorkType
  <2>3. MoveAway(p) => work[p].pc = "move" /\
          \/ \E m : work' = [work EXCEPT ![p].moved = m]
          \/ \E m : work' = [work EXCEPT ![p].pc = "link", ![p].moved = m]
          \/ work' = [work EXCEPT ![p].pc = "link"]
    BY DEF MoveAway, At
  <2> QED
    BY <1>7, <2>1, <2>2, <2>3
<1>13. ~PutLink(p)
  BY <1>1 DEF PutLink, At, WorkType
<1>14. ~UndoLink(p)
  BY <1>1 DEF UndoLink, At, WorkType
<1>15. ~UndoMove(p)
  BY <1>1 DEF UndoMove, At, WorkType
<1> QED
  BY <1>4, <1>5, <1>6, <1>8, <1>9, <1>10, <1>11, <1>12, <1>13, <1>14, <1>15 DEF PreparerNext, Delivers

LEMMA RestoresAll ==
    ASSUME GalaxyInv, Counted, GalaxyNext, NEW p \in Preparers, Ends(p), ~Delivers(p)
    PROVE  <<entry'[HomeOf[p]], current'[HomeOf[p]]>> = work[p].before
<1> DEFINE c == HomeOf[p]
<1>1. (Refuse(p) \/ Undone(p) \/ Rejects(p)) /\ UNCHANGED <<entry, current>>
  BY HowItEnds DEF Refuse, Undone, Rejects, Layout
<1>2. Laid(c, work[p]) /\ work[p].before \in [Links -> Kinds] \X Selections
  BY <1>1, PreparerTyped DEF Ends, Past, Laid
<1>3. entry[c] = work[p].before[1] /\ current[c] = work[p].before[2]
  <2>1. CASE Refuse(p) \/ Rejects(p)
    BY <1>2, <2>1 DEF Refuse, Rejects, At, Laid, Untouched, Making
  <2>2. CASE Undone(p)
    <3>1. MovedNames(work[p]) = {} /\ Moving(c, work[p]) /\ Unlinked(c, work[p])
      BY <1>2, <2>2 DEF Undone, At, MovedNames, Laid
    <3>2. entry[c] \in [Links -> Kinds]
      BY PreparerTyped
    <3> QED
      BY <1>2, <3>1, <3>2 DEF Moving, Unlinked
  <2> QED
    BY <1>1, <2>1, <2>2
<1> QED
  BY <1>1, <1>2, <1>3

-----------------------------------------------------------------------------
(* The tools together. *)

IInv == GalaxyInv /\ Counted /\ MoleculeInv /\ EldersFit /\ PassesFit

LEMMA ToolsStart == Init => IInv
<1> SUFFICES ASSUME Init PROVE IInv
  OBVIOUS
<1>1. GalaxyInit /\ MoleculeInit
  BY DEF Init
<1>2. Counted
  BY <1>1 DEF GalaxyInit, Counted
<1>3. EldersFit /\ PassesFit
  BY <1>1 DEF MoleculeInit, EldersFit, PassesFit
<1> QED
  BY <1>1, <1>2, <1>3, GalaxyStarts, MoleculeStarts DEF IInv

\* A step of the tools is a step of each of them, or leaves it as it is.
LEMMA StepOfEach == [Next]_toolchainVars => [GalaxyNext]_galaxyVars /\ [MoleculeNext]_moleculeVars
  BY DEF Next, toolchainVars

LEMMA ToolsKeep == IInv /\ [Next]_toolchainVars => IInv'
  BY StepOfEach, GalaxyKeeps, MoleculeKeeps, EldersKeep, StaysCounted DEF IInv

THEOREM Invariance == Spec => []IInv
  BY ToolsStart, ToolsKeep, PTL DEF Spec

\* The types of both tools; of the cache also that at most one preparer is past its lock.
THEOREM TypesAreKept == Spec => []TypeOK
<1>1. IInv => TypeOK
  BY GalaxyTypes, MoleculeTypes DEF IInv, TypeOK
<1> QED
  BY <1>1, Invariance, PTL

\* A green verdict of a run that was alone is about its own container and image, and what a
\* run leaves behind it says: whatever the workers of a scenario, other clones and killed
\* runs' children do (run_platform, remove_owned_container, invocation_lock).
THEOREM VerdictsHold == Spec => []VerdictsAreTrue
<1>1. IInv => VerdictsAreTrue
  BY DEF IInv, MoleculeInv
<1> QED
  BY <1>1, Invariance, PTL

\* Nobody who has still to look at a name takes it from a stranger who has it then, and a run
\* that met one does not pass; nor is a container taken from another run of the same clone
\* (remove_owned_container, the tasks of destroy.yml and create.yml, invocation_lock).  What
\* remains is the stranger who takes the name between a look and the act that follows it.
THEOREM CollisionsRefused == Spec => CollisionsAreRefused
<1>1. IInv /\ [Next]_toolchainVars =>
        [\A i \in Invocations, t \in TestPlatforms :
           /\ (step[i][t] \in Acts /\ step'[i][t] # step[i][t]
                  /\ container[t] # {} /\ container'[t] # container[t]) =>
                  /\ container[t] = {Stranger} => i \notin elder[t]
                  /\ phase[i] = "running" =>
                         \A j \in locked \ {i} : CloneOf[j] = CloneOf[i] => container[t] # {j}
           /\ i \in elder'[t] /\ step'[i][t] = "done" =>
                  status'[i][t] \in {"cleanup-failure", "error"} /\ phase'[i] # "passed"]_moleculeVars
  <2> SUFFICES ASSUME IInv, [Next]_toolchainVars
               PROVE  \A i \in Invocations, t \in TestPlatforms :
           /\ (step[i][t] \in Acts /\ step'[i][t] # step[i][t]
                  /\ container[t] # {} /\ container'[t] # container[t]) =>
                  /\ container[t] = {Stranger} => i \notin elder[t]
                  /\ phase[i] = "running" =>
                         \A j \in locked \ {i} : CloneOf[j] = CloneOf[i] => container[t] # {j}
           /\ i \in elder'[t] /\ step'[i][t] = "done" =>
                  status'[i][t] \in {"cleanup-failure", "error"} /\ phase'[i] # "passed"
    OBVIOUS
  <2>1. MoleculeInv /\ EldersFit /\ EldersFit' /\ PassesFit'
    BY ToolsKeep DEF IInv
  <2> QED
    BY <2>1, MoleculeRefuses
<1> QED
  BY <1>1, Invariance, PTL DEF Spec, CollisionsAreRefused

\* A preparation delivers what was asked for, and stable links are never taken away
\* (prepare, _publish_selection, _select).
THEOREM SelectionHolds == Spec => SelectionIsSound
<1>1. IInv /\ [Next]_toolchainVars =>
        [\A p \in Preparers : Delivers(p) /\ ~work[p].disturbed =>
           /\ Verified(HomeOf[p])'
           /\ work[p].repair => gens'[current'[HomeOf[p]].gen].whole]_galaxyVars
  BY DeliversWell DEF IInv
<1>2. IInv /\ [Next]_toolchainVars =>
        [\A c \in Checkouts : StableLinks(c) =>
           StableLinks(c)' /\ current'[c].gen \in DOMAIN gens']_galaxyVars
  <2> SUFFICES ASSUME IInv, [Next]_toolchainVars, ~UNCHANGED galaxyVars, NEW c \in Checkouts, StableLinks(c)
               PROVE  StableLinks(c)' /\ current'[c].gen \in DOMAIN gens'
    OBVIOUS
  <2>1. GalaxyInv /\ GalaxyNext /\ GalaxyInv'
    BY StepOfEach, GalaxyKeeps DEF IInv
  <2>2. StableLinks(c)'
    BY <2>1, StaysStable
  <2>3. current'[c] \in Selections /\ current'[c].gen <= Len(gens') /\ gens' \in Seq(Generations)
    BY <2>1 DEF GalaxyInv, GalaxyTyped, CheckoutsTyped, CacheTyped
  <2> QED
    BY <2>2, <2>3 DEF StableLinks, Selections
<1>3. Spec => PrepareDelivers
  BY <1>1, Invariance, PTL DEF Spec, PrepareDelivers
<1>4. Spec => StaysSelected
  BY <1>2, Invariance, PTL DEF Spec, StaysSelected
<1> QED
  BY <1>3, <1>4 DEF SelectionIsSound

\* A failure gives the checkout back as it was, and a developer's own directories are in
\* place or in a backup, through every failure, rollback and kill (_select, _restore).
THEOREM NothingGetsLost == Spec => NothingIsLost
<1>1. IInv /\ [Next]_toolchainVars =>
        [\A p \in Preparers : Ends(p) /\ ~Delivers(p) =>
           <<entry'[HomeOf[p]], current'[HomeOf[p]]>> = work[p].before]_galaxyVars
  BY StepOfEach, RestoresAll DEF IInv
<1>2. Spec => FailureRestores
  BY <1>1, Invariance, PTL DEF Spec, FailureRestores
<1>3. IInv => LegacyKept
  BY DEF IInv, GalaxyInv
<1>4. Spec => []LegacyKept
  BY <1>3, Invariance, PTL
<1> QED
  BY <1>2, <1>4 DEF NothingIsLost

-----------------------------------------------------------------------------
(* The timing account: sums over tables, and what keeps them right.        *)

\* Of finite sets there are smallest ones: the induction of the proofs about sums.
LEMMA SmallestSet ==
    ASSUME NEW Sets, Sets # {}, \A s \in Sets : IsFiniteSet(s)
    PROVE  \E m \in Sets : \A s \in Sets : Cardinality(m) <= Cardinality(s)
<1> DEFINE Sizes == {Cardinality(s) : s \in Sets}
           Less == {ss \in Nat \X Nat : ss[1] < ss[2]}
<1>1. \A s \in Sets : Cardinality(s) \in Nat
  BY FS_CardinalityType
<1>2. Sizes \subseteq Nat /\ Sizes # {}
  BY <1>1
<1>3. IsWellFoundedOn(Less, Nat)
  BY NatLessThanWellFounded DEF OpToRel
<1>4. \E n \in Sizes : \A k \in Sizes : ~ (<<k, n>> \in Less)
  <2> HIDE DEF Less, Sizes
  <2> QED
    BY <1>2, <1>3, WFMin
<1>5. PICK n \in Sizes : \A k \in Sizes : ~ (k < n)
  <2>1. PICK n \in Sizes : \A k \in Sizes : ~ (<<k, n>> \in Less)
    BY <1>4
  <2>2. ASSUME NEW k \in Sizes PROVE ~ (k < n)
    <3>1. k \in Nat /\ n \in Nat /\ <<k, n>> \notin Less
      BY <1>2, <2>1
    <3> QED
      BY <3>1
  <2> QED
    BY <2>2
<1>6. PICK m \in Sets : n = Cardinality(m)
  OBVIOUS
<1>7. ASSUME NEW s \in Sets PROVE Cardinality(m) <= Cardinality(s)
  <2>1. ~ (Cardinality(s) < n)
    BY <1>5
  <2> QED
    BY <1>1, <1>6, <2>1
<1> QED
  BY <1>7

\* What the fold of a table does with a set of its keys, given what it does with smaller ones.
Chosen(s) == CHOOSE x \in s : TRUE
Summed(f, sums, s) == IF s = {} THEN 0 ELSE f[Chosen(s)] + sums[s \ {Chosen(s)}]
Sums(f, S) == CHOOSE sums : sums = [s \in SUBSET S |-> Summed(f, sums, s)]

LEMMA ChosenIn == \A s : s # {} => Chosen(s) \in s
  BY DEF Chosen

LEMMA Removed ==
    ASSUME NEW S, IsFiniteSet(S), NEW x \in S
    PROVE  IsFiniteSet(S \ {x}) /\ Cardinality(S) \in Nat /\ Cardinality(S \ {x}) \in Nat
           /\ Cardinality(S \ {x}) < Cardinality(S)
<1>1. IsFiniteSet(S \ {x}) /\ Cardinality(S \ {x}) = Cardinality(S) - 1
  BY FS_RemoveElement
<1>2. Cardinality(S) \in Nat /\ Cardinality(S \ {x}) \in Nat
  BY <1>1, FS_CardinalityType
<1> QED
  BY <1>1, <1>2

\* There is a function that the recursion of the fold defines.
LEMMA SumsExist ==
    ASSUME NEW f, NEW S, IsFiniteSet(S)
    PROVE  \A s \in SUBSET S : Sums(f, S)[s] = Summed(f, Sums(f, S), s)
<1> DEFINE Upto(n) == {s \in SUBSET S : Cardinality(s) <= n}
           Good(n, g) == \A s \in Upto(n) : g[s] = Summed(f, g, s)
           Bad == {T \in SUBSET S : ~ \E g : Good(Cardinality(T), g)}
<1>1. \A s \in SUBSET S : IsFiniteSet(s) /\ Cardinality(s) \in Nat /\ Cardinality(s) <= Cardinality(S)
  BY FS_Subset, FS_CardinalityType
<1>2. Bad = {}
  <2> SUFFICES ASSUME Bad # {} PROVE FALSE
    OBVIOUS
  <2>1. PICK T \in Bad : \A U \in Bad : Cardinality(T) <= Cardinality(U)
    <3> HIDE DEF Bad
    <3>1. \A U \in Bad : IsFiniteSet(U)
      BY <1>1 DEF Bad
    <3> QED
      BY <3>1, SmallestSet
  <2>2. CASE T = {}
    <3>1. \A s \in Upto(Cardinality(T)) : s = {}
      BY <1>1, <2>2, FS_EmptySet
    <3>2. Good(Cardinality(T), [s \in SUBSET S |-> 0])
      BY <3>1 DEF Summed
    <3> QED
      BY <3>2
  <2>3. CASE T # {}
    <3>1. PICK x \in T : TRUE
      BY <2>3
    <3>2. Cardinality(T \ {x}) = Cardinality(T) - 1 /\ T \ {x} \in SUBSET S /\ Cardinality(T) \in Nat /\ Cardinality(T \ {x}) \in Nat
      BY <1>1, FS_RemoveElement
    <3>3. PICK g : Good(Cardinality(T \ {x}), g)
      <4>1. T \ {x} \notin Bad
        BY <2>1, <3>2
      <4> QED
        BY <3>2, <4>1
    <3> DEFINE h == [s \in SUBSET S |-> IF Cardinality(s) < Cardinality(T) THEN g[s] ELSE Summed(f, g, s)]
    <3>4. ASSUME NEW s \in SUBSET S, Cardinality(s) <= Cardinality(T) PROVE h[s] = Summed(f, h, s)
      <4>1. h[s] = Summed(f, g, s)
        <5>1. CASE Cardinality(s) < Cardinality(T)
          <6>1. Cardinality(s) <= Cardinality(T \ {x})
            BY <1>1, <3>2, <5>1
          <6>2. g[s] = Summed(f, g, s)
            BY <3>3, <6>1
          <6> QED
            BY <5>1, <6>2
        <5>2. CASE ~ (Cardinality(s) < Cardinality(T))
          BY <5>2
        <5> QED
          BY <5>1, <5>2
      <4>2. CASE s = {}
        BY <4>1, <4>2 DEF Summed
      <4>3. CASE s # {}
        <5>1. Chosen(s) \in s
          BY <4>3, ChosenIn
        <5>2. Cardinality(s \ {Chosen(s)}) < Cardinality(T) /\ s \ {Chosen(s)} \in SUBSET S
          BY <1>1, <3>2, <3>4, <5>1, Removed
        <5>3. h[s \ {Chosen(s)}] = g[s \ {Chosen(s)}]
          BY <5>2
        <5> HIDE DEF h
        <5> QED
          BY <4>1, <4>3, <5>3 DEF Summed
      <4> QED
        BY <4>2, <4>3
    <3>5. Good(Cardinality(T), h)
      BY <3>4
    <3> HIDE DEF h
    <3> QED
      BY <3>5
  <2> QED
    BY <2>2, <2>3
<1>3. PICK g : Good(Cardinality(S), g)
  BY <1>2
<1> DEFINE h == [s \in SUBSET S |-> g[s]]
<1>4. ASSUME NEW s \in SUBSET S PROVE h[s] = Summed(f, h, s)
  <2>1. h[s] = Summed(f, g, s)
    BY <1>1, <1>3
  <2>2. CASE s = {}
    BY <2>1, <2>2 DEF Summed
  <2>3. CASE s # {}
    <3>1. s \ {Chosen(s)} \in SUBSET S
      BY <2>3
    <3>2. h[s \ {Chosen(s)}] = g[s \ {Chosen(s)}]
      BY <3>1
    <3> HIDE DEF h
    <3> QED
      BY <2>1, <2>3, <3>2 DEF Summed
  <2> QED
    BY <2>2, <2>3
<1>5. h = [s \in SUBSET S |-> Summed(f, h, s)]
  <2>1. DOMAIN h = SUBSET S /\ h = [s \in SUBSET S |-> h[s]]
    OBVIOUS
  <2> HIDE DEF h
  <2> QED
    BY <1>4, <2>1
<1>6. \E sums : sums = [s \in SUBSET S |-> Summed(f, sums, s)]
  <2> HIDE DEF h
  <2> QED
    BY <1>5
<1> DEFINE sums == Sums(f, S)
<1>7. sums = [s \in SUBSET S |-> Summed(f, sums, s)]
  BY <1>6 DEF Sums
<1> HIDE DEF sums
<1> DEFINE G(s) == Summed(f, sums, s)
<1>8. sums = [s \in SUBSET S |-> G(s)]
  BY <1>7
<1> HIDE DEF G
<1>9. \A s \in SUBSET S : sums[s] = G(s)
  BY <1>8
<1> QED
  BY <1>9 DEF G, sums

LEMMA SumIsSums ==
    ASSUME NEW f, NEW S
    PROVE  SumFunctionOnSet(f, S) = Sums(f, S)[S]
  BY DEF SumFunctionOnSet, FoldFunctionOnSet, MapThenFoldSet, Sums, Summed, Chosen

\* The sum of a table over some of its keys.
Total(f, S) == Sums(f, S)[S]

\* Tables that agree on the keys have the same sum there, whatever else they hold.
LEMMA SumsAgree ==
    ASSUME NEW f, NEW g, NEW S, NEW R, IsFiniteSet(S), IsFiniteSet(R),
           NEW T, T \subseteq S, T \subseteq R, \A x \in T : f[x] = g[x]
    PROVE  Sums(f, S)[T] = Sums(g, R)[T]
<1> DEFINE Bad == {U \in SUBSET T : Sums(f, S)[U] # Sums(g, R)[U]}
<1> SUFFICES ASSUME Bad # {} PROVE FALSE
  OBVIOUS
<1>1. \A U \in Bad : IsFiniteSet(U)
  BY FS_Subset
<1>2. PICK U \in Bad : \A V \in Bad : Cardinality(U) <= Cardinality(V)
  <2> HIDE DEF Bad
  <2> QED
    BY <1>1, SmallestSet
<1>3. Sums(f, S)[U] = Summed(f, Sums(f, S), U) /\ Sums(g, R)[U] = Summed(g, Sums(g, R), U)
  <2>1. U \subseteq S /\ U \subseteq R
    OBVIOUS
  <2>2. Sums(f, S)[U] = Summed(f, Sums(f, S), U)
    BY <2>1, SumsExist
  <2>3. Sums(g, R)[U] = Summed(g, Sums(g, R), U)
    BY <2>1, SumsExist
  <2> QED
    BY <2>2, <2>3
<1>4. U # {}
  BY <1>3 DEF Summed
<1>5. Chosen(U) \in U
  BY <1>4, ChosenIn
<1>6. U \ {Chosen(U)} \in SUBSET T /\ ~ (Cardinality(U) <= Cardinality(U \ {Chosen(U)}))
  <2>1. IsFiniteSet(U)
    BY <1>1
  <2>2. Cardinality(U) \in Nat /\ Cardinality(U \ {Chosen(U)}) \in Nat
        /\ Cardinality(U \ {Chosen(U)}) < Cardinality(U)
    BY <2>1, <1>5, Removed
  <2> QED
    BY <2>2
<1>7. Sums(f, S)[U \ {Chosen(U)}] = Sums(g, R)[U \ {Chosen(U)}]
  BY <1>2, <1>6
<1>8. f[Chosen(U)] = g[Chosen(U)]
  BY <1>5
<1> QED
  BY <1>3, <1>4, <1>7, <1>8 DEF Summed

LEMMA TotalAgree ==
    ASSUME NEW f, NEW g, NEW S, IsFiniteSet(S), \A x \in S : f[x] = g[x]
    PROVE  Total(f, S) = Total(g, S)
BY SumsAgree DEF Total

LEMMA TotalStep ==
    ASSUME NEW f, NEW S, IsFiniteSet(S)
    PROVE  Total(f, S) = IF S = {} THEN 0 ELSE f[Chosen(S)] + Total(f, S \ {Chosen(S)})
<1>1. Sums(f, S)[S] = Summed(f, Sums(f, S), S)
  BY SumsExist
<1>2. IsFiniteSet(S \ {Chosen(S)}) /\ S \ {Chosen(S)} \subseteq S
  BY FS_Subset
<1>3. Sums(f, S)[S \ {Chosen(S)}] = Sums(f, S \ {Chosen(S)})[S \ {Chosen(S)}]
  BY <1>2, SumsAgree
<1> QED
  BY <1>1, <1>3 DEF Summed, Total

LEMMA TotalNat ==
    ASSUME NEW f, NEW S, IsFiniteSet(S), \A x \in S : f[x] \in Nat
    PROVE  Total(f, S) \in Nat
<1> DEFINE Bad == {T \in SUBSET S : Total(f, T) \notin Nat}
<1> SUFFICES ASSUME Bad # {} PROVE FALSE
  OBVIOUS
<1>1. \A T \in Bad : IsFiniteSet(T)
  BY FS_Subset
<1>2. PICK T \in Bad : \A V \in Bad : Cardinality(T) <= Cardinality(V)
  <2> HIDE DEF Bad
  <2> QED
    BY <1>1, SmallestSet
<1>3. Total(f, T) = IF T = {} THEN 0 ELSE f[Chosen(T)] + Total(f, T \ {Chosen(T)})
  BY <1>1, TotalStep
<1>4. T # {}
  BY <1>3
<1>5. Chosen(T) \in T
  BY <1>4, ChosenIn
<1>6. T \ {Chosen(T)} \in SUBSET S /\ ~ (Cardinality(T) <= Cardinality(T \ {Chosen(T)}))
  <2>1. IsFiniteSet(T)
    BY <1>1
  <2>2. Cardinality(T) \in Nat /\ Cardinality(T \ {Chosen(T)}) \in Nat
        /\ Cardinality(T \ {Chosen(T)}) < Cardinality(T)
    BY <2>1, <1>5, Removed
  <2> QED
    BY <2>2
<1>7. Total(f, T \ {Chosen(T)}) \in Nat
  BY <1>2, <1>6
<1> QED
  BY <1>3, <1>4, <1>5, <1>7

\* Any key can be taken out first.
LEMMA TotalSplit ==
    ASSUME NEW f, NEW S, IsFiniteSet(S), \A x \in S : f[x] \in Nat, NEW k \in S
    PROVE  Total(f, S) = f[k] + Total(f, S \ {k})
<1> DEFINE Bad == {T \in SUBSET S : \E x \in T : Total(f, T) # f[x] + Total(f, T \ {x})}
<1> SUFFICES ASSUME Bad # {} PROVE FALSE
  OBVIOUS
<1>1. \A T \in SUBSET S : IsFiniteSet(T)
  BY FS_Subset
<1>2. PICK T \in Bad : \A V \in Bad : Cardinality(T) <= Cardinality(V)
  <2>1. \A T \in Bad : IsFiniteSet(T)
    BY <1>1
  <2> HIDE DEF Bad
  <2> QED
    BY <2>1, SmallestSet
<1>3. PICK x \in T : Total(f, T) # f[x] + Total(f, T \ {x})
  OBVIOUS
<1> DEFINE c == Chosen(T)
<1>4. c \in T
  BY <1>3, ChosenIn
<1>5. Total(f, T) = f[c] + Total(f, T \ {c})
  BY <1>1, <1>4, TotalStep
<1>6. c # x
  BY <1>3, <1>5
<1> HIDE DEF c
<1>7. \A y \in T : T \ {y} \in SUBSET S /\ IsFiniteSet(T \ {y}) /\ ~ (Cardinality(T) <= Cardinality(T \ {y}))
  BY <1>1, Removed
<1>8. Total(f, T \ {c}) = f[x] + Total(f, (T \ {c}) \ {x})
  <2>1. x \in T \ {c}
    BY <1>6
  <2> QED
    BY <1>2, <1>4, <1>7, <2>1
<1>9. Total(f, T \ {x}) = f[c] + Total(f, (T \ {x}) \ {c})
  <2>1. c \in T \ {x}
    BY <1>4, <1>6
  <2> QED
    BY <1>2, <1>7, <2>1
<1>10. (T \ {x}) \ {c} = (T \ {c}) \ {x}
  OBVIOUS
<1>11. IsFiniteSet((T \ {c}) \ {x}) /\ f[c] \in Nat /\ f[x] \in Nat
  BY <1>1, <1>4
<1>12. Total(f, (T \ {c}) \ {x}) \in Nat
  <2>1. \A y \in (T \ {c}) \ {x} : f[y] \in Nat
    OBVIOUS
  <2> QED
    BY <1>11, <2>1, TotalNat
<1> HIDE DEF Bad
<1> DEFINE rest == Total(f, (T \ {c}) \ {x})
<1>13. Total(f, T \ {x}) = f[c] + rest /\ Total(f, T) = f[c] + (f[x] + rest) /\ rest \in Nat
  BY <1>5, <1>8, <1>9, <1>10, <1>12
<1> HIDE DEF rest
<1>14. f[c] + (f[x] + rest) = f[x] + (f[c] + rest)
  BY <1>11, <1>13
<1> QED
  BY <1>3, <1>13, <1>14

LEMMA SumIsTotal == \A f : SumFunction(f) = Total(f, DOMAIN f)
BY SumIsSums DEF SumFunction, Total

\* A table of the account: how many records there were of each key.
IsTable(table) ==
    /\ IsFiniteSet(DOMAIN table)
    /\ table = [key \in DOMAIN table |-> table[key]]
    /\ \A key \in DOMAIN table : table[key] \in Nat

\* One more record of a key, known or new, is one more in the sum.
LEMMA OneMore ==
    ASSUME NEW table, IsTable(table), NEW key
    PROVE  /\ IsTable(More(table, key))
           /\ DOMAIN More(table, key) = DOMAIN table \cup {key}
           /\ SumFunction(More(table, key)) = SumFunction(table) + 1
<1> DEFINE more == More(table, key)
           D == DOMAIN table
<1>1. more = [x \in D \cup {key} |-> IF x = key THEN Count(table, key) + 1 ELSE table[x]]
  BY DEF More
<1>2. DOMAIN more = D \cup {key} /\ more = [x \in D \cup {key} |-> more[x]]
  BY <1>1
<1>3. \A x \in D \ {key} : more[x] = table[x]
  BY <1>1
<1>4. more[key] = Count(table, key) + 1
  BY <1>1
<1>5. Count(table, key) \in Nat
  BY DEF Count, IsTable
<1>6. IsFiniteSet(D) /\ \A x \in D : table[x] \in Nat
  BY DEF IsTable
<1> HIDE DEF more
<1>7. IsFiniteSet(D \cup {key}) /\ IsFiniteSet(D \ {key})
  BY <1>6, FS_AddElement, FS_Subset
<1>8. \A x \in D \cup {key} : more[x] \in Nat
  BY <1>3, <1>4, <1>5, <1>6
<1>9. IsTable(more)
  BY <1>2, <1>7, <1>8 DEF IsTable
<1>10. Total(more, D \ {key}) = Total(table, D \ {key}) /\ Total(table, D \ {key}) \in Nat
  <2>1. \A x \in D \ {key} : table[x] \in Nat
    BY <1>6
  <2> QED
    BY <1>3, <1>7, <2>1, TotalAgree, TotalNat
<1>11. Total(more, D \cup {key}) = more[key] + Total(more, D \ {key})
  <2>1. (D \cup {key}) \ {key} = D \ {key} /\ key \in D \cup {key}
    OBVIOUS
  <2>2. Total(more, D \cup {key}) = more[key] + Total(more, (D \cup {key}) \ {key})
    BY <1>7, <1>8, <2>1, TotalSplit
  <2> QED
    BY <2>1, <2>2
<1>12. Total(table, D) = Count(table, key) + Total(table, D \ {key})
  <2>1. CASE key \in D
    BY <1>6, <2>1, TotalSplit DEF Count
  <2>2. CASE key \notin D
    <3>1. D \ {key} = D /\ Count(table, key) = 0
      BY <2>2 DEF Count
    <3> QED
      BY <1>10, <3>1
  <2> QED
    BY <2>1, <2>2
<1>13. SumFunction(more) = Total(more, D \cup {key}) /\ SumFunction(table) = Total(table, D)
  BY <1>2, SumIsTotal
<1>14. SumFunction(more) = SumFunction(table) + 1
  <2> HIDE DEF D
  <2> QED
    BY <1>4, <1>5, <1>10, <1>11, <1>12, <1>13
<1> QED
  BY <1>2, <1>9, <1>14 DEF more

PhaseRecords ==
    [phase : TimedPhases, status : {"incomplete", "successful", "failed", "partial"}, execution : Nat]

TimingTyped ==
    /\ phases \in Seq(PhaseRecords) /\ active \in 0 .. Len(phases)
    /\ IsTable(tasks) /\ IsTable(roles) /\ limited \in BOOLEAN
    /\ lines \in [all : Nat, events : Nat, invalid : Nat]

\* The parts of the account: what fits, whose the records are, and that they add up.
AccountFits == Cardinality(DOMAIN tasks) <= MaxTasks /\ Len(phases) <= MaxPhases
Attributed ==
    \A key \in DOMAIN tasks : key[1] # <<"unattributed", 0>> =>
        \E k \in DOMAIN phases : key[1] = <<phases[k].phase, phases[k].execution>>
AddsUp ==
    ~limited =>
        /\ SumFunction(tasks) = lines.events /\ SumFunction(roles) = lines.events
        /\ {run[1] : run \in roleRuns} = DOMAIN roles
TimingInv == TimingTyped /\ AccountFits /\ Attributed /\ AddsUp

LEMMA TimingStarts == ASSUME TimingInit PROVE TimingInv
<1>1. DOMAIN tasks = {} /\ DOMAIN roles = {} /\ Len(phases) = 0
  BY DEF TimingInit
<1>2. IsFiniteSet({}) /\ Cardinality({}) = 0
  BY FS_EmptySet
<1>3. MaxTasks \in Nat /\ MaxPhases \in Nat
  BY TimingConstants
<1>4. IsTable(tasks) /\ IsTable(roles)
  <2>1. tasks = [x \in {} |-> tasks[x]] /\ roles = [x \in {} |-> roles[x]]
    BY DEF TimingInit
  <2> QED
    BY <1>1, <1>2, <2>1 DEF IsTable
<1>5. SumFunction(tasks) = 0 /\ SumFunction(roles) = 0
  <2>1. \A f : Total(f, {}) = 0
    BY <1>2, TotalStep
  <2> QED
    BY <1>1, <2>1, SumIsTotal
<1>6. TimingTyped
  <2>1. phases \in Seq(PhaseRecords) /\ active \in 0 .. Len(phases) /\ limited \in BOOLEAN
    <3>1. phases = << >> /\ active = 0 /\ limited = FALSE
      BY DEF TimingInit
    <3>2. phases \in Seq(PhaseRecords)
      BY <3>1
    <3>3. active \in 0 .. Len(phases)
      BY <1>1, <3>1
    <3>4. limited \in BOOLEAN
      BY <3>1
    <3> QED
      BY <3>2, <3>3, <3>4
  <2>2. lines \in [all : Nat, events : Nat, invalid : Nat]
    BY DEF TimingInit
  <2> QED
    BY <1>4, <2>1, <2>2 DEF TimingTyped
<1>7. AccountFits /\ Attributed
  BY <1>1, <1>2, <1>3 DEF AccountFits, Attributed
<1>8. AddsUp
  <2>1. lines.events = 0 /\ {run[1] : run \in roleRuns} = {}
    BY DEF TimingInit
  <2> QED
    BY <1>1, <1>5, <2>1 DEF AddsUp
<1> QED
  BY <1>6, <1>7, <1>8 DEF TimingInv

\* A phase that is announced or ends leaves every earlier execution where it is.
LEMMA PhasesKept ==
    ASSUME Attributed, UNCHANGED tasks, DOMAIN phases \subseteq DOMAIN phases',
           \A k \in DOMAIN phases : phases'[k].phase = phases[k].phase /\ phases'[k].execution = phases[k].execution
    PROVE  Attributed'
BY DEF Attributed

LEMMA OtherKeeps ==
    ASSUME TimingTyped, OtherLine
    PROVE  lines' \in [all : Nat, events : Nat, invalid : Nat] /\ lines'.events = lines.events
BY DEF OtherLine, TimingTyped

LEMMA ExecutingKeeps == ASSUME TimingInv, NEW name \in TimedPhases, Executing(name) PROVE TimingInv'
<1> USE DEF TimingInv
<1>1. lines' \in [all : Nat, events : Nat, invalid : Nat] /\ lines'.events = lines.events
  BY OtherKeeps DEF Executing
<1>2. UNCHANGED <<tasks, roles, roleRuns>>
  BY DEF Executing
<1>3. phases \in Seq(PhaseRecords) /\ Len(phases) \in Nat /\ MaxPhases \in Nat
  BY TimingConstants, LenProperties DEF TimingTyped
<1>4. CASE Len(phases) >= MaxPhases
  <2>1. limited' = TRUE /\ active' = 0 /\ UNCHANGED phases
    BY <1>4 DEF Executing
  <2>2. TimingTyped' /\ AccountFits'
    BY <1>1, <1>2, <1>3, <2>1 DEF TimingTyped, AccountFits, IsTable
  <2>3. Attributed' /\ AddsUp'
    BY <1>2, <2>1 DEF Attributed, AddsUp
  <2> QED
    BY <2>2, <2>3
<1>5. CASE ~ (Len(phases) >= MaxPhases)
  <2> DEFINE before == {k \in DOMAIN phases : phases[k].phase = name}
             new == [phase |-> name, status |-> "incomplete", execution |-> 1 + Cardinality(before)]
  <2>1. phases' = Append(phases, new) /\ active' = Len(phases) + 1 /\ UNCHANGED limited
    BY <1>5 DEF Executing
  <2>2. Cardinality(before) \in Nat
    <3>1. DOMAIN phases = 1 .. Len(phases)
      BY <1>3, LenProperties
    <3>2. IsFiniteSet(1 .. Len(phases))
      BY <1>3, FS_Interval
    <3>3. IsFiniteSet(before)
      BY <3>1, <3>2, FS_Subset
    <3> QED
      BY <3>3, FS_CardinalityType
  <2>3. new \in PhaseRecords
    BY <2>2 DEF PhaseRecords
  <2> HIDE DEF new
  <2>4. phases' \in Seq(PhaseRecords) /\ Len(phases') = Len(phases) + 1
        /\ \A k \in 1 .. Len(phases) : phases'[k] = phases[k]
    BY <1>3, <2>1, <2>3, AppendProperties
  <2>5. DOMAIN phases \subseteq DOMAIN phases' /\ \A k \in DOMAIN phases : phases'[k] = phases[k]
    BY <1>3, <2>4, LenProperties
  <2>6. TimingTyped' /\ AccountFits'
    <3>1. Len(phases') <= MaxPhases /\ active' \in 0 .. Len(phases')
      BY <1>3, <1>5, <2>1, <2>4
    <3> QED
      BY <1>1, <1>2, <2>1, <2>4, <3>1 DEF TimingTyped, AccountFits, IsTable
  <2>7. Attributed'
    BY <1>2, <2>5, PhasesKept
  <2>8. AddsUp'
    BY <1>1, <1>2, <2>1 DEF AddsUp
  <2> QED
    BY <2>6, <2>7, <2>8
<1> QED
  BY <1>4, <1>5

LEMMA ExecutedKeeps ==
    ASSUME TimingInv, NEW name \in TimedPhases, NEW outcome \in {"successful", "failed", "partial"},
           Executed(name, outcome)
    PROVE  TimingInv'
<1> USE DEF TimingInv
<1>1. lines' \in [all : Nat, events : Nat, invalid : Nat] /\ lines'.events = lines.events
  BY OtherKeeps DEF Executed
<1>2. UNCHANGED <<tasks, roles, roleRuns, limited>> /\ active' = 0
      /\ phases' = [phases EXCEPT ![active].status = outcome]
  BY DEF Executed
<1>3. phases \in Seq(PhaseRecords) /\ Len(phases) \in Nat /\ active \in 1 .. Len(phases)
  BY LenProperties DEF TimingTyped, Executed
<1>4. DOMAIN phases = 1 .. Len(phases) /\ \A k \in 1 .. Len(phases) : phases[k] \in PhaseRecords
  BY <1>3, LenProperties, ElementOfSeq
<1> DEFINE ended == [phases[active] EXCEPT !.status = outcome]
<1>5. ended \in PhaseRecords /\ ended.phase = phases[active].phase /\ ended.execution = phases[active].execution
  BY <1>3, <1>4 DEF PhaseRecords
<1>6. phases' = [phases EXCEPT ![active] = ended]
  BY <1>2
<1> HIDE DEF ended
<1>7. phases' \in Seq(PhaseRecords) /\ Len(phases') = Len(phases)
  BY <1>3, <1>5, <1>6, ExceptSeq
<1>8. DOMAIN phases' = DOMAIN phases
      /\ \A k \in DOMAIN phases : phases'[k].phase = phases[k].phase /\ phases'[k].execution = phases[k].execution
  BY <1>3, <1>4, <1>5, <1>6
<1>9. TimingTyped' /\ AccountFits'
  BY <1>1, <1>2, <1>3, <1>7 DEF TimingTyped, AccountFits, IsTable
<1>10. Attributed'
  BY <1>2, <1>8, PhasesKept
<1>11. AddsUp'
  BY <1>1, <1>2 DEF AddsUp
<1> QED
  BY <1>9, <1>10, <1>11

\* What the tables of a record are keyed by.
LEMMA KeysOf ==
    ASSUME NEW source, NEW role
    PROVE  LET t == Tables(source, role)
           IN  t.task[1] = Execution /\ t.run[1] = t.role
BY DEF Tables

LEMMA RecordKeeps ==
    ASSUME TimingInv, NEW source \in TaskSources, NEW role \in RoleRuns, Record(source, role)
    PROVE  TimingInv'
<1> USE DEF TimingInv
<1> DEFINE t == Tables(source, role)
<1>1. t.task[1] = Execution /\ t.run[1] = t.role
  BY KeysOf
<1>2. /\ lines' = [lines EXCEPT !.all = @ + 1, !.events = @ + 1]
      /\ tasks' = IF NoTask(t) THEN tasks ELSE More(tasks, t.task)
      /\ roles' = IF NoRole(t) THEN roles ELSE More(roles, t.role)
      /\ roleRuns' = IF NoRun(t) THEN roleRuns ELSE roleRuns \cup {t.run}
      /\ limited' = (limited \/ LeavesOut(t))
      /\ UNCHANGED <<phases, active>>
  BY DEF Record
<1> HIDE DEF t
<1>3. lines' \in [all : Nat, events : Nat, invalid : Nat] /\ lines'.events = lines.events + 1 /\ lines.events \in Nat
  <2>1. lines' = [all |-> lines.all + 1, events |-> lines.events + 1, invalid |-> lines.invalid]
    BY <1>2 DEF TimingTyped
  <2> QED
    BY <2>1 DEF TimingTyped
<1>4. IsTable(tasks) /\ IsTable(roles)
  BY DEF TimingTyped
<1>5. IsTable(tasks') /\ IsTable(roles')
  BY <1>2, <1>4, OneMore
<1>6. TimingTyped'
  BY <1>2, <1>3, <1>5 DEF TimingTyped, LeavesOut, NoRun, NoRole, NoTask, Full
<1>7. AccountFits'
  <2>1. Cardinality(DOMAIN tasks') <= MaxTasks
    <3>1. CASE NoTask(t)
      BY <1>2, <3>1 DEF AccountFits
    <3>2. CASE ~NoTask(t) /\ t.task \in DOMAIN tasks
      <4>1. DOMAIN tasks' = DOMAIN tasks
        BY <1>2, <1>4, <3>2, OneMore
      <4> QED
        BY <4>1 DEF AccountFits
    <3>3. CASE ~NoTask(t) /\ t.task \notin DOMAIN tasks
      <4>1. DOMAIN tasks' = DOMAIN tasks \cup {t.task} /\ IsFiniteSet(DOMAIN tasks)
        BY <1>2, <1>4, <3>3, OneMore DEF IsTable
      <4>2. Cardinality(DOMAIN tasks') = Cardinality(DOMAIN tasks) + 1 /\ Cardinality(DOMAIN tasks) \in Nat
        BY <3>3, <4>1, FS_AddElement, FS_CardinalityType
      <4>3. ~ (Cardinality(DOMAIN tasks) >= MaxTasks) /\ MaxTasks \in Nat
        BY <3>3, TimingConstants DEF NoTask, Full
      <4> QED
        BY <4>2, <4>3
    <3> QED
      BY <3>1, <3>2, <3>3
  <2> QED
    BY <1>2, <2>1 DEF AccountFits
<1>8. Attributed'
  <2>1. DOMAIN tasks' \subseteq DOMAIN tasks \cup {t.task}
    BY <1>2, <1>4, OneMore
  <2>2. Execution # <<"unattributed", 0>> =>
          \E k \in DOMAIN phases : Execution = <<phases[k].phase, phases[k].execution>>
    <3>1. phases \in Seq(PhaseRecords) /\ active # 0 => active \in DOMAIN phases
      BY LenProperties DEF TimingTyped
    <3> QED
      BY <3>1 DEF Execution, TimingTyped
  <2> QED
    BY <1>1, <1>2, <2>1, <2>2 DEF Attributed
<1>9. AddsUp'
  <2> SUFFICES ASSUME ~limited' PROVE AddsUp'
    BY DEF AddsUp
  <2>1. ~limited /\ ~NoTask(t) /\ ~NoRole(t) /\ ~NoRun(t)
    BY <1>2 DEF LeavesOut
  <2>2. SumFunction(tasks') = SumFunction(tasks) + 1 /\ SumFunction(roles') = SumFunction(roles) + 1
        /\ DOMAIN roles' = DOMAIN roles \cup {t.role}
    BY <1>2, <1>4, <2>1, OneMore
  <2>3. roleRuns' = roleRuns \cup {t.run}
    BY <1>2, <2>1
  <2>4. {run[1] : run \in roleRuns'} = {run[1] : run \in roleRuns} \cup {t.role}
    BY <1>1, <2>3
  <2> QED
    BY <1>3, <2>1, <2>2, <2>4 DEF AddsUp
<1> QED
  BY <1>6, <1>7, <1>8, <1>9

LEMMA TimingKeeps == ASSUME TimingInv, [TimingNext]_timingVars PROVE TimingInv'
<1>1. ASSUME NEW name \in TimedPhases, Executing(name) PROVE TimingInv'
  BY <1>1, ExecutingKeeps
<1>2. ASSUME NEW name \in TimedPhases, NEW outcome \in {"successful", "failed", "partial"}, Executed(name, outcome)
      PROVE  TimingInv'
  BY <1>2, ExecutedKeeps
<1>3. ASSUME NEW source \in TaskSources, NEW role \in RoleRuns, Record(source, role) PROVE TimingInv'
  BY <1>3, RecordKeeps
<1>4. CASE Malformed
  <2>1. UNCHANGED <<phases, active, tasks, roles, roleRuns, limited>>
    BY <1>4 DEF Malformed
  <2>2. lines' \in [all : Nat, events : Nat, invalid : Nat] /\ lines'.events = lines.events
    <3>1. lines' = [all |-> lines.all + 1, events |-> lines.events, invalid |-> lines.invalid + 1]
      BY <1>4 DEF Malformed, TimingInv, TimingTyped
    <3> QED
      BY <3>1 DEF TimingInv, TimingTyped
  <2>3. TimingTyped'
    BY <2>1, <2>2 DEF TimingInv, TimingTyped, IsTable
  <2> QED
    BY <2>1, <2>2, <2>3 DEF TimingInv, AccountFits, Attributed, AddsUp
<1>5. CASE TimingFinish
  <2>1. UNCHANGED <<phases, tasks, roles, roleRuns, limited>> /\ active' = 0
    BY <1>5 DEF TimingFinish
  <2>2. lines' \in [all : Nat, events : Nat, invalid : Nat] /\ lines'.events = lines.events
    BY <1>5, TimingConstants DEF TimingFinish, TimingInv, TimingTyped
  <2>3. TimingTyped'
    <3>1. Len(phases) \in Nat
      BY LenProperties DEF TimingInv, TimingTyped
    <3> QED
      BY <2>1, <2>2, <3>1 DEF TimingInv, TimingTyped, IsTable
  <2> QED
    BY <2>1, <2>2, <2>3 DEF TimingInv, AccountFits, Attributed, AddsUp
<1>6. CASE UNCHANGED timingVars
  BY <1>6 DEF timingVars, TimingInv, TimingTyped, IsTable, AccountFits, Attributed, AddsUp
<1> QED
  BY <1>1, <1>2, <1>3, <1>4, <1>5, <1>6 DEF TimingNext

\* The timing account adds up unless it says it is limited, whatever lines Molecule prints
\* and however small the limits are (molecule_timing.py, observe and _task).
THEOREM AccountsAddUp == Spec => []TimingAccounts
<1>1. Init => TimingInv
  BY TimingStarts DEF Init
<1>2. TimingInv /\ [Next]_toolchainVars => TimingInv'
  <2>1. [Next]_toolchainVars => [TimingNext]_timingVars
    BY DEF Next, toolchainVars
  <2> QED
    BY <2>1, TimingKeeps
<1>3. TimingInv => TimingAccounts
  BY DEF TimingInv, AccountFits, Attributed, AddsUp, TimingAccounts
<1> QED
  BY <1>1, <1>2, <1>3, PTL DEF Spec
=============================================================================
