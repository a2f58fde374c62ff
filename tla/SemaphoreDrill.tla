----------------------------- MODULE SemaphoreDrill -----------------------------
(***************************************************************************)
(* scripts/semaphore/restore.py and fixture.py: a restore experiment loads *)
(* one archive into a database and an application of its own, next to the  *)
(* target container of a fixture or of an operator.  Whatever is made is   *)
(* remembered before it is made and removed at the end, whatever happened. *)
(*                                                                         *)
(* Containers, networks, volumes and directories are names; "f-..." and    *)
(* "r-..." are containers run with --rm, which are gone when their command *)
(* is over and may run on when the caller gave up.  Loops that repeat such *)
(* a container are one step.                                               *)
(***************************************************************************)
EXTENDS Naturals, SequencesExt

CONSTANTS
    MaxDrillFaults,  \* commands that fail or time out
    MaxSignals       \* interrupts: of an operator or of test.py at its timeout

ASSUME DrillConstants == {MaxDrillFaults, MaxSignals} \subseteq Nat

VARIABLES
    mode,       \* fixture: inside fixture.py; attended: with an operator's target
    stage,      \* body, restore (its cleanup), fixture (its cleanup), over
    at,         \* the step of the body
    todo,       \* what the running cleanup has left to look at
    recorded,   \* what the run remembers
    made,       \* what the run made and is there
    others,     \* what is there under such a name and belongs to someone else
    linked,     \* the target is on the network of the experiment
    internal,   \* that network is internal
    marked,     \* the destination carries the marker of the run
    schedules,  \* none, active or off: the schedules in the restored database
    failed,     \* what the cleanups reported
    primary,    \* the body failed
    signal,     \* where an interrupt arrived: no, body, mkdir or cleanup
    result,     \* the exit: none, accepted, refused, crashed, interrupted or killed
    upsets      \* faults in the body, faults in a cleanup, interrupts

drillVars == <<mode, stage, at, todo, recorded, made, others, linked, internal, marked,
               schedules, failed, primary, signal, result, upsets>>

-----------------------------------------------------------------------------
(* The steps of fixture.run, and of RestoreExperiment.run inside it. *)

FixtureSteps == <<"temp", "fnet", "dnet", "fvol", "target", "denied", "f-oracle", "fdb", "fapp",
                  "f-seed", "f-backup", "f-outage", "samba", "f-transfer">>

\* Mutant: the application is started first, and its schedules are turned off behind it.
RestoreStepsApplicationFirst ==
    <<"preflight", "dest", "r-download", "archive", "r-check", "rnet", "isolated",
      "labelled", "link", "rvol", "rdb", "r-load", "rapp", "r-schedules", "r-validate">>

RestoreSteps == <<"preflight", "dest", "r-download", "archive", "r-check", "rnet", "isolated",
                  "labelled", "link", "rvol", "rdb", "r-load", "r-schedules", "rapp", "r-validate">>

FixtureBody == FixtureSteps \o RestoreSteps
Body == IF mode = "fixture" THEN FixtureBody ELSE RestoreSteps

Checks == {"preflight", "archive", "isolated", "labelled"}
OneShots == {"f-oracle", "f-seed", "f-backup", "f-outage", "f-transfer",
             "r-download", "r-check", "r-load", "r-schedules", "r-validate"}

\* Mutant: the network goes before what is attached to it.
RestoreOrderNetworkFirst == <<"link", "rnet", "rvol", "r-validate", "rapp", "r-schedules", "r-load", "rdb",
                              "r-check", "r-download", "dest">>

\* The order of _cleanup: the target, containers backwards, volume, network, destination.
RestoreOrder == <<"link", "r-validate", "rapp", "r-schedules", "r-load", "rdb", "r-check", "r-download",
                  "rvol", "rnet", "dest">>
FixtureOrder == Reverse(FixtureSteps)

Restore == ToSet(RestoreOrder)
Fixture == ToSet(FixtureOrder)

\* What a container is attached to; Podman keeps that while the container is there.
Uses(r) ==
    CASE r \in {"target", "fapp", "samba", "f-backup", "f-outage", "f-transfer", "r-download"} -> {"fnet"}
      [] r \in {"denied", "f-oracle"} -> {"dnet"}
      [] r = "fdb" -> {"fnet", "fvol"}
      [] r = "f-seed" -> {"fapp"}
      [] r = "rdb" -> {"rnet", "rvol"}
      [] r \in {"r-load", "r-schedules", "rapp"} -> {"rnet"}
      [] r = "r-validate" -> {"rapp"}
      [] OTHER -> {}

InUse(r) == (r = "rnet" /\ linked) \/ \E s \in made : r \in Uses(s)

\* Names a stranger may have taken: chance, or an earlier run for the destination.
DrillInit ==
    /\ mode \in {"fixture", "attended"}
    /\ others \in {{}, {"rvol"}, {"rdb"}}
    /\ stage = "body" /\ at = 1 /\ todo = {}
    /\ recorded = {} /\ made = {}
    /\ linked = FALSE /\ internal = TRUE /\ marked = FALSE /\ schedules = "none"
    /\ failed = {} /\ primary = FALSE /\ signal = "no" /\ result = "none"
    /\ upsets = [body |-> 0, cleanup |-> 0, signals |-> 0]

Faults == upsets.body + upsets.cleanup

-----------------------------------------------------------------------------
(* Cleanup lists *)

RestoreCleanup == recorded \cap Restore
FixtureCleanup == recorded \cap Fixture

\* Mutant: without the experiment's own cleanup, that of the fixture follows, fixture or not.
LeavesAlike(step) ==
    IF step \in (Restore \cup Checks \cup {"end"}) \ {"preflight"}
    THEN stage' = "restore" /\ todo' = RestoreCleanup' /\ UNCHANGED result
    ELSE stage' = "fixture" /\ todo' = FixtureCleanup' /\ UNCHANGED result

\* After the body: who cleans up what. Nothing of the experiment is there before its
\* preflight is over, and an attended run has no fixture around it.
Leaves(step) ==
    IF step \in (Restore \cup Checks \cup {"end"}) \ {"preflight"}
    THEN stage' = "restore" /\ todo' = RestoreCleanup' /\ UNCHANGED result
    ELSE IF mode = "fixture"
    THEN stage' = "fixture" /\ todo' = FixtureCleanup' /\ UNCHANGED result
    ELSE stage' = "over" /\ todo' = {} /\ result' = "refused"

\* The end of a cleanup: with a failure of the body or its own the run is refused; the
\* refusal of the experiment is the failure of the fixture's body.
Cleaned(reports) ==
    LET bad == primary \/ reports # {} IN
    IF stage = "restore" /\ mode = "fixture"
    THEN stage' = "fixture" /\ todo' = FixtureCleanup /\ primary' = bad /\ UNCHANGED result
    ELSE /\ stage' = "over" /\ todo' = {} /\ UNCHANGED primary
         /\ result' = IF bad THEN "refused" ELSE "accepted"

-----------------------------------------------------------------------------
(* The body *)

InBody(step) == stage = "body" /\ at <= Len(Body) /\ Body[at] = step

\* The temporary directory and the destination are remembered when they are made.
Remember(r) ==
    recorded' = IF r \in Checks \/ (r \in {"temp", "dest"} /\ r \notin made')
                THEN recorded ELSE recorded \cup {r}

\* Steps that set up what later steps rely on.
Effects(r) ==
    /\ linked' = (linked \/ r = "link")
    /\ marked' = (marked \/ r = "dest")
    /\ schedules' = CASE r = "r-load" -> "active" [] r = "r-schedules" -> "off" [] OTHER -> schedules

Makes(r) == IF r \in Checks \cup OneShots \cup {"link"} THEN {} ELSE {r}

Step(r) ==
    /\ InBody(r)
    /\ r \notin others
    /\ r = "isolated" => internal
    /\ made' = made \cup Makes(r)
    /\ Remember(r)
    /\ Effects(r)
    /\ at' = at + 1
    /\ UNCHANGED <<mode, stage, todo, others, internal, failed, primary, signal, result, upsets>>

\* Every step is done: _cleanup is next.
BodyEnds ==
    /\ stage = "body" /\ at > Len(Body)
    /\ UNCHANGED <<mode, at, recorded, made, others, linked, internal, marked, schedules,
                   failed, primary, signal, upsets>>
    /\ Leaves("end")

\* A step fails: nothing happened, or it did and its answer was lost (a timeout). Of the
\* destination the directory may be there and the marker not.
Broken(r) ==
    /\ \/ made' = made /\ UNCHANGED <<linked, marked, schedules>>
       \/ r \notin others /\ made' = made \cup Makes(r) \cup ({r} \cap OneShots) /\ Effects(r)
       \/ r = "dest" /\ r \notin others /\ made' = made \cup {r} /\ UNCHANGED <<linked, marked, schedules>>
    /\ Remember(r)
    /\ primary' = TRUE
    /\ Leaves(r)

StepFails(r) ==
    /\ InBody(r)
    /\ IF r \in others \/ (r = "isolated" /\ ~internal)
       THEN UNCHANGED upsets
       ELSE Faults < MaxDrillFaults /\ upsets' = [upsets EXCEPT !.body = @ + 1]
    /\ Broken(r)
    /\ UNCHANGED <<mode, at, others, internal, failed, signal>>

\* Podman answers that the network is not internal.
NotInternal ==
    /\ InBody("isolated") /\ internal
    /\ Faults < MaxDrillFaults /\ upsets' = [upsets EXCEPT !.body = @ + 1]
    /\ internal' = FALSE
    /\ UNCHANGED <<mode, stage, at, todo, recorded, made, others, linked, marked, schedules,
                   failed, primary, signal, result>>

-----------------------------------------------------------------------------
(* The cleanups, one remembered name at a time *)

Order == IF stage = "restore" THEN RestoreOrder ELSE FixtureOrder

Cleaning(r) ==
    /\ stage \in {"restore", "fixture"} /\ r \in todo
    /\ \E i \in DOMAIN Order : r = Order[i] /\ \A j \in 1..i - 1 : Order[j] \notin todo

Proceed(r, reports) ==
    IF todo = {r} THEN Cleaned(reports)
    ELSE todo' = todo \ {r} /\ UNCHANGED <<stage, primary, result>>

ReportsOf(S) == S \cap (IF stage = "restore" THEN Restore ELSE Fixture)

\* exists, then the owner label or the marker.
Owned(r) == r \notin others /\ (r = "dest" => marked)

\* Removing the target takes it off every network.
Gone(r) ==
    /\ made' = made \ {r}
    /\ others' = others \ {r}
    /\ linked' = (linked /\ r \notin {"link", "target"})
    /\ marked' = (marked /\ r # "dest")

Present(r) == IF r = "link" THEN linked ELSE r \in made \cup others

Removable(r) == Present(r) /\ Owned(r) /\ ~InUse(r)

RemoveNext(r) ==
    /\ Cleaning(r)
    /\ Removable(r) \/ (~Present(r) /\ r \notin {"link", "dest"})
    /\ IF Removable(r) THEN Gone(r) ELSE UNCHANGED <<made, others, linked, marked>>
    /\ Proceed(r, ReportsOf(failed))
    /\ UNCHANGED <<mode, at, recorded, internal, schedules, failed, signal, upsets>>

\* Refused for its owner or by Podman, or it was to be there and is not: the error is kept
\* and the rest of the list goes on.
CannotRemove(r) ==
    /\ Cleaning(r)
    /\ IF Present(r) THEN ~Removable(r) ELSE r \in {"link", "dest"}
    /\ failed' = failed \cup {r}
    /\ Proceed(r, ReportsOf(failed'))
    /\ UNCHANGED <<mode, at, recorded, made, others, linked, internal, marked, schedules, signal, upsets>>

\* A command of the cleanup fails or its answer is lost.
RemoveFails(r) ==
    /\ Cleaning(r) /\ r # "temp"
    /\ Faults < MaxDrillFaults /\ upsets' = [upsets EXCEPT !.cleanup = @ + 1]
    /\ failed' = failed \cup {r}
    /\ IF Removable(r)
       THEN Gone(r) \/ UNCHANGED <<made, others, linked, marked>>
            \/ (r = "dest" /\ marked' = FALSE /\ UNCHANGED <<made, others, linked>>)
       ELSE UNCHANGED <<made, others, linked, marked>>
    /\ Proceed(r, ReportsOf(failed'))
    /\ UNCHANGED <<mode, at, recorded, internal, schedules, signal>>

\* The temporary directory is outside the try: its error ends the run without a report.
TempFails ==
    /\ Cleaning("temp")
    /\ Faults < MaxDrillFaults /\ upsets' = [upsets EXCEPT !.cleanup = @ + 1]
    /\ stage' = "over" /\ todo' = {} /\ result' = "crashed"
    /\ UNCHANGED <<mode, at, recorded, made, others, linked, internal, marked, schedules,
                   failed, primary, signal>>

NothingToClean ==
    /\ stage \in {"restore", "fixture"} /\ todo = {}
    /\ Cleaned({})
    /\ UNCHANGED <<mode, at, recorded, made, others, linked, internal, marked, schedules,
                   failed, signal, upsets>>

-----------------------------------------------------------------------------
(* Signals, and what happens around the run *)

\* An interrupt in the body is its failure; the destination may be there unremembered.
InterruptBody ==
    LET r == Body[at] IN
    /\ stage = "body" /\ at <= Len(Body)
    /\ upsets.signals < MaxSignals /\ upsets' = [upsets EXCEPT !.signals = @ + 1]
    /\ \/ Broken(r) /\ signal' = "body"
       \/ /\ r = "dest" /\ r \notin others
          /\ made' = made \cup {r} /\ signal' = "mkdir" /\ primary' = TRUE
          /\ UNCHANGED <<recorded, linked, marked, schedules>>
          /\ Leaves(r)
    /\ UNCHANGED <<mode, at, others, internal, failed>>

\* An interrupt in a cleanup ends it: the handlers take Exception only. The cleanup of the
\* fixture still follows that of the experiment.
InterruptCleanup(r) ==
    /\ Cleaning(r)
    /\ upsets.signals < MaxSignals /\ upsets' = [upsets EXCEPT !.signals = @ + 1]
    /\ signal' = "cleanup"
    /\ IF Removable(r) THEN Gone(r) \/ UNCHANGED <<made, others, linked, marked>>
       ELSE UNCHANGED <<made, others, linked, marked>>
    /\ primary' = TRUE
    /\ IF stage = "restore" /\ mode = "fixture"
       THEN stage' = "fixture" /\ todo' = FixtureCleanup /\ UNCHANGED result
       ELSE stage' = "over" /\ todo' = {} /\ result' = "interrupted"
    /\ UNCHANGED <<mode, at, recorded, internal, schedules, failed>>

\* test.py kills the process group when an interrupt did not end it in time.
KillDrill ==
    /\ stage # "over" /\ signal # "no"
    /\ stage' = "over" /\ todo' = {} /\ result' = "killed"
    /\ UNCHANGED <<mode, at, recorded, made, others, linked, internal, marked, schedules,
                   failed, primary, signal, upsets>>

\* A container run with --rm that nobody waits for any more ends by itself.
OneShotEnds(r) ==
    /\ r \in made \cap OneShots
    /\ made' = made \ {r}
    /\ UNCHANGED <<mode, stage, at, todo, recorded, others, linked, internal, marked, schedules,
                   failed, primary, signal, result, upsets>>

\* Someone else makes the destination after the preflight looked.
DestinationTaken ==
    /\ InBody("dest") /\ others = {}
    /\ others' = {"dest"}
    /\ UNCHANGED <<mode, stage, at, todo, recorded, made, linked, internal, marked, schedules,
                   failed, primary, signal, result, upsets>>

-----------------------------------------------------------------------------
DrillNext ==
    \/ \E r \in Restore \cup Fixture \cup Checks : Step(r) \/ StepFails(r)
    \/ BodyEnds \/ NotInternal
    \/ \E r \in Restore \cup Fixture :
           RemoveNext(r) \/ CannotRemove(r) \/ RemoveFails(r) \/ InterruptCleanup(r)
    \/ TempFails \/ NothingToClean \/ InterruptBody \/ KillDrill
    \/ \E r \in OneShots : OneShotEnds(r)
    \/ DestinationTaken

-----------------------------------------------------------------------------
DrillTypeOK ==
    /\ stage \in {"body", "restore", "fixture", "over"}
    /\ made \subseteq (Restore \cup Fixture) \ {"link"}
    /\ recorded \cap Checks = {}
    /\ (result = "none") = (stage # "over")
    /\ stage = "fixture" => mode = "fixture"

Left == made \cup (IF linked THEN {"link"} ELSE {})

\* "cleanup verified" is said only when nothing is left: no container, network, volume or
\* directory of the experiment or its fixture, and the target is off the network. What a
\* refused run leaves it reports, item by item, after any failures of the body and of either
\* cleanup; and if no command of a cleanup failed there is nothing left but a destination
\* whose marker was never written: the order takes users before what they use.
ReportsLeftovers ==
    /\ result = "accepted" => Left = {} /\ ~primary
    /\ result = "refused" /\ signal \notin {"mkdir", "cleanup"} =>
           /\ Left \subseteq failed
           /\ upsets.cleanup = 0 => Left \subseteq {"dest"}

\* What has a name of the run and was made by someone else stays, in every order of events.
StrangersAreKept == [][others \subseteq others']_drillVars

\* The restored application is only ever there on an internal network, beside a database
\* whose schedules are off: nothing it holds can reach a managed host by itself.
RestoredIsInert == "rapp" \in made => internal /\ schedules = "off"
=============================================================================
