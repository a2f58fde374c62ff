----------------------------- MODULE MoleculeTiming -----------------------------
(***************************************************************************)
(* scripts/molecule_timing.py and the callback of                          *)
(* scripts/callback_plugins/homelab_timing.py: from the lines Molecule     *)
(* prints, a bounded account of which phase ran, how it ended, and which   *)
(* tasks and roles ran in it.  A line is a phase marker, a record of the   *)
(* callback, or anything else; durations are left out.                     *)
(***************************************************************************)
EXTENDS Naturals, SequencesExt

CONSTANTS
    TimedPhases,    \* names of phases Molecule announces
    TaskSources,    \* places of tasks in the repository
    RoleRuns,       \* role executions: [role, run]
    MaxPhases,      \* 64 in the code
    MaxTasks,       \* max_tasks, 4096 in the code
    MaxLines        \* how many lines a run prints

ASSUME TimingConstants == {MaxPhases, MaxTasks, MaxLines} \subseteq Nat

VARIABLES
    phases,     \* the phases seen, in order
    active,     \* the index of the phase that runs, 0 for none
    tasks,      \* (phase, execution, source) -> how many records
    roles,      \* (phase, execution, role) -> how many records and executions
    roleRuns,   \* the executions of roles that were told apart
    limited,    \* something was left out
    lines       \* how many lines there were, of which how many records and how many broken

timingVars == <<phases, active, tasks, roles, roleRuns, limited, lines>>

TimingInit ==
    /\ phases = << >> /\ active = 0
    /\ tasks = << >> /\ roles = << >> /\ roleRuns = {}
    /\ limited = FALSE
    /\ lines = [all |-> 0, events |-> 0, invalid |-> 0]

-----------------------------------------------------------------------------
OtherLine == lines.all < MaxLines /\ lines' = [lines EXCEPT !.all = @ + 1]

\* observe, "Executing": the phase before is over, whether that was announced or not.
Executing(name) ==
    /\ OtherLine
    /\ IF Len(phases) >= MaxPhases
       THEN limited' = TRUE /\ active' = 0 /\ UNCHANGED phases
       ELSE /\ phases' = Append(phases, [phase |-> name, status |-> "incomplete",
                execution |-> 1 + Cardinality({k \in DOMAIN phases : phases[k].phase = name})])
            /\ active' = Len(phases) + 1
            /\ UNCHANGED limited
    /\ UNCHANGED <<tasks, roles, roleRuns>>

\* observe, "Executed": counts only for the phase that runs, whatever the summary says.
Executed(name, outcome) ==
    /\ OtherLine
    /\ active # 0 /\ phases[active].phase = name
    /\ phases' = [phases EXCEPT ![active].status = outcome]
    /\ active' = 0
    /\ UNCHANGED <<tasks, roles, roleRuns, limited>>

\* A record that is too long, no JSON or has other fields is counted and dropped.
Malformed ==
    /\ lines.all < MaxLines
    /\ lines' = [lines EXCEPT !.all = @ + 1, !.invalid = @ + 1]
    /\ UNCHANGED <<phases, active, tasks, roles, roleRuns, limited>>

Execution ==
    IF active = 0 THEN <<"unattributed", 0>> ELSE <<phases[active].phase, phases[active].execution>>

Count(f, key) == IF key \in DOMAIN f THEN f[key] ELSE 0
More(f, key) == [k \in DOMAIN f \cup {key} |-> IF k = key THEN Count(f, key) + 1 ELSE f[k]]

\* A table takes no more keys than MaxTasks.
Full(table, key) == key \notin table /\ Cardinality(table) >= MaxTasks

Tables(source, role) ==
    [task |-> <<Execution, source>>, role |-> <<Execution, role.role>>,
     run |-> <<<<Execution, role.role>>, role.run>>]

NoTask(t) == Full(DOMAIN tasks, t.task)
NoRole(t) == NoTask(t) \/ Full(DOMAIN roles, t.role)
NoRun(t) == NoRole(t) \/ Full(roleRuns, t.run)

\* Mutant: a full table of roles leaves no mark.
LeavesOutTasks(t) == NoTask(t)

LeavesOut(t) == NoTask(t) \/ NoRole(t) \/ NoRun(t)

\* _task: a record belongs to the phase that runs; what has no room leaves a mark.
Record(source, role) ==
    LET t == Tables(source, role) IN
    /\ lines.all < MaxLines
    /\ lines' = [lines EXCEPT !.all = @ + 1, !.events = @ + 1]
    /\ tasks' = IF NoTask(t) THEN tasks ELSE More(tasks, t.task)
    /\ roles' = IF NoRole(t) THEN roles ELSE More(roles, t.role)
    /\ roleRuns' = IF NoRun(t) THEN roleRuns ELSE roleRuns \cup {t.run}
    /\ limited' = (limited \/ LeavesOut(t))
    /\ UNCHANGED <<phases, active>>

\* run_platform: finish, when Molecule is over.
TimingFinish ==
    /\ active # 0 /\ active' = 0
    /\ lines' = [lines EXCEPT !.all = MaxLines]
    /\ UNCHANGED <<phases, tasks, roles, roleRuns, limited>>

TimingNext ==
    \/ \E name \in TimedPhases :
           Executing(name) \/ \E outcome \in {"successful", "failed", "partial"} : Executed(name, outcome)
    \/ Malformed \/ TimingFinish
    \/ \E source \in TaskSources, role \in RoleRuns : Record(source, role)

-----------------------------------------------------------------------------
\* An account that does not say it is limited has every record: the tasks and the roles
\* add up to the records that came, each role execution is counted once, and each record
\* is under a phase execution the account lists or under none.  (report shows the slowest
\* twenty tasks and roles of it, and does not count the others as left out.)
TimingAccounts ==
    /\ Cardinality(DOMAIN tasks) <= MaxTasks /\ Len(phases) <= MaxPhases
    /\ \A key \in DOMAIN tasks : key[1] # <<"unattributed", 0>> =>
           \E k \in DOMAIN phases : key[1] = <<phases[k].phase, phases[k].execution>>
    /\ ~limited =>
        /\ SumFunction(tasks) = lines.events /\ SumFunction(roles) = lines.events
        /\ {run[1] : run \in roleRuns} = DOMAIN roles
=============================================================================
