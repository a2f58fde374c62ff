------------------------------ MODULE ChangeGate ------------------------------
(***************************************************************************)
(* One pull request on its way to main: scripts/ci classifies its paths    *)
(* and plans Molecule, the jobs of .github/workflows/ci.yml run,           *)
(* merge_gate.py reconciles their results, and GitHub merges what the      *)
(* protection of RepositoryProtection lets through.                        *)
(*                                                                         *)
(* A path is named for its class: a document, Ansible source, a path whose *)
(* impact rule names a scenario, a molecule path without a rule            *)
(* ("unmapped") or with the rule "all" ("shared"), and the toolchain.      *)
(***************************************************************************)
EXTENDS RepositoryProtection

CONSTANTS
    Changes,     \* sets of changed paths a pull request can have
    Platforms,   \* the platforms of each Molecule scenario
    MaxHeads     \* bound: heads pushed

Scenarios == DOMAIN Platforms
Paths == {"document", "source", "unmapped", "shared", "toolchain"} \cup Scenarios

ASSUME GateConstants ==
    /\ MaxHeads \in Nat
    /\ Changes \subseteq (SUBSET Paths) \ {{}}
    /\ {"document", "source", "unmapped", "shared", "toolchain"} \cap Scenarios = {}

VARIABLES
    pr,      \* the pull request: its paths, and whether main moved past its base
    ci,      \* the workflow run of its head
    check,   \* merge-gate on its head, and what the run really validated
    heads

gateVars == <<pr, ci, check, heads>>
vars == <<protectionVars, gateVars>>

-----------------------------------------------------------------------------
(* Classification and plan.                                                *)

ClassifyPath(path) ==
    IF path = "document" THEN "fast"
    ELSE IF path = "source" THEN "ansible"
    ELSE IF path = "toolchain" THEN "full"
    ELSE "molecule"

\* The deepest of the paths; without any path, everything.
Classify(paths) ==
    LET depths == {ClassifyPath(p) : p \in paths} IN
    IF paths = {} \/ "full" \in depths THEN "full"
    ELSE IF "molecule" \in depths THEN "molecule"
    ELSE IF "ansible" \in depths THEN "ansible"
    ELSE "fast"

\* What discover_changes returns; when Git fails, main goes on without paths.
Discovered == {pr.paths, {}}

\* The selectors molecule-impact.json gives for each path, none when no rule
\* matches; LoadRules also has the case of a map that is missing or invalid.
NoRules == [p \in {} |-> {}]
Impact == [p \in Paths |-> IF p \in Scenarios THEN {p} ELSE IF p = "shared" THEN Scenarios ELSE {}]
LoadRules == {Impact, NoRules}

Rows == UNION {{s} \X Platforms[s] : s \in Scenarios}
RowsOf(selectors) == {r \in Rows : r[1] \in selectors}

NoPlan == [mode |-> "none", rows |-> {}]
FullPlan == [mode |-> "full", rows |-> Rows]
\* Mutant: a path without a rule selects nothing instead of everything.
BuildPlanOfMapped(depth, paths, rules) ==
    LET affecting == {p \in paths \cap DOMAIN rules : ClassifyPath(p) \notin {"fast", "ansible"}} IN
    IF depth \in {"fast", "ansible"} THEN NoPlan
    ELSE IF depth # "molecule" \/ rules = NoRules \/ "shared" \in affecting THEN FullPlan
    ELSE [mode |-> "selective", rows |-> RowsOf(UNION {rules[p] : p \in affecting})]

BuildPlan(depth, paths, rules) ==
    LET affecting == {p \in paths : ClassifyPath(p) \notin {"fast", "ansible"}} IN
    IF depth \in {"fast", "ansible"} THEN NoPlan
    ELSE IF depth # "molecule" \/ rules = NoRules \/ \E p \in affecting : p = "shared" \/ rules[p] = {}
    THEN FullPlan
    ELSE [mode |-> "selective", rows |-> RowsOf(UNION {rules[p] : p \in affecting})]

-----------------------------------------------------------------------------
(* The merge gate.                                                         *)

\* plan_errors is empty.
PlanAccepted(depth, plan) ==
    IF depth \in {"fast", "ansible"} THEN plan = NoPlan
    ELSE /\ plan.mode # "none" /\ plan.rows # {}
         /\ plan.rows = RowsOf(IF plan.mode = "full" THEN Scenarios ELSE {r[1] : r \in plan.rows})
         /\ depth = "full" => plan.mode = "full"

\* reconcile has no errors.
Reconcile(depth, r) ==
    /\ r.classify = "success" /\ r.fast = "success"
    /\ depth \in {"fast", "ansible", "molecule", "full"}
    /\ r.ansible \in IF depth = "fast" THEN {"success", "skipped"} ELSE {"success"}
    /\ r.molecule \in IF depth \in {"fast", "ansible"} THEN {"success", "skipped"} ELSE {"success"}

-----------------------------------------------------------------------------
(* The workflow.                                                           *)

NoRun == [pc |-> "none", classify |-> "none", depth |-> "", plan |-> NoPlan]
NewRun == [pc |-> "classify", classify |-> "none", depth |-> "", plan |-> NoPlan]
NoCheck == [state |-> "none", fast |-> FALSE, ansible |-> FALSE, rows |-> {}]

GateInit ==
    /\ \E paths \in Changes : pr = [paths |-> paths, behind |-> FALSE]
    /\ ci = NewRun /\ check = NoCheck /\ heads = 0

\* A new head, of this pull request or the next; the run of the old one is
\* cancelled and its check does not count.
Push ==
    /\ heads < MaxHeads /\ heads' = heads + 1
    /\ \E paths \in Changes : pr' = [paths |-> paths, behind |-> FALSE]
    /\ ci' = NewRun /\ check' = NoCheck
    /\ UNCHANGED protectionVars

OtherMerge ==
    /\ pr.paths # {} /\ ~pr.behind /\ pr' = [pr EXCEPT !.behind = TRUE]
    /\ UNCHANGED <<ci, check, heads, protectionVars>>

\* Job classify; when it fails, the jobs that need it have no outputs.
ClassifyJob ==
    /\ ci.pc = "classify"
    /\ \/ \E paths \in Discovered, rules \in LoadRules :
            ci' = [pc |-> "jobs", classify |-> "success", depth |-> Classify(paths),
                   plan |-> BuildPlan(Classify(paths), paths, rules)]
       \/ ci' = [pc |-> "jobs", classify |-> "failure", depth |-> "", plan |-> NoPlan]
    /\ UNCHANGED <<pr, check, heads, protectionVars>>

\* The conditions of the jobs ansible and molecule.
AnsibleSelected == ci.depth \in {"ansible", "molecule", "full"}
MoleculeSelected == ci.depth \in {"molecule", "full"}

\* validate:fast on the candidate range, which may not be resolvable.
FastJob == {"success", "failure"}
AnsibleJob == IF AnsibleSelected THEN {"success", "failure"} ELSE {"skipped"}

\* A matrix ends as well as its worst row; one lost row stands for any.
MoleculeJob(rows) ==
    IF ~MoleculeSelected THEN "skipped" ELSE IF rows = ci.plan.rows THEN "success" ELSE "failure"

\* The jobs end, and merge-gate, which always runs, reports.
GateJob ==
    /\ ci.pc = "jobs" /\ ci' = NoRun
    /\ \E fast \in FastJob, ansible \in AnsibleJob, rows \in {ci.plan.rows, {}} :
         LET results == [classify |-> ci.classify, fast |-> fast, ansible |-> ansible,
                         molecule |-> MoleculeJob(rows)]
             passes == Reconcile(ci.depth, results) /\ PlanAccepted(ci.depth, ci.plan)
         IN  /\ check' = IF passes THEN [state |-> "success", fast |-> fast = "success",
                                         ansible |-> ansible = "success", rows |-> rows]
                         ELSE [NoCheck EXCEPT !.state = "failure"]
             /\ attested' = (attested \/ passes)
    /\ UNCHANGED <<pr, heads, github, op, troubles>>

\* GitHub merges.  Without enforcement it merges any head.
Merge ==
    /\ pr.paths # {}
    /\ Enforced => check.state = "success" /\ ~pr.behind
    /\ pr' = [paths |-> {}, behind |-> FALSE] /\ ci' = NoRun /\ check' = NoCheck
    /\ UNCHANGED <<heads, protectionVars>>

GateNext == Push \/ OtherMerge \/ ClassifyJob \/ GateJob \/ Merge
Next == (ProtectionNext /\ UNCHANGED gateVars) \/ GateNext

Init == ProtectionInit /\ GateInit
Spec == Init /\ [][Next]_vars

-----------------------------------------------------------------------------
(* Properties.                                                             *)

TypeOK ==
    /\ ProtectionTypeOK
    /\ pr \in [paths : Changes \cup {{}}, behind : BOOLEAN]
    /\ ci \in [pc : {"none", "classify", "jobs"}, classify : {"none", "success", "failure"},
               depth : {"", "fast", "ansible", "molecule", "full"},
               plan : [mode : {"none", "selective", "full"}, rows : SUBSET Rows]]
    /\ check \in [state : {"none", "success", "failure"}, fast : BOOLEAN, ansible : BOOLEAN, rows : SUBSET Rows]
    /\ heads \in 0 .. MaxHeads

\* What a set of paths needs, without the classifier's depths: each scenario
\* on each of its platforms, and all of them when the impact is not confined.
Covers(c, paths) ==
    /\ c.fast
    /\ paths \subseteq {"document"} \/ c.ansible
    /\ RowsOf(paths) \subseteq c.rows
    /\ paths \cap {"unmapped", "shared", "toolchain"} # {} => c.rows = Rows

\* Whatever Git, the classifier job, the impact map, a job or the gate does,
\* what GitHub merges while it enforces the gate was validated on a head that
\* contains main, as deeply as its paths need.
MergedIsValidated == [][(Merge /\ Enforced) => Covers(check, pr.paths)]_vars
=============================================================================
