--------------------------- MODULE ChangeGateProofs ---------------------------
(***************************************************************************)
(* Proofs about ChangeGate: what an enforced gate lets in was validated as *)
(* its paths need, for any changes, scenarios, invocations and troubles.   *)
(***************************************************************************)
EXTENDS ChangeGate, FiniteSetTheorems, SequenceTheorems, TLAPS

-----------------------------------------------------------------------------
(* A plan covers its paths.                                                *)

\* The depth of a path tells the documents and the Ansible source from
\* everything that Molecule has to test.
LEMMA Depths ==
    ASSUME NEW p \in Paths
    PROVE  /\ ClassifyPath(p) \in {"fast", "ansible", "molecule", "full"}
           /\ ClassifyPath(p) = "fast" <=> p = "document"
           /\ ClassifyPath(p) = "ansible" <=> p = "source"
           /\ ClassifyPath(p) = "full" <=> p = "toolchain"
  BY DEF ClassifyPath

\* The rows of a scenario carry its name.
LEMMA RowNames == ASSUME NEW r \in Rows PROVE r[1] \in Scenarios
  BY DEF Rows

\* Accepted results of the plan that the classifier made of the real paths, or
\* of none when Git failed, are what the paths need.
LEMMA PlanCovers ==
    ASSUME NEW paths \in SUBSET Paths, NEW found \in {paths, {}}, NEW rules \in LoadRules,
           NEW depth, depth = Classify(found), NEW plan, plan = BuildPlan(depth, found, rules),
           NEW c, c.fast = TRUE, depth # "fast" => c.ansible = TRUE, depth \in {"molecule", "full"} => c.rows = plan.rows
    PROVE  Covers(c, paths)
<1>. DEFINE depths == {ClassifyPath(p) : p \in found}
<1>1. CASE plan = FullPlan /\ depth \in {"molecule", "full"}
  BY <1>1 DEF Covers, FullPlan, RowsOf
<1>2. CASE depth = "full"
  BY <1>1, <1>2 DEF BuildPlan
<1>3. CASE depth = "molecule" /\ plan # FullPlan
  <2>. DEFINE affecting == {p \in found : ClassifyPath(p) \notin {"fast", "ansible"}}
  <2>1. found = paths /\ "full" \notin depths
    BY <1>3 DEF Classify
  <2>2. /\ rules = Impact /\ \A p \in affecting : p # "shared" /\ rules[p] # {}
        /\ plan.rows = RowsOf(UNION {rules[p] : p \in affecting})
    BY <1>3 DEF BuildPlan, LoadRules
  <2>3. "toolchain" \notin paths
    BY <2>1, Depths DEF Paths
  <2>4. \A s \in paths \cap Scenarios : s \in affecting /\ rules[s] = {s}
    BY <2>1, <2>2, Depths, GateConstants DEF Impact, Paths
  <2>5. "shared" \notin paths /\ "unmapped" \notin paths
    <3>1. ASSUME NEW p \in paths, p \in {"shared", "unmapped"} PROVE p \in affecting
      BY <3>1, <2>1, Depths
    <3>2. Impact["unmapped"] = {}
      BY GateConstants DEF Impact, Paths
    <3>. QED BY <3>1, <3>2, <2>2
  <2>6. RowsOf(paths) \subseteq plan.rows
    BY <2>2, <2>4, RowNames DEF RowsOf
  <2>. QED BY <1>3, <2>3, <2>5, <2>6 DEF Covers
<1>4. CASE depth \in {"fast", "ansible"}
  <2>1. found = paths /\ \A p \in paths : ClassifyPath(p) \notin {"full", "molecule"}
    BY <1>4 DEF Classify
  <2>2. paths \subseteq {"document", "source"}
    BY <2>1, Depths
  <2>3. depth = "fast" => paths \subseteq {"document"}
    <3>1. depth = "fast" => "ansible" \notin depths
      BY DEF Classify
    <3>. QED BY <3>1, <2>1, <2>2, Depths
  <2>4. RowsOf(paths) = {}
    BY <2>2, RowNames, GateConstants DEF RowsOf
  <2>. QED BY <1>4, <2>2, <2>3, <2>4 DEF Covers
<1>. QED BY <1>1, <1>2, <1>3, <1>4 DEF Classify
-----------------------------------------------------------------------------
(* What is merged was validated.                                           *)

\* While the jobs run, their depth and plan are those of the head's paths, or
\* of none; a check that succeeded covers what its head needs.
PlanOfHead ==
    ci.pc = "jobs" /\ ci.classify = "success" =>
        \E found \in {pr.paths, {}}, rules \in LoadRules :
            ci.depth = Classify(found) /\ ci.plan = BuildPlan(ci.depth, found, rules)
CheckCovers == check.state = "success" => Covers(check, pr.paths)
GateInvariant == pr.paths \in SUBSET Paths /\ PlanOfHead /\ CheckCovers

\* The gate starts with a head whose run has not classified it yet.
LEMMA GateStarts == GateInit => GateInvariant
<1>. SUFFICES ASSUME GateInit PROVE GateInvariant
  OBVIOUS
<1>1. pr.paths \in SUBSET Paths
  BY GateConstants DEF GateInit
<1>2. PlanOfHead
  BY DEF GateInit, PlanOfHead, NewRun
<1>3. CheckCovers
  BY DEF GateInit, CheckCovers, NoCheck
<1>. QED BY <1>1, <1>2, <1>3 DEF GateInvariant

\* A gate that passes covers the paths of its head.
LEMMA GatePasses ==
    ASSUME GateInvariant, GateJob PROVE CheckCovers'
<1>1. /\ ci.pc = "jobs" /\ pr' = pr
  BY DEF GateJob
<1>2. PICK fast \in FastJob, ansible \in AnsibleJob, rows \in {ci.plan.rows, {}} :
        LET results == [classify |-> ci.classify, fast |-> fast, ansible |-> ansible,
                        molecule |-> MoleculeJob(rows)]
            passes == Reconcile(ci.depth, results) /\ PlanAccepted(ci.depth, ci.plan)
        IN  check' = IF passes THEN [state |-> "success", fast |-> fast = "success",
                                     ansible |-> ansible = "success", rows |-> rows]
                     ELSE [NoCheck EXCEPT !.state = "failure"]
  BY DEF GateJob
<1>. DEFINE results == [classify |-> ci.classify, fast |-> fast, ansible |-> ansible,
                        molecule |-> MoleculeJob(rows)]
            passes == Reconcile(ci.depth, results) /\ PlanAccepted(ci.depth, ci.plan)
<1>3. CASE ~passes
  BY <1>2, <1>3 DEF CheckCovers, NoCheck
<1>4. CASE passes
  <2>1. /\ ci.classify = "success" /\ fast = "success"
        /\ ci.depth # "fast" => ansible = "success"
        /\ ci.depth \in {"molecule", "full"} => MoleculeJob(rows) = "success"
        /\ ci.depth \in {"fast", "ansible", "molecule", "full"}
    BY <1>4 DEF Reconcile
  <2>2. ci.depth \in {"molecule", "full"} => rows = ci.plan.rows
    BY <2>1 DEF MoleculeJob, MoleculeSelected
  <2>3. PICK found \in {pr.paths, {}}, rules \in LoadRules :
          ci.depth = Classify(found) /\ ci.plan = BuildPlan(ci.depth, found, rules)
    BY <1>1, <2>1 DEF GateInvariant, PlanOfHead
  <2>4. /\ check'.fast = TRUE
        /\ ci.depth # "fast" => check'.ansible = TRUE
        /\ ci.depth \in {"molecule", "full"} => check'.rows = ci.plan.rows
    <3>1. check' = [state |-> "success", fast |-> fast = "success", ansible |-> ansible = "success", rows |-> rows]
      BY <1>2, <1>4
    <3> QED
      BY <2>1, <2>2, <3>1
  <2>5. Covers(check', pr.paths)
    <3>1. pr.paths \in SUBSET Paths
      BY DEF GateInvariant
    <3>2. PICK c : c = check'
      OBVIOUS
    <3>3. Covers(c, pr.paths)
      BY <2>3, <2>4, <3>1, <3>2, PlanCovers, ZenonT(40)
    <3> QED
      BY <3>2, <3>3
  <2>. QED BY <1>1, <2>5 DEF CheckCovers
<1>. QED BY <1>3, <1>4

\* No step of the gate, of GitHub, of the tool or of an administrator breaks it.
LEMMA GateKeeps == ASSUME GateInvariant, [Next]_vars PROVE GateInvariant'
<1>1. CASE UNCHANGED gateVars
  BY <1>1 DEF gateVars, GateInvariant, PlanOfHead, CheckCovers
<1>2. CASE Push
  <2>1. pr'.paths \in SUBSET Paths
    BY <1>2, GateConstants DEF Push
  <2>2. PlanOfHead'
    BY <1>2 DEF Push, PlanOfHead, NewRun
  <2>3. CheckCovers'
    BY <1>2 DEF Push, CheckCovers, NoCheck
  <2>. QED BY <2>1, <2>2, <2>3 DEF GateInvariant
<1>3. CASE OtherMerge
  BY <1>3 DEF OtherMerge, GateInvariant, PlanOfHead, CheckCovers
<1>4. CASE ClassifyJob
  <2>1. pr' = pr /\ check' = check
    BY <1>4 DEF ClassifyJob
  <2>2. PlanOfHead'
    <3>1. CASE ci' = [pc |-> "jobs", classify |-> "failure", depth |-> "", plan |-> NoPlan]
      BY <3>1 DEF PlanOfHead
    <3>2. ASSUME NEW paths \in Discovered, NEW rules \in LoadRules,
                 ci' = [pc |-> "jobs", classify |-> "success", depth |-> Classify(paths),
                        plan |-> BuildPlan(Classify(paths), paths, rules)]
          PROVE  PlanOfHead'
      <4>1. paths \in {pr'.paths, {}}
        BY <2>1 DEF Discovered
      <4>2. ci'.depth = Classify(paths) /\ ci'.plan = BuildPlan(ci'.depth, paths, rules)
        BY <3>2
      <4>. QED BY <4>1, <4>2 DEF PlanOfHead, LoadRules
    <3>. QED BY <1>4, <3>1, <3>2 DEF ClassifyJob
  <2>. QED BY <2>1, <2>2 DEF GateInvariant, CheckCovers
<1>5. CASE GateJob
  <2>1. pr' = pr /\ ci' = NoRun
    BY <1>5 DEF GateJob
  <2>. QED BY <1>5, <2>1, GatePasses DEF GateInvariant, PlanOfHead, NoRun
<1>6. CASE Merge
  BY <1>6 DEF Merge, GateInvariant, PlanOfHead, CheckCovers, NoRun, NoCheck
<1>. QED BY <1>1, <1>2, <1>3, <1>4, <1>5, <1>6 DEF Next, GateNext, vars

\* Whatever GitHub merges while the gate is enforced was validated as deeply as
\* its paths need, for any changes, scenarios, platforms and invocations.
THEOREM MergesAreValidated == Spec => MergedIsValidated
<1>1. Init => GateInvariant
  BY GateStarts DEF Init
<1>2. GateInvariant /\ [Next]_vars => GateInvariant'
  BY GateKeeps
<1>3. GateInvariant /\ [Next]_vars => [(Merge /\ Enforced) => Covers(check, pr.paths)]_vars
  BY DEF Merge, GateInvariant, CheckCovers
<1>. QED BY <1>1, <1>2, <1>3, PTL DEF Spec, MergedIsValidated

-----------------------------------------------------------------------------
(* What the tool reports of the protection is true.                        *)

\* A collection goes through its requests in order, and as long as nobody else
\* has changed the repository what it has read is still so.
CollectionHolds(c) ==
    /\ c.pc \in {"repository", "list"} => c.seen.details = <<>>
    /\ c.pc \in {"details", "effective"} => DOMAIN c.seen.details \subseteq c.seen.ids
    /\ c.pc = "details" => DOMAIN c.seen.details # c.seen.ids
    /\ c.pc = "effective" => DOMAIN c.seen.details = c.seen.ids
    /\ c.calm /\ c.pc \in {"list", "details", "effective"} =>
         c.seen.public = public /\ c.seen.squash = squash
    /\ c.calm /\ c.pc \in {"details", "effective"} =>
         c.seen.ids = Managed /\ \A i \in DOMAIN c.seen.details : c.seen.details[i] = rulesets[i]
    /\ c.pc = "write" => c.todo # <<>>
    /\ c.result # "none" => c.pc = "done"

\* An invocation that created a ruleset and has not listed fewer than two since.
Reporter(c) ==
    /\ c.posted
    /\ \/ c.pc \in {"repository", "list"}
       \/ c.pc \in {"details", "effective"} /\ Cardinality(c.seen.ids) > 1
       \/ c.pc = "done" /\ c.result = "error"

DuplicatesHaveReporter == Cardinality(Managed) > 1 => \E o \in Commands : Reporter(op[o])

ProtectionInvariant ==
    /\ ProtectionTypeOK
    /\ \A o \in Commands : CollectionHolds(op[o])
    /\ SuccessIsExact
    /\ DuplicatesHaveReporter

\* The rulesets GitHub has are finitely many, and never more through an edit.
LEMMA FewerManaged ==
    ASSUME ProtectionBounds, Managed' \subseteq Managed
    PROVE  Cardinality(Managed') > 1 => Cardinality(Managed) > 1
<1>1. IsFiniteSet(Managed)
  BY FS_Subset DEF Managed, ProtectionBounds
<1>2. IsFiniteSet(Managed') /\ Cardinality(Managed') <= Cardinality(Managed)
  BY <1>1, FS_Subset
<1>. QED BY <1>1, <1>2, FS_CardinalityType

LEMMA SeenTyping ==
    ASSUME NEW public1 \in BOOLEAN, NEW squash1 \in BOOLEAN, NEW ids \in SUBSET RulesetIds,
           NEW s \in SUBSET RulesetIds, NEW details \in [s -> Rulesets]
    PROVE  [public |-> public1, squash |-> squash1, ids |-> ids, details |-> details] \in
             [public : BOOLEAN, squash : BOOLEAN, ids : SUBSET RulesetIds,
              details : UNION {[t -> Rulesets] : t \in SUBSET RulesetIds}]
  OBVIOUS

LEMMA NothingRead == <<>> \in [{} -> Rulesets] /\ DOMAIN <<>> = {}
  OBVIOUS

LEMMA IdleTyping == Idle \in Progress /\ Unread \in [public : BOOLEAN, squash : BOOLEAN, ids : SUBSET RulesetIds,
              details : UNION {[t -> Rulesets] : t \in SUBSET RulesetIds}]
<1>1. Unread \in [public : BOOLEAN, squash : BOOLEAN, ids : SUBSET RulesetIds,
                  details : UNION {[t -> Rulesets] : t \in SUBSET RulesetIds}]
  BY NothingRead DEF Unread
<1>. QED BY <1>1 DEF Idle, Progress

\* A step of one invocation that changes nothing at GitHub.
LEMMA LocalStepKeeps ==
    ASSUME ProtectionInvariant, NEW o \in Commands, NEW next \in Progress, Become(o, next),
           UNCHANGED github, attested' \in BOOLEAN, troubles' \in 0 .. MaxTroubles,
           CollectionHolds(next), next.result = "ok" /\ next.calm => Exact,
           Cardinality(Managed) > 1 /\ Reporter(op[o]) => Reporter(next)
    PROVE  ProtectionInvariant'
<1>1. Managed' = Managed /\ Exact' = Exact
  BY DEF github, Managed, Exact
<1>2. op'[o] = next /\ \A p \in Commands \ {o} : op'[p] = op[p]
  BY DEF Become, ProtectionInvariant, ProtectionTypeOK
<1>3. ProtectionTypeOK'
  BY <1>2 DEF Become, ProtectionInvariant, ProtectionTypeOK, github
<1>4. ASSUME NEW p \in Commands PROVE CollectionHolds(op[p])'
  BY <1>1, <1>2 DEF ProtectionInvariant, CollectionHolds, github
<1>5. SuccessIsExact'
  BY <1>1, <1>2 DEF ProtectionInvariant, SuccessIsExact
<1>6. DuplicatesHaveReporter'
  BY <1>1, <1>2 DEF ProtectionInvariant, DuplicatesHaveReporter, Reporter
<1>. QED BY <1>3, <1>4, <1>5, <1>6 DEF ProtectionInvariant

\* The end of an invocation is typed, and claims nothing unless it reports success.
LEMMA Ending ==
    ASSUME ProtectionInvariant, NEW o \in Commands, NEW result \in {"ok", "error"}
    PROVE  LET next == Ends(o, result) IN
           /\ next \in Progress /\ CollectionHolds(next)
           /\ next.pc = "done" /\ next.result = result
           /\ next.calm = op[o].calm /\ next.posted = op[o].posted
<1>1. op[o] \in Progress
  BY DEF ProtectionInvariant, ProtectionTypeOK
<1>2. Ends(o, result) \in Progress
  BY <1>1, IdleTyping DEF Ends, Progress
<1>3. LET next == Ends(o, result) IN
      next.pc = "done" /\ next.result = result /\ next.calm = op[o].calm /\ next.posted = op[o].posted
  BY <1>1, IdleTyping DEF Ends, Progress
<1>. QED BY <1>2, <1>3 DEF CollectionHolds

LEMMA ErrorKeeps ==
    ASSUME ProtectionInvariant, NEW o \in Commands, Become(o, Ends(o, "error")),
           UNCHANGED github, attested' \in BOOLEAN, troubles' \in 0 .. MaxTroubles
    PROVE  ProtectionInvariant'
<1>1. Cardinality(Managed) > 1 /\ Reporter(op[o]) => Reporter(Ends(o, "error"))
  BY Ending DEF Reporter
<1>. QED BY <1>1, Ending, LocalStepKeeps

\* The fields of an invocation and of what it has seen, and how reading sets them.
LEMMA ProgressFields ==
    ASSUME NEW c \in Progress
    PROVE  /\ DOMAIN c = {"pc", "last", "failed", "todo", "seen", "calm", "posted", "result"}
           /\ DOMAIN c.seen = {"public", "squash", "ids", "details"}
<1>1. c.seen \in [public : BOOLEAN, squash : BOOLEAN, ids : SUBSET RulesetIds,
                  details : UNION {[s -> Rulesets] : s \in SUBSET RulesetIds}]
  BY DEF Progress
<1>2. DOMAIN c.seen = {"public", "squash", "ids", "details"}
  BY <1>1
<1>. QED BY <1>2 DEF Progress

LEMMA ReadingFields ==
    ASSUME NEW c, NEW pc, NEW a, NEW b, NEW ids,
           DOMAIN c = {"pc", "last", "failed", "todo", "seen", "calm", "posted", "result"},
           DOMAIN c.seen = {"public", "squash", "ids", "details"}
    PROVE  /\ LET next == [c EXCEPT !.pc = pc, !.seen.public = a, !.seen.squash = b] IN
              /\ next.pc = pc /\ next.result = c.result /\ next.posted = c.posted /\ next.calm = c.calm
              /\ next.seen.public = a /\ next.seen.squash = b
              /\ next.seen.ids = c.seen.ids /\ next.seen.details = c.seen.details
           /\ LET next == [c EXCEPT !.seen.ids = ids, !.pc = pc] IN
              /\ next.pc = pc /\ next.result = c.result /\ next.posted = c.posted /\ next.calm = c.calm
              /\ next.seen.public = c.seen.public /\ next.seen.squash = c.seen.squash
              /\ next.seen.ids = ids /\ next.seen.details = c.seen.details
  OBVIOUS

\* What an invocation at a request has and has not read.
LEMMA BeforeDetails ==
    ASSUME NEW c, CollectionHolds(c), c.pc \in {"repository", "list"}
    PROVE  c.result = "none" /\ c.seen.details = <<>>
<1>1. c.result = "none"
  BY DEF CollectionHolds
<1>2. c.seen.details = <<>>
  BY DEF CollectionHolds
<1>. QED BY <1>1, <1>2

LEMMA NotDone ==
    ASSUME NEW c, CollectionHolds(c), c.pc # "done"
    PROVE  c.result = "none"
  BY DEF CollectionHolds

\* The first three requests of a collection, which come before any ruleset's.
LEMMA FirstReadsKeep ==
    ASSUME ProtectionInvariant, NEW o \in Commands,
           StartCommand(o) \/ ReadRepository(o) \/ NoIntegration(o) \/ ReadList(o)
    PROVE  ProtectionInvariant'
<1>. PICK c \in Progress : c = op[o]
  BY DEF ProtectionInvariant, ProtectionTypeOK
<1>1. attested \in BOOLEAN /\ troubles \in 0 .. MaxTroubles /\ public \in BOOLEAN /\ squash \in BOOLEAN
  BY DEF ProtectionInvariant, ProtectionTypeOK
<1>2. CollectionHolds(c)
  BY DEF ProtectionInvariant
<1>3. CASE StartCommand(o)
  <2>1. PICK last \in BOOLEAN :
          Become(o, [Idle EXCEPT !.pc = "repository", !.last = last, !.calm = TRUE])
    BY <1>3 DEF StartCommand
  <2>2. PICK next \in Progress : next = [Idle EXCEPT !.pc = "repository", !.last = last, !.calm = TRUE]
    <3>1. [Idle EXCEPT !.pc = "repository", !.last = last, !.calm = TRUE] \in Progress
      BY IdleTyping DEF Progress
    <3> QED
      BY <3>1
  <2>3. next.pc = "repository" /\ next.result = "none" /\ next.seen.details = <<>>
    BY <2>2, IdleTyping DEF Idle, Unread
  <2>4. CollectionHolds(next)
    BY <2>3 DEF CollectionHolds
  <2>5. ~Reporter(c)
    BY <1>3 DEF StartCommand, At, Reporter
  <2>6. UNCHANGED <<github, attested, troubles>>
    BY <1>3 DEF StartCommand
  <2>. QED BY <1>1, <2>1, <2>2, <2>3, <2>4, <2>5, <2>6, LocalStepKeeps
<1>4. CASE ReadRepository(o)
  <2>1. PICK next \in Progress : next = [c EXCEPT !.pc = "list", !.seen.public = public, !.seen.squash = squash]
    BY <1>1 DEF Progress
  <2>2. /\ next.pc = "list" /\ next.result = c.result /\ next.posted = c.posted
        /\ next.seen.public = public /\ next.seen.squash = squash /\ next.seen.details = c.seen.details
    <3>1. /\ DOMAIN c = {"pc", "last", "failed", "todo", "seen", "calm", "posted", "result"}
          /\ DOMAIN c.seen = {"public", "squash", "ids", "details"}
      BY ProgressFields
    <3>. QED BY <2>1, <3>1
  <2>3. c.pc = "repository"
    BY <1>4 DEF ReadRepository, At
  <2>4. c.result = "none" /\ c.seen.details = <<>>
    BY <1>2, <2>3, BeforeDetails
  <2>7. CollectionHolds(next)
    BY <2>2, <2>4 DEF CollectionHolds
  <2>5. Reporter(c) => Reporter(next)
    BY <2>2 DEF Reporter
  <2>6. Become(o, next) /\ UNCHANGED <<github, attested, troubles>>
    BY <1>4, <2>1 DEF ReadRepository
  <2>. QED BY <1>1, <2>2, <2>4, <2>7, <2>5, <2>6, LocalStepKeeps
<1>5. CASE NoIntegration(o)
  BY <1>1, <1>5, ErrorKeeps DEF NoIntegration
<1>6. CASE ReadList(o)
  <2>. DEFINE pc == IF Managed = {} THEN "effective" ELSE "details"
  <2>1. Managed \in SUBSET RulesetIds
    BY DEF Managed
  <2>2. PICK next \in Progress : next = [c EXCEPT !.seen.ids = Managed, !.pc = pc]
    BY <2>1 DEF Progress
  <2>3. /\ next.pc = pc
        /\ next.result = c.result /\ next.posted = c.posted /\ next.calm = c.calm
        /\ next.seen.ids = Managed
        /\ next.seen.public = c.seen.public /\ next.seen.squash = c.seen.squash
        /\ next.seen.details = c.seen.details
    <3>1. /\ DOMAIN c = {"pc", "last", "failed", "todo", "seen", "calm", "posted", "result"}
          /\ DOMAIN c.seen = {"public", "squash", "ids", "details"}
      BY ProgressFields
    <3>. QED BY <2>2, <3>1
  <2>4. c.pc = "list"
    BY <1>6 DEF ReadList, At
  <2>9. c.calm => c.seen.public = public /\ c.seen.squash = squash
    BY <1>2, <2>4 DEF CollectionHolds
  <2>5. /\ c.result = "none" /\ c.seen.details = <<>>
        /\ c.calm => c.seen.public = public /\ c.seen.squash = squash
    BY <1>2, <2>4, <2>9, BeforeDetails
  <2>8. CollectionHolds(next)
    <3>1. CASE Managed = {}
      BY <2>3, <2>5, <3>1, NothingRead DEF CollectionHolds
    <3>2. CASE Managed # {}
      BY <2>3, <2>5, <3>2, NothingRead DEF CollectionHolds
    <3>. QED BY <3>1, <3>2
  <2>6. Cardinality(Managed) > 1 /\ Reporter(c) => Reporter(next)
    BY <2>3 DEF Reporter
  <2>7. Become(o, next) /\ UNCHANGED <<github, attested, troubles>>
    BY <1>6, <2>2 DEF ReadList
  <2>. QED BY <1>1, <2>3, <2>5, <2>6, <2>7, <2>8, LocalStepKeeps
<1>. QED BY <1>3, <1>4, <1>5, <1>6

LEMMA DetailKeeps ==
    ASSUME ProtectionInvariant, NEW o \in Commands, ReadDetail(o)
    PROVE  ProtectionInvariant'
<1>. DEFINE c == op[o]
            seen == c.seen
            i == CHOOSE j \in seen.ids \ DOMAIN seen.details : TRUE
            details == [j \in DOMAIN seen.details \cup {i} |-> IF j = i THEN rulesets[i] ELSE seen.details[j]]
            next == [c EXCEPT !.seen.details = details,
                              !.pc = IF DOMAIN details = seen.ids THEN "effective" ELSE "details"]
<1>1. /\ c \in Progress /\ CollectionHolds(c) /\ attested \in BOOLEAN /\ troubles \in 0 .. MaxTroubles
      /\ c.pc = "details" /\ c.result = "none"
  BY DEF ProtectionInvariant, ProtectionTypeOK, ReadDetail, At, CollectionHolds, Progress
<1>2. /\ Become(o, IF i \notin Managed THEN Ends(o, "error") ELSE next)
      /\ UNCHANGED <<github, attested, troubles>>
  BY DEF ReadDetail
<1>3. i \in seen.ids \ DOMAIN seen.details
  BY <1>1 DEF CollectionHolds
<1>4. CASE i \notin Managed
  BY <1>1, <1>2, <1>4, ErrorKeeps
<1>5. CASE i \in Managed
  <2>1. rulesets[i] \in Rulesets /\ i \in RulesetIds
    BY <1>5 DEF Managed, ProtectionInvariant, ProtectionTypeOK
  <2>2. PICK s \in SUBSET RulesetIds : seen.details \in [s -> Rulesets]
    BY <1>1 DEF Progress
  <2>3. details \in [s \cup {i} -> Rulesets] /\ DOMAIN details = DOMAIN seen.details \cup {i}
    BY <2>1, <2>2
  <2>4. s \cup {i} \in SUBSET RulesetIds
    BY <2>1
  <2>5. details \in UNION {[t -> Rulesets] : t \in SUBSET RulesetIds}
    BY <2>3, <2>4
  <2>. HIDE DEF details
  <2>6. /\ next \in Progress /\ next.result = c.result /\ next.posted = c.posted /\ next.calm = c.calm
        /\ next.pc = IF DOMAIN details = seen.ids THEN "effective" ELSE "details"
        /\ next.seen.ids = seen.ids /\ next.seen.details = details
        /\ next.seen.public = seen.public /\ next.seen.squash = seen.squash
    BY <1>1, <2>5 DEF Progress
  <2>7. c.calm => seen.ids = Managed /\ \A j \in DOMAIN seen.details : seen.details[j] = rulesets[j]
    BY <1>1 DEF CollectionHolds
  <2>8. c.calm => \A j \in DOMAIN details : details[j] = rulesets[j]
    BY <2>3, <2>7 DEF details
  <2>9. DOMAIN details \subseteq seen.ids
    BY <1>1, <1>3, <2>3 DEF CollectionHolds
  <2>10. CollectionHolds(next)
    BY <1>1, <2>6, <2>7, <2>8, <2>9 DEF CollectionHolds
  <2>11. Reporter(c) => Reporter(next)
    BY <1>1, <2>6 DEF Reporter
  <2>. QED BY <1>1, <1>2, <1>5, <2>6, <2>10, <2>11, LocalStepKeeps
<1>. QED BY <1>4, <1>5

\* A collection that found nothing wrong and that nobody disturbed saw main
\* protected exactly.
LEMMA CleanIsExact ==
    ASSUME ProtectionBounds, NEW seen, seen.ids = Managed, seen.public = public, seen.squash = squash,
           \A i \in Managed : seen.details[i] = rulesets[i],
           seen.public, ~RepositoryDrift(seen), ~RulesetDrift(seen, Effective)
    PROVE  Exact
<1>1. public /\ squash
  BY DEF RepositoryDrift
<1>2. IsFiniteSet(Managed) /\ Cardinality(Managed) = 1
  <2>1. IsFiniteSet(Managed)
    BY FS_Subset DEF Managed, ProtectionBounds
  <2>. QED BY <2>1 DEF RulesetDrift
<1>3. PICK i : Managed = {i}
  BY <1>2, FS_Singleton
<1>4. rulesets[i] = ExactRuleset /\ ~Effective.foreign
  BY <1>3 DEF RulesetDrift
<1>5. ~foreign /\ i \in RulesetIds
  BY <1>3, <1>4 DEF Effective, Managed
<1>. QED BY <1>1, <1>3, <1>4, <1>5 DEF Exact

\* Nothing to plan and nothing in the way: exactly one ruleset, without drift.
LEMMA NothingToDo ==
    ASSUME NEW seen, NEW effective, IsFiniteSet(seen.ids), ~Blocked(seen, effective), PlanActions(seen, effective) = <<>>
    PROVE  seen.public /\ ~RepositoryDrift(seen) /\ ~RulesetDrift(seen, effective) /\ Cardinality(seen.ids) = 1
<1>1. Cardinality(seen.ids) \in Nat /\ (Cardinality(seen.ids) = 0 <=> seen.ids = {})
  BY FS_CardinalityType, FS_EmptySet
<1>2. seen.public /\ ~(Cardinality(seen.ids) > 1)
  BY DEF Blocked
<1>3. seen.squash
  BY DEF PlanActions
<1>4. seen.ids # {}
  BY <1>3 DEF PlanActions
<1>5. Cardinality(seen.ids) = 1
  BY <1>1, <1>2, <1>4
<1>6. \A i \in seen.ids : seen.details[i].target = "branch"
  BY <1>5 DEF Blocked
<1>7. ~RulesetDrift(seen, effective)
  BY <1>3, <1>4, <1>5, <1>6 DEF PlanActions
<1>. QED BY <1>2, <1>3, <1>5, <1>7 DEF RepositoryDrift

LEMMA TwoActions == ASSUME NEW a, NEW b PROVE <<a>> \o <<b>> = <<a, b>>
<1>. DEFINE S == {a, b}
            s == <<a>> \o <<b>>
<1>1. <<a>> \in Seq(S) /\ <<b>> \in Seq(S) /\ <<a, b>> \in Seq(S)
  OBVIOUS
<1>2. s \in Seq(S) /\ Len(s) = 2 /\ s[1] = a /\ s[2] = b
  BY <1>1
<1>. HIDE DEF s
<1>3. Len(s) = Len(<<a, b>>) /\ \A i \in 1 .. Len(s) : s[i] = <<a, b>>[i]
  BY <1>2
<1>4. s = <<a, b>>
  BY <1>1, <1>2, <1>3, SeqEqual
<1>. QED BY <1>4 DEF s

LEMMA ActionsTyping ==
    ASSUME NEW seen, NEW effective
    PROVE  PlanActions(seen, effective) \in {<<>>, <<"PATCH">>, <<"POST">>, <<"PUT">>, <<"PATCH", "POST">>, <<"PATCH", "PUT">>}
<1>. DEFINE first == IF seen.squash THEN <<>> ELSE <<"PATCH">>
            second == IF seen.ids = {} THEN <<"POST">>
                      ELSE IF /\ Cardinality(seen.ids) = 1 /\ RulesetDrift(seen, effective)
                              /\ \A i \in seen.ids : seen.details[i].target = "branch"
                      THEN <<"PUT">> ELSE <<>>
<1>1. first \in {<<>>, <<"PATCH">>} /\ second \in {<<>>, <<"POST">>, <<"PUT">>}
  OBVIOUS
<1>2. PlanActions(seen, effective) = first \o second
  BY DEF PlanActions
<1>. HIDE DEF first, second
<1>3. CASE first = <<>>
  <2>1. CASE second = <<>>
    BY <1>2, <1>3, <2>1
  <2>2. CASE second = <<"POST">>
    BY <1>2, <1>3, <2>2
  <2>3. CASE second = <<"PUT">>
    BY <1>2, <1>3, <2>3
  <2>. QED BY <1>1, <2>1, <2>2, <2>3
<1>4. CASE first = <<"PATCH">>
  <2>. <<"PATCH">> \o <<"POST">> = <<"PATCH", "POST">> /\ <<"PATCH">> \o <<"PUT">> = <<"PATCH", "PUT">>
    BY TwoActions
  <2>1. CASE second = <<>>
    <3>1. <<"PATCH">> \in Seq({"PATCH"})
      OBVIOUS
    <3>2. <<"PATCH">> \o <<>> = <<"PATCH">>
      BY <3>1, ConcatEmptySeq
    <3>. QED BY <1>2, <1>4, <2>1, <3>2, Zenon
  <2>2. PlanActions(seen, effective) = <<"PATCH">> \o second
    BY <1>2, <1>4
  <2>3. CASE second \in {<<"POST">>, <<"PUT">>}
    BY <2>2, <2>3, Zenon
  <2>. QED BY <1>1, <2>1, <2>3
<1>. QED BY <1>1, <1>3, <1>4

\* The end of a collection reports, or plans the writes.
LEMMA EffectiveKeeps ==
    ASSUME ProtectionInvariant, NEW o \in Commands, ReadEffective(o)
    PROVE  ProtectionInvariant'
<1>. PICK c \in Progress : c = op[o]
  BY DEF ProtectionInvariant, ProtectionTypeOK
<1>. PICK seen : seen = c.seen
  OBVIOUS
<1>. DEFINE actions == PlanActions(seen, Effective)
<1>1. attested \in BOOLEAN /\ troubles \in 0 .. MaxTroubles /\ UNCHANGED <<github, attested, troubles>>
  BY DEF ProtectionInvariant, ProtectionTypeOK, ReadEffective
<1>2. CollectionHolds(c) /\ c.pc = "effective"
  BY DEF ProtectionInvariant, ReadEffective, At
<1>3. c.result = "none"
  BY <1>2, NotDone
<1>4. \/ Become(o, Ends(o, "error"))
      \/ /\ Become(o, Ends(o, "ok"))
         /\ seen.public /\ ~RepositoryDrift(seen) /\ ~RulesetDrift(seen, Effective)
      \/ /\ Become(o, [c EXCEPT !.pc = "write", !.todo = actions])
         /\ ~Blocked(seen, Effective) /\ actions # <<>>
  <2>1. Become(o, IF c.last
                  THEN Ends(o, IF Blocked(seen, Effective) \/ RepositoryDrift(seen)
                                  \/ RulesetDrift(seen, Effective) \/ c.failed THEN "error" ELSE "ok")
                  ELSE IF Blocked(seen, Effective) THEN Ends(o, "error")
                  ELSE IF actions = <<>> THEN Ends(o, "ok")
                  ELSE [c EXCEPT !.pc = "write", !.todo = actions])
    BY DEF ReadEffective
  <2>2. IsFiniteSet(seen.ids)
    <3>1. seen.ids \in SUBSET RulesetIds
      BY DEF Progress
    <3>. QED BY <3>1, ProtectionBounds, FS_Subset
  <2>. HIDE DEF actions
  <2>3. CASE c.last
    BY <2>1, <2>3 DEF Blocked
  <2>4. CASE ~c.last
    <3>1. CASE Blocked(seen, Effective)
      BY <2>1, <2>4, <3>1
    <3>2. CASE ~Blocked(seen, Effective) /\ actions = <<>>
      <4>1. seen.public /\ ~RepositoryDrift(seen) /\ ~RulesetDrift(seen, Effective)
        BY <2>2, <3>2, NothingToDo DEF actions
      <4>. QED BY <2>1, <2>4, <3>2, <4>1
    <3>3. CASE ~Blocked(seen, Effective) /\ actions # <<>>
      BY <2>1, <2>4, <3>3
    <3>. QED BY <3>1, <3>2, <3>3
  <2>. QED BY <2>3, <2>4
<1>5. CASE Become(o, Ends(o, "error"))
  BY <1>1, <1>5, ErrorKeeps
<1>6. CASE /\ Become(o, Ends(o, "ok"))
           /\ seen.public /\ ~RepositoryDrift(seen) /\ ~RulesetDrift(seen, Effective)
  <2>1. Reporter(c) => FALSE
    <3>1. Cardinality(seen.ids) = 1
      BY <1>6 DEF RulesetDrift
    <3>. QED BY <1>2, <3>1 DEF Reporter
  <2>2. c.calm => Exact
    <3>1. c.calm => /\ seen.public = public /\ seen.squash = squash
                    /\ seen.ids = Managed /\ \A i \in Managed : seen.details[i] = rulesets[i]
      BY <1>2 DEF CollectionHolds
    <3>2. ProtectionBounds
      BY ProtectionBounds
    <3>. QED BY <1>6, <3>1, <3>2, CleanIsExact
  <2>3. Ends(o, "ok") \in Progress /\ CollectionHolds(Ends(o, "ok")) /\ Ends(o, "ok").calm = c.calm
    BY Ending
  <2>. QED BY <1>1, <1>6, <2>1, <2>2, <2>3, LocalStepKeeps
<1>7. CASE /\ Become(o, [c EXCEPT !.pc = "write", !.todo = actions])
           /\ ~Blocked(seen, Effective) /\ actions # <<>>
  <2>1. actions \in {<<>>, <<"PATCH">>, <<"POST">>, <<"PUT">>, <<"PATCH", "POST">>, <<"PATCH", "PUT">>}
    BY ActionsTyping
  <2>. HIDE DEF actions
  <2>2. PICK next \in Progress : next = [c EXCEPT !.pc = "write", !.todo = actions]
    BY <2>1 DEF Progress
  <2>3. next.pc = "write" /\ next.todo = actions /\ next.result = c.result
    <3>1. DOMAIN c = {"pc", "last", "failed", "todo", "seen", "calm", "posted", "result"}
      BY ProgressFields
    <3>. QED BY <2>2, <3>1
  <2>4. CollectionHolds(next)
    BY <1>3, <1>7, <2>3 DEF CollectionHolds
  <2>5. ~Reporter(c)
    BY <1>2, <1>7 DEF Reporter, Blocked
  <2>. QED BY <1>1, <1>3, <1>7, <2>2, <2>3, <2>4, <2>5, LocalStepKeeps
<1>. QED BY <1>4, <1>5, <1>6, <1>7

\* What is left of a plan, and where an invocation goes after an action.
LEMMA AfterAction ==
    ASSUME NEW o \in Commands, NEW failed \in BOOLEAN, op[o] \in Progress, CollectionHolds(op[o]), op[o].pc = "write"
    PROVE  LET next == Acted(o, failed) IN
           /\ next \in Progress /\ CollectionHolds(next) /\ next.result = "none" /\ next.posted = op[o].posted
           /\ next.pc \in {"write", "repository"}
           /\ next.pc = "write" => Head(op[o].todo) = "PATCH"
<1>. PICK c \in Progress : c = op[o]
  OBVIOUS
<1>. DEFINE rest == IF failed THEN <<>> ELSE Tail(c.todo)
            Again == [c EXCEPT !.pc = "repository", !.last = TRUE, !.failed = failed, !.calm = TRUE,
                               !.todo = <<>>, !.seen = Unread]
<1>1. CollectionHolds(c) /\ c.pc = "write" /\ c.result = "none"
  BY NotDone
<1>2. Acted(o, failed) = IF rest # <<>> THEN [c EXCEPT !.todo = rest] ELSE Again
  BY DEF Acted
<1>3. DOMAIN c = {"pc", "last", "failed", "todo", "seen", "calm", "posted", "result"}
  BY ProgressFields
<1>4. /\ rest \in {<<>>, <<"POST">>, <<"PUT">>}
      /\ rest # <<>> => Head(c.todo) = "PATCH"
  <2>1. c.todo \in {<<"PATCH">>, <<"POST">>, <<"PUT">>, <<"PATCH", "POST">>, <<"PATCH", "PUT">>}
    BY <1>1 DEF CollectionHolds, Progress
  <2>2. \A a, b : Tail(<<a>>) = <<>> /\ Tail(<<a, b>>) = <<b>> /\ Head(<<a, b>>) = a
    OBVIOUS
  <2>. QED BY <2>1, <2>2
<1>. HIDE DEF rest
<1>5. CASE rest # <<>>
  <2>1. PICK next \in Progress : next = [c EXCEPT !.todo = rest]
    BY <1>4 DEF Progress
  <2>2. next.pc = "write" /\ next.todo = rest /\ next.result = "none" /\ next.posted = c.posted
    BY <1>1, <1>3, <2>1
  <2>3. CollectionHolds(next)
    BY <1>5, <2>2 DEF CollectionHolds
  <2>. QED BY <1>2, <1>4, <1>5, <2>1, <2>2, <2>3
<1>6. CASE rest = <<>>
  <2>1. PICK next \in Progress : next = Again
    BY IdleTyping DEF Progress
  <2>2. next.pc = "repository" /\ next.result = "none" /\ next.posted = c.posted /\ next.seen = Unread
    BY <1>1, <1>3, <2>1
  <2>3. CollectionHolds(next)
    BY <2>2 DEF CollectionHolds, Unread
  <2>. QED BY <1>2, <1>6, <2>1, <2>2, <2>3
<1>. QED BY <1>5, <1>6

\* What another invocation or an administrator does leaves a collection with
\* what it has read and takes its calm.
LEMMA OthersKeep ==
    ASSUME ProtectionInvariant, NEW p \in Commands, op'[p] = [op[p] EXCEPT !.calm = FALSE]
    PROVE  /\ op'[p] \in Progress /\ CollectionHolds(op[p])' /\ ~op'[p].calm
           /\ Reporter(op[p]) => Reporter(op[p])'
<1>. PICK c \in Progress : c = op[p]
  BY DEF ProtectionInvariant, ProtectionTypeOK
<1>. PICK next \in Progress : next = op'[p]
  BY DEF Progress
<1>1. DOMAIN c = {"pc", "last", "failed", "todo", "seen", "calm", "posted", "result"}
  BY ProgressFields
<1>2. /\ next.pc = c.pc /\ next.todo = c.todo /\ next.seen = c.seen
      /\ next.posted = c.posted /\ next.result = c.result /\ next.calm = FALSE
  BY <1>1
<1>3. CollectionHolds(c)
  BY DEF ProtectionInvariant
<1>4. CollectionHolds(op[p])'
  BY <1>2, <1>3 DEF CollectionHolds
<1>5. Reporter(c) => Reporter(op[p])'
  BY <1>2 DEF Reporter
<1>. QED BY <1>2, <1>4, <1>5

LEMMA FailuresKeep ==
    ASSUME ProtectionInvariant, NEW o \in Commands,
           ReadFails(o) \/ (At(o, "write") /\ Become(o, Acted(o, TRUE)) /\ UNCHANGED <<github, attested>>
                            /\ (Trouble \/ UNCHANGED troubles))
    PROVE  ProtectionInvariant'
<1>1. attested' \in BOOLEAN /\ troubles' \in 0 .. MaxTroubles /\ UNCHANGED github
  <2>1. attested \in BOOLEAN /\ troubles \in 0 .. MaxTroubles
    BY DEF ProtectionInvariant, ProtectionTypeOK
  <2>2. UNCHANGED <<github, attested>> /\ (Trouble \/ UNCHANGED troubles)
    BY DEF ReadFails
  <2>3. troubles' \in 0 .. MaxTroubles
    BY <2>1, <2>2, ProtectionBounds DEF Trouble
  <2>. QED BY <2>1, <2>2, <2>3
<1>2. CASE ReadFails(o)
  BY <1>1, <1>2, ErrorKeeps DEF ReadFails
<1>3. CASE At(o, "write") /\ Become(o, Acted(o, TRUE))
  <2>1. op[o] \in Progress /\ CollectionHolds(op[o]) /\ op[o].pc = "write"
    BY <1>3 DEF At, ProtectionInvariant, ProtectionTypeOK
  <2>2. /\ Acted(o, TRUE) \in Progress /\ CollectionHolds(Acted(o, TRUE)) /\ Acted(o, TRUE).result = "none"
    BY <2>1, AfterAction
  <2>3. ~Reporter(op[o])
    BY <2>1 DEF Reporter
  <2>. QED BY <1>1, <1>3, <2>2, <2>3, LocalStepKeeps
<1>. QED BY <1>2, <1>3

\* Administrators' changes leave no new ruleset and no calm collection.
LEMMA AdministratorKeeps == ASSUME ProtectionInvariant, Administrator PROVE ProtectionInvariant'
<1>1. /\ public' \in BOOLEAN /\ squash' \in BOOLEAN /\ foreign' \in BOOLEAN /\ attested' \in BOOLEAN
      /\ troubles' \in 0 .. MaxTroubles
  <2>1. public' \in BOOLEAN /\ squash' \in BOOLEAN /\ foreign' \in BOOLEAN /\ attested' \in BOOLEAN
    BY DEF Administrator, ProtectionInvariant, ProtectionTypeOK
  <2>2. troubles' \in 0 .. MaxTroubles
    BY ProtectionBounds DEF Administrator, Trouble, ProtectionInvariant, ProtectionTypeOK
  <2>. QED BY <2>1, <2>2
<1>2. /\ rulesets' \in [RulesetIds -> Rulesets \cup {NoRuleset}]
      /\ Managed' \subseteq Managed
  <2>1. rulesets \in [RulesetIds -> Rulesets \cup {NoRuleset}]
    BY DEF ProtectionInvariant, ProtectionTypeOK
  <2>2. \/ rulesets' = rulesets
        \/ \E i \in Managed, r \in {NoRuleset} \cup Rulesets : rulesets' = [rulesets EXCEPT ![i] = r]
    BY DEF Administrator
  <2>. QED BY <2>1, <2>2 DEF Managed
<1>3. \A p \in Commands : op'[p] = [op[p] EXCEPT !.calm = FALSE]
  BY DEF Administrator
<1>4. \A p \in Commands : /\ op'[p] \in Progress /\ CollectionHolds(op[p])' /\ ~op'[p].calm
                          /\ Reporter(op[p]) => Reporter(op[p])'
  BY <1>3, OthersKeep
<1>5. ProtectionTypeOK'
  BY <1>1, <1>2, <1>4 DEF ProtectionTypeOK, Administrator
<1>6. SuccessIsExact'
  BY <1>4 DEF SuccessIsExact
<1>7. DuplicatesHaveReporter'
  <2>1. Cardinality(Managed') > 1 => Cardinality(Managed) > 1
    BY <1>2, ProtectionBounds, FewerManaged
  <2>. QED BY <1>4, <2>1 DEF DuplicatesHaveReporter, ProtectionInvariant
<1>. QED BY <1>4, <1>5, <1>6, <1>7 DEF ProtectionInvariant

\* A write that GitHub carries out.  The ruleset it may add is the invocation's
\* last action, after which it lists them again.
LEMMA EffectKeeps ==
    ASSUME ProtectionInvariant, NEW o \in Commands, NEW failed \in BOOLEAN, At(o, "write"), Effect(o, failed),
           attested' = attested, troubles' \in 0 .. MaxTroubles
    PROVE  ProtectionInvariant'
<1>. DEFINE action == Head(op[o].todo)
<1>. PICK after : after = Acted(o, failed)
  OBVIOUS
<1>1. op[o] \in Progress /\ CollectionHolds(op[o]) /\ op[o].pc = "write"
  BY DEF At, ProtectionInvariant, ProtectionTypeOK
<1>2. /\ after \in Progress /\ CollectionHolds(after) /\ after.result = "none" /\ after.posted = op[o].posted
      /\ after.pc \in {"write", "repository"} /\ (after.pc = "write" => action = "PATCH")
  BY <1>1, AfterAction
<1>3. /\ op'[o] = [after EXCEPT !.posted = @ \/ action = "POST"]
      /\ \A p \in Commands \ {o} : op'[p] = [op[p] EXCEPT !.calm = FALSE]
      /\ DOMAIN op' = Commands
  BY DEF Effect
<1>4. /\ public' \in BOOLEAN /\ squash' \in BOOLEAN /\ foreign' \in BOOLEAN /\ attested' \in BOOLEAN
  BY DEF Effect, ProtectionInvariant, ProtectionTypeOK
<1>5. /\ rulesets' \in [RulesetIds -> Rulesets \cup {NoRuleset}]
      /\ action # "POST" => Managed' \subseteq Managed
  BY DEF Effect, Managed, ProtectionInvariant, ProtectionTypeOK, Rulesets, ExactRuleset, NoRuleset
<1>. HIDE DEF action
<1>6. DOMAIN after = {"pc", "last", "failed", "todo", "seen", "calm", "posted", "result"} /\ after.posted \in BOOLEAN
  BY <1>2, ProgressFields DEF Progress
<1>. PICK next \in Progress : next = op'[o]
  BY <1>2, <1>3 DEF Progress
<1>7. /\ next.pc = after.pc /\ next.todo = after.todo /\ next.seen = after.seen /\ next.result = "none"
      /\ next.posted = (after.posted \/ action = "POST")
  BY <1>2, <1>3, <1>6
<1>8. CollectionHolds(op[o])'
  BY <1>2, <1>7 DEF CollectionHolds
<1>9. \A p \in Commands \ {o} : /\ op'[p] \in Progress /\ CollectionHolds(op[p])' /\ ~op'[p].calm
                                /\ Reporter(op[p]) => Reporter(op[p])'
  BY <1>3, OthersKeep
<1>10. ProtectionTypeOK'
  BY <1>3, <1>4, <1>5, <1>9 DEF ProtectionTypeOK
<1>11. SuccessIsExact'
  BY <1>7, <1>9 DEF SuccessIsExact
<1>12. DuplicatesHaveReporter'
  <2>1. CASE action = "POST"
    BY <1>2, <1>7, <2>1 DEF DuplicatesHaveReporter, Reporter
  <2>2. CASE action # "POST"
    <3>1. Cardinality(Managed') > 1 => Cardinality(Managed) > 1
      BY <1>5, <2>2, ProtectionBounds, FewerManaged
    <3>2. ~Reporter(op[o])
      BY <1>1 DEF Reporter
    <3>. QED BY <1>9, <3>1, <3>2 DEF DuplicatesHaveReporter, ProtectionInvariant
  <2>. QED BY <2>1, <2>2
<1>. QED BY <1>8, <1>9, <1>10, <1>11, <1>12 DEF ProtectionInvariant

LEMMA ProtectionStarts == ProtectionInit => ProtectionInvariant
<1>. SUFFICES ASSUME ProtectionInit PROVE ProtectionInvariant
  OBVIOUS
<1>1. op = [o \in Commands |-> Idle]
  BY DEF ProtectionInit
<1>2. \A o \in Commands : op[o] \in Progress
  BY <1>1, IdleTyping
<1>3. rulesets \in [RulesetIds -> Rulesets \cup {NoRuleset}]
  BY DEF ProtectionInit, Rulesets, WeakRuleset
<1>4. ProtectionTypeOK
  <2>1. troubles \in 0 .. MaxTroubles
    BY ProtectionBounds DEF ProtectionInit
  <2>. QED BY <1>1, <1>2, <1>3, <2>1 DEF ProtectionInit, ProtectionTypeOK
<1>5. CollectionHolds(Idle) /\ Idle.result = "none"
  BY DEF Idle, CollectionHolds
<1>6. ~(Cardinality(Managed) > 1)
  <2>1. IsFiniteSet(Managed)
    BY FS_Subset, ProtectionBounds DEF Managed
  <2>2. Cardinality(Managed) \in Nat
    BY <2>1, FS_CardinalityType
  <2>. QED BY <2>2 DEF ProtectionInit
<1>. QED BY <1>1, <1>4, <1>5, <1>6 DEF ProtectionInvariant, SuccessIsExact, DuplicatesHaveReporter

LEMMA ProtectionKeeps == ASSUME ProtectionInvariant, [Next]_vars PROVE ProtectionInvariant'
<1>1. CASE UNCHANGED protectionVars
  <2>1. Managed' = Managed /\ Exact' = Exact
    BY <1>1 DEF protectionVars, github, Managed, Exact
  <2>. QED BY <1>1, <2>1 DEF protectionVars, github, ProtectionInvariant, ProtectionTypeOK, CollectionHolds,
                             SuccessIsExact, DuplicatesHaveReporter, Reporter
<1>2. CASE GateJob
  <2>1. attested' \in BOOLEAN /\ UNCHANGED <<github, op, troubles>>
    BY <1>2 DEF GateJob, ProtectionInvariant, ProtectionTypeOK
  <2>2. Managed' = Managed /\ Exact' = Exact
    BY <2>1 DEF github, Managed, Exact
  <2>. QED BY <2>1, <2>2 DEF github, ProtectionInvariant, ProtectionTypeOK, CollectionHolds,
                             SuccessIsExact, DuplicatesHaveReporter, Reporter
<1>3. ASSUME NEW o \in Commands, Command(o) PROVE ProtectionInvariant'
  <2>1. CASE StartCommand(o) \/ ReadRepository(o) \/ NoIntegration(o) \/ ReadList(o)
    BY <2>1, FirstReadsKeep
  <2>2. CASE ReadDetail(o)
    BY <2>2, DetailKeeps
  <2>3. CASE ReadEffective(o)
    BY <2>3, EffectiveKeeps
  <2>4. CASE ReadFails(o)
    BY <2>4, FailuresKeep
  <2>5. CASE Write(o)
    <3>1. troubles' \in 0 .. MaxTroubles /\ attested' = attested
      BY <2>5 DEF Write, ProtectionInvariant, ProtectionTypeOK
    <3>. QED BY <2>5, <3>1, EffectKeeps DEF Write
  <2>6. CASE WriteFails(o)
    <3>1. CASE Trouble /\ Effect(o, TRUE)
      <4>1. troubles' \in 0 .. MaxTroubles
        BY <3>1, ProtectionBounds DEF Trouble, ProtectionInvariant, ProtectionTypeOK
      <4>. QED BY <2>6, <3>1, <4>1, EffectKeeps DEF WriteFails
    <3>2. CASE (Trouble \/ UNCHANGED troubles) /\ Become(o, Acted(o, TRUE)) /\ UNCHANGED github
      BY <2>6, <3>2, FailuresKeep DEF WriteFails
    <3>. QED BY <2>6, <3>1, <3>2 DEF WriteFails
  <2>. QED BY <1>3, <2>1, <2>2, <2>3, <2>4, <2>5, <2>6 DEF Command
<1>4. CASE Administrator
  BY <1>4, AdministratorKeeps
<1>5. CASE GateNext
  BY <1>1, <1>2, <1>5 DEF GateNext, Push, OtherMerge, ClassifyJob, Merge, vars
<1>. QED BY <1>1, <1>3, <1>4, <1>5 DEF Next, ProtectionNext, vars

\* What a check or an apply reports of the protection of main is true, whatever
\* its invocations, administrators and lost answers do, for any number of them.
THEOREM ProtectionReported == Spec => []ReportsProtection
<1>1. Init => ProtectionInvariant
  BY ProtectionStarts DEF Init
<1>2. ProtectionInvariant /\ [Next]_vars => ProtectionInvariant'
  BY ProtectionKeeps
<1>3. ProtectionInvariant => ReportsProtection
  <2>. SUFFICES ASSUME ProtectionInvariant PROVE DuplicatesAreReported /\ SuccessIsExact
    BY DEF ReportsProtection
  <2>1. ASSUME NEW o \in Commands, Reporter(op[o]) PROVE op[o].posted /\ op[o].result # "ok"
    <3>1. CollectionHolds(op[o])
      BY DEF ProtectionInvariant
    <3>. QED BY <2>1, <3>1 DEF Reporter, CollectionHolds
  <2>. QED BY <2>1 DEF DuplicatesAreReported, DuplicatesHaveReporter, ProtectionInvariant
<1>. QED BY <1>1, <1>2, <1>3, PTL DEF Spec

-----------------------------------------------------------------------------
(* Types.                                                                  *)

Runs == [pc : {"none", "classify", "jobs"}, classify : {"none", "success", "failure"},
         depth : {"", "fast", "ansible", "molecule", "full"},
         plan : [mode : {"none", "selective", "full"}, rows : SUBSET Rows]]
Checks == [state : {"none", "success", "failure"}, fast : BOOLEAN, ansible : BOOLEAN, rows : SUBSET Rows]
GateTypeOK ==
    /\ pr \in [paths : Changes \cup {{}}, behind : BOOLEAN]
    /\ ci \in Runs /\ check \in Checks /\ heads \in 0 .. MaxHeads

LEMMA PlanTyping ==
    ASSUME NEW depth, NEW paths, NEW rules
    PROVE  BuildPlan(depth, paths, rules) \in [mode : {"none", "selective", "full"}, rows : SUBSET Rows]
<1>1. \A selectors : RowsOf(selectors) \in SUBSET Rows
  BY DEF RowsOf
<1>. QED BY <1>1 DEF BuildPlan, NoPlan, FullPlan

LEMMA NewTyping == NoRun \in Runs /\ NewRun \in Runs /\ NoCheck \in Checks /\ [NoCheck EXCEPT !.state = "failure"] \in Checks
  BY DEF NoRun, NewRun, NoCheck, NoPlan, Runs, Checks

LEMMA GateTypes == ASSUME GateTypeOK, [Next]_vars PROVE GateTypeOK'
<1>1. CASE UNCHANGED gateVars
  BY <1>1 DEF gateVars, GateTypeOK
<1>2. CASE Push
  BY <1>2, NewTyping, GateConstants DEF Push, GateTypeOK
<1>3. CASE OtherMerge
  BY <1>3 DEF OtherMerge, GateTypeOK
<1>4. CASE ClassifyJob
  <2>1. \A paths : Classify(paths) \in {"fast", "ansible", "molecule", "full"}
    BY DEF Classify
  <2>2. ci' \in Runs
    <3>1. CASE ci' = [pc |-> "jobs", classify |-> "failure", depth |-> "", plan |-> NoPlan]
      BY <3>1 DEF Runs, NoPlan
    <3>2. ASSUME NEW paths \in Discovered, NEW rules \in LoadRules,
                 ci' = [pc |-> "jobs", classify |-> "success", depth |-> Classify(paths),
                        plan |-> BuildPlan(Classify(paths), paths, rules)]
          PROVE  ci' \in Runs
      <4>1. BuildPlan(Classify(paths), paths, rules) \in [mode : {"none", "selective", "full"}, rows : SUBSET Rows]
        BY PlanTyping
      <4>. QED BY <2>1, <3>2, <4>1 DEF Runs
    <3>. QED BY <1>4, <3>1, <3>2 DEF ClassifyJob
  <2>. QED BY <1>4, <2>2 DEF ClassifyJob, GateTypeOK
<1>5. CASE GateJob
  <2>1. ci.plan.rows \in SUBSET Rows
    BY DEF GateTypeOK, Runs
  <2>2. \/ check' = [NoCheck EXCEPT !.state = "failure"]
        \/ \E fast \in FastJob, ansible \in AnsibleJob, rows \in {ci.plan.rows, {}} :
             check' = [state |-> "success", fast |-> fast = "success", ansible |-> ansible = "success", rows |-> rows]
    <3>1. PICK fast \in FastJob, ansible \in AnsibleJob, rows \in {ci.plan.rows, {}} :
            LET results == [classify |-> ci.classify, fast |-> fast, ansible |-> ansible,
                            molecule |-> MoleculeJob(rows)]
                passes == Reconcile(ci.depth, results) /\ PlanAccepted(ci.depth, ci.plan)
            IN  check' = IF passes THEN [state |-> "success", fast |-> fast = "success",
                                         ansible |-> ansible = "success", rows |-> rows]
                         ELSE [NoCheck EXCEPT !.state = "failure"]
      BY <1>5 DEF GateJob
    <3>2. \/ check' = [NoCheck EXCEPT !.state = "failure"]
          \/ check' = [state |-> "success", fast |-> fast = "success", ansible |-> ansible = "success", rows |-> rows]
      BY <3>1
    <3> QED
      BY <3>2
  <2>3. check' \in Checks
    <3>1. ASSUME NEW fast, NEW ansible, NEW rows \in {ci.plan.rows, {}},
                 check' = [state |-> "success", fast |-> fast = "success",
                           ansible |-> ansible = "success", rows |-> rows]
          PROVE  check' \in Checks
      BY <2>1, <3>1 DEF Checks
    <3>. QED BY <2>2, <3>1, NewTyping
  <2>. QED BY <1>5, <2>3, NewTyping DEF GateJob, GateTypeOK
<1>6. CASE Merge
  BY <1>6, NewTyping DEF Merge, GateTypeOK
<1>. QED BY <1>1, <1>2, <1>3, <1>4, <1>5, <1>6 DEF Next, GateNext, vars

\* Every variable keeps its type: the repository at GitHub, each invocation's
\* progress, the pull request, its workflow run and its check.
THEOREM TypeCorrect == Spec => []TypeOK
<1>1. Init => ProtectionInvariant /\ GateTypeOK
  <2>1. ASSUME GateInit PROVE GateTypeOK
    BY <2>1, NewTyping, GateConstants DEF GateInit, GateTypeOK
  <2>. QED BY <2>1, ProtectionStarts DEF Init
<1>2. ProtectionInvariant /\ GateTypeOK /\ [Next]_vars => (ProtectionInvariant /\ GateTypeOK)'
  BY ProtectionKeeps, GateTypes
<1>3. ProtectionInvariant /\ GateTypeOK => TypeOK
  BY DEF ProtectionInvariant, GateTypeOK, Runs, Checks, TypeOK
<1>. QED BY <1>1, <1>2, <1>3, PTL DEF Spec

=============================================================================
