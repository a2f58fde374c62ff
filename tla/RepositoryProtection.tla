------------------------- MODULE RepositoryProtection -------------------------
(***************************************************************************)
(* scripts/repository/github_protection.py: invocations that check or      *)
(* apply the protection of main through requests of which none sees what   *)
(* the others saw, while administrators and other invocations change the   *)
(* repository.                                                             *)
(*                                                                         *)
(* A managed ruleset (the repository's own, named "Protect main") is       *)
(* "exact", "weak" (its rules differ but apply to main) or "off" (they do  *)
(* not apply to main).                                                     *)
(***************************************************************************)
EXTENDS Naturals, FiniteSets, Sequences

CONSTANTS
    Commands,     \* invocations of the tool, each runs once
    RulesetIds,   \* identifiers GitHub can give to managed rulesets
    MaxTroubles   \* bound: failed requests and administrators' changes

ASSUME ProtectionBounds == MaxTroubles \in Nat /\ IsFiniteSet(RulesetIds)

VARIABLES
    public,      \* the repository's visibility
    squash,      \* only squash merges are allowed
    rulesets,    \* the managed rulesets
    foreign,     \* rules of another ruleset apply to main
    attested,    \* a successful merge-gate check names the integration
    op,          \* progress of each invocation
    troubles

github == <<public, squash, rulesets, foreign>>
protectionVars == <<github, attested, op, troubles>>

Rulesets == [target : {"branch", "other"}, form : {"exact", "weak", "off"}]
NoRuleset == [target |-> "none", form |-> "none"]
ExactRuleset == [target |-> "branch", form |-> "exact"]
WeakRuleset == [target |-> "branch", form |-> "weak"]
Managed == {i \in RulesetIds : rulesets[i] # NoRuleset}

\* What one collect_state has read so far.
Unread == [public |-> FALSE, squash |-> FALSE, ids |-> {}, details |-> <<>>]

\* Observed beside the program: "calm", nobody else has changed the repository
\* since the collection began, and "posted", it has created a ruleset.
Idle == [pc |-> "idle", last |-> FALSE, failed |-> FALSE, todo |-> <<>>,
         seen |-> Unread, calm |-> FALSE, posted |-> FALSE, result |-> "none"]

ProtectionInit ==
    /\ public = TRUE /\ squash \in BOOLEAN /\ foreign = FALSE
    /\ rulesets \in [RulesetIds -> {NoRuleset, WeakRuleset}] /\ Cardinality(Managed) <= 1
    /\ attested \in BOOLEAN
    /\ op = [o \in Commands |-> Idle]
    /\ troubles = 0

-----------------------------------------------------------------------------
(* What is expected of GitHub, and what the tool concludes.                *)

\* GET rules/branches/main: the rules that apply to main, by their source.
Effective ==
    [own |-> {i \in Managed : rulesets[i].target = "branch" /\ rulesets[i].form # "off"},
     foreign |-> foreign]

\* GitHub enforces the required check and the up-to-date branch.
Enforced == public /\ \E i \in Managed : rulesets[i] = ExactRuleset

Exact ==
    /\ public /\ squash /\ ~foreign
    /\ \E i \in RulesetIds : Managed = {i} /\ rulesets[i] = ExactRuleset

RepositoryDrift(seen) == ~seen.public \/ ~seen.squash

RulesetDrift(seen, effective) ==
    \/ Cardinality(seen.ids) # 1
    \/ \E i \in seen.ids : seen.details[i] # ExactRuleset \/ effective.own # {i} \/ effective.foreign

Blocked(seen, effective) ==
    \/ ~seen.public
    \/ Cardinality(seen.ids) > 1
    \/ Cardinality(seen.ids) = 1 /\ \E i \in seen.ids : seen.details[i].target # "branch"
    \/ effective.foreign
    \/ effective.own \ (IF Cardinality(seen.ids) = 1 THEN seen.ids ELSE {}) # {}

\* Mutant: the ruleset before the merge methods.
PlanActionsReversed(seen, effective) ==
    (IF seen.ids = {} THEN <<"POST">>
     ELSE IF Cardinality(seen.ids) = 1 /\ RulesetDrift(seen, effective) THEN <<"PUT">> ELSE <<>>) \o
    (IF seen.squash THEN <<>> ELSE <<"PATCH">>)

PlanActions(seen, effective) ==
    (IF seen.squash THEN <<>> ELSE <<"PATCH">>) \o
    (IF seen.ids = {} THEN <<"POST">>
     ELSE IF /\ Cardinality(seen.ids) = 1 /\ RulesetDrift(seen, effective)
             /\ \A i \in seen.ids : seen.details[i].target = "branch"
     THEN <<"PUT">> ELSE <<>>)

-----------------------------------------------------------------------------
(* An invocation.                                                          *)

Trouble == troubles < MaxTroubles /\ troubles' = troubles + 1

At(o, pc) == op[o].pc = pc
Become(o, next) == op' = [op EXCEPT ![o] = next]
Ends(o, result) ==
    [Idle EXCEPT !.pc = "done", !.result = result, !.calm = op[o].calm, !.posted = op[o].posted]

\* A check has one collection, and so has an apply that finds nothing to do.
\* Without its confirmation an apply ends before any request.
StartCommand(o) ==
    /\ At(o, "idle")
    /\ \E last \in BOOLEAN : Become(o, [Idle EXCEPT !.pc = "repository", !.last = last, !.calm = TRUE])
    /\ UNCHANGED <<github, attested, troubles>>

ReadRepository(o) ==
    /\ At(o, "repository") /\ attested
    /\ Become(o, [op[o] EXCEPT !.pc = "list", !.seen.public = public, !.seen.squash = squash])
    /\ UNCHANGED <<github, attested, troubles>>

\* discover_integration_id finds no recent successful check.
NoIntegration(o) ==
    /\ At(o, "repository") /\ ~attested
    /\ Become(o, Ends(o, "error"))
    /\ UNCHANGED <<github, attested, troubles>>

ReadList(o) ==
    /\ At(o, "list")
    /\ Become(o, [op[o] EXCEPT !.seen.ids = Managed, !.pc = IF Managed = {} THEN "effective" ELSE "details"])
    /\ UNCHANGED <<github, attested, troubles>>

\* A listed ruleset that is gone by now answers 404.
ReadDetail(o) ==
    /\ At(o, "details")
    /\ LET seen == op[o].seen
           i == CHOOSE j \in seen.ids \ DOMAIN seen.details : TRUE
           details == [j \in DOMAIN seen.details \cup {i} |-> IF j = i THEN rulesets[i] ELSE seen.details[j]]
       IN  Become(o, IF i \notin Managed THEN Ends(o, "error")
                     ELSE [op[o] EXCEPT !.seen.details = details,
                                        !.pc = IF DOMAIN details = seen.ids THEN "effective" ELSE "details"])
    /\ UNCHANGED <<github, attested, troubles>>

\* The last request of collect_state, and what the invocation makes of it.
ReadEffective(o) ==
    /\ At(o, "effective")
    /\ LET seen == op[o].seen
           blocked == Blocked(seen, Effective)
           wrong == blocked \/ RepositoryDrift(seen) \/ RulesetDrift(seen, Effective)
           actions == PlanActions(seen, Effective)
       IN  Become(o, IF op[o].last
                     THEN Ends(o, IF wrong \/ op[o].failed THEN "error" ELSE "ok")
                     ELSE IF blocked THEN Ends(o, "error")
                     ELSE IF actions = <<>> THEN Ends(o, "ok")
                     ELSE [op[o] EXCEPT !.pc = "write", !.todo = actions])
    /\ UNCHANGED <<github, attested, troubles>>

\* No answer, a refusal or a malformed page.
ReadFails(o) ==
    /\ op[o].pc \in {"repository", "list", "details", "effective"} /\ Trouble
    /\ Become(o, Ends(o, "error"))
    /\ UNCHANGED <<github, attested>>

\* Mutant: the accepted writes are the result, and nothing is read back.
ActedWithoutReadBack(o, failed) ==
    LET rest == IF failed THEN <<>> ELSE Tail(op[o].todo) IN
    IF rest # <<>> THEN [op[o] EXCEPT !.todo = rest] ELSE Ends(o, IF failed THEN "error" ELSE "ok")

\* The next action is over: the first failure drops the others, nothing is
\* rolled back, and the state is collected again for the report.
Acted(o, failed) ==
    LET rest == IF failed THEN <<>> ELSE Tail(op[o].todo) IN
    IF rest # <<>> THEN [op[o] EXCEPT !.todo = rest]
    ELSE [op[o] EXCEPT !.pc = "repository", !.last = TRUE, !.failed = failed, !.calm = TRUE,
                       !.todo = <<>>, !.seen = Unread]

\* GitHub carries an action out.  An update leaves the ruleset's target alone.
Effect(o, failed) ==
    LET action == Head(op[o].todo) IN
    /\ squash' = (squash \/ action = "PATCH")
    /\ \/ action = "PATCH" /\ rulesets' = rulesets
       \/ action = "POST" /\ \E i \in RulesetIds \ Managed : rulesets' = [rulesets EXCEPT ![i] = ExactRuleset]
       \/ action = "PUT" /\ \E i \in op[o].seen.ids \cap Managed : rulesets' = [rulesets EXCEPT ![i].form = "exact"]
    /\ UNCHANGED <<public, foreign>>
    /\ op' = [p \in Commands |->
                IF p = o THEN [Acted(o, failed) EXCEPT !.posted = @ \/ action = "POST"]
                ELSE [op[p] EXCEPT !.calm = FALSE]]

Write(o) ==
    /\ At(o, "write") /\ Effect(o, FALSE)
    /\ UNCHANGED <<attested, troubles>>

\* The answer is lost, the request fails, or the ruleset is gone.
WriteFails(o) ==
    /\ At(o, "write")
    /\ \/ Trouble /\ Effect(o, TRUE)
       \/ /\ Trouble \/ (Head(op[o].todo) = "PUT" /\ op[o].seen.ids \cap Managed = {} /\ UNCHANGED troubles)
          /\ Become(o, Acted(o, TRUE)) /\ UNCHANGED github
    /\ UNCHANGED attested

Command(o) ==
    \/ StartCommand(o) \/ ReadRepository(o) \/ NoIntegration(o) \/ ReadList(o) \/ ReadDetail(o)
    \/ ReadEffective(o) \/ ReadFails(o) \/ Write(o) \/ WriteFails(o)

\* Administrators change what the tool manages, or something beside it.
Administrator ==
    /\ Trouble
    /\ \/ squash' = FALSE /\ UNCHANGED <<public, rulesets, foreign>>
       \/ public' = ~public /\ UNCHANGED <<squash, rulesets, foreign>>
       \/ foreign' = ~foreign /\ UNCHANGED <<public, squash, rulesets>>
       \/ /\ \E i \in Managed, r \in {NoRuleset} \cup Rulesets : rulesets' = [rulesets EXCEPT ![i] = r]
          /\ UNCHANGED <<public, squash, foreign>>
    /\ op' = [o \in Commands |-> [op[o] EXCEPT !.calm = FALSE]]
    /\ UNCHANGED attested

ProtectionNext == (\E o \in Commands : Command(o)) \/ Administrator

-----------------------------------------------------------------------------
(* Properties.                                                             *)

Progress == [pc : {"idle", "repository", "list", "details", "effective", "write", "done"},
             last : BOOLEAN, failed : BOOLEAN,
             todo : {<<>>, <<"PATCH">>, <<"POST">>, <<"PUT">>, <<"PATCH", "POST">>, <<"PATCH", "PUT">>},
             seen : [public : BOOLEAN, squash : BOOLEAN, ids : SUBSET RulesetIds,
                     details : UNION {[s -> Rulesets] : s \in SUBSET RulesetIds}],
             calm : BOOLEAN, posted : BOOLEAN, result : {"none", "ok", "error"}]
ProtectionTypeOK ==
    /\ public \in BOOLEAN /\ squash \in BOOLEAN /\ foreign \in BOOLEAN /\ attested \in BOOLEAN
    /\ rulesets \in [RulesetIds -> Rulesets \cup {NoRuleset}]
    /\ DOMAIN op = Commands /\ \A o \in Commands : op[o] \in Progress
    /\ troubles \in 0 .. MaxTroubles

\* The success of a check or an apply, put together from requests made at
\* different moments, means that main is protected exactly, unless somebody
\* else changed the repository while the tool was still reading it.
SuccessIsExact == \A o \in Commands : (op[o].result = "ok" /\ op[o].calm) => Exact

\* Two invocations that both found no ruleset and both created one do not both
\* report success: ambiguous ownership comes to an operator's attention.
DuplicatesAreReported ==
    Cardinality(Managed) > 1 => \E o \in Commands : op[o].posted /\ op[o].result # "ok"

\* What the tool reports of the repository is true, whoever runs beside it.
ReportsProtection == SuccessIsExact /\ DuplicatesAreReported
=============================================================================
