----------------------------- MODULE MetadataMirror -----------------------------
(***************************************************************************)
(* The one-way metadata mirror of roles/forgejo_metadata: the timer's run  *)
(* over all enrolled mappings, the attended control requests, and the      *)
(* journal that survives both.  A create is journaled before it is sent;   *)
(* the intent ends only when the shadow was seen, the service refused the  *)
(* create, or an operator decided that it never happened.                  *)
(*                                                                         *)
(*   journal   state.json: ready (initialized and valid), the pending      *)
(*             creates, and the recorded owner of every seen shadow        *)
(*   run       the process that holds operation.lock, Idle when nobody     *)
(*   status    status.json: the outcome, and the clean mappings            *)
(***************************************************************************)
EXTENDS MirroredRepositories

CONSTANT WriteBudget
ASSUME BudgetAssumption == WriteBudget \in Nat \ {0}

VARIABLES journal, run, status
vars == <<services, journal, run, status>>

Recorded == {"issue", "comment", "label"}       \* kinds with an ownership record
Resumable == {"exhausted", "limited"}
Errors == Resumable \cup {"timeout", "conflict", "collision", "unresolved", "other"}
Steps == {"idle", "next", "source", "discover", "retire", "object", "intend", "post", "seek", "record",
          "verify", "renew", "patch", "end", "resolve", "settle", "bootstrap", "reown", "adopt", "note"}

\* A run: its step and mapping, the writes left, the source it read, what it
\* owns and has seen, the objects to do, the shadow in hand, and its result.
Nothing == [k \in Keys |-> 0]
Unseen == [k \in Keys |-> [id |-> 0, content |-> 0]]
Idle == [step |-> "idle", mapping |-> 0, left |-> 0, want |-> Nothing, mine |-> Unseen, view |-> {},
         todo |-> << >>, made |-> 0, content |-> 0, backlog |-> FALSE, errs |-> {}, all |-> {}, clean |-> {},
         touched |-> {}]

TypeOK ==
    /\ ServicesTypeOK
    /\ journal \in [ready : BOOLEAN, pending : SUBSET Keys, owner : [Keys -> 0 .. MaxShadows]]
    /\ run.step \in Steps /\ run.mapping \in 0 .. Len(Enrolled) + 1 /\ run.left \in 0 .. WriteBudget
    /\ run.want \in [Keys -> Versions] /\ run.view \subseteq Made
    /\ \A k \in Keys : run.mine[k].id \in 0 .. Len(shadows) /\ run.mine[k].content \in Versions
    /\ run.todo \in Seq(Keys)
    /\ run.made \in 0 .. Len(shadows) /\ run.content \in Versions
    /\ run.errs \subseteq Errors /\ run.all \subseteq Errors \cup {"backlog"}
    /\ status \in [outcome : {"none", "converged", "deferred", "attention"}, clean : SUBSET MappingIds]

Init ==
    /\ ServicesInit
    /\ journal = [ready |-> FALSE, pending |-> {}, owner |-> Nothing]
    /\ run = Idle /\ status = [outcome |-> "none", clean |-> {}]

-----------------------------------------------------------------------------
(* Discovery.                                                              *)

\* Later reads of a run add recently changed issues and comments to what it has
\* seen, so that one listed late can be missing; labels and milestones are
\* always read completely.
Merged(i) == Kind[shadows[i].key] \in {"issue", "comment"}
Reads(m) ==
    LET kept == {i \in run.view : Merged(i)} \cup {i \in Listing(m) : ~Merged(i)}
    IN  {kept \cup changed : changed \in SUBSET {i \in Listing(m) \ run.view : Merged(i)}}

Has(k, ids) == \E i \in ids : shadows[i].key = k
OwnedBy(k, ids) == IF Has(k, ids) THEN CHOOSE i \in ids : shadows[i].key = k ELSE 0

\* Mutant: a missing recorded shadow is no conflict.
DisownedOnlyMoved(k, owner, ids) ==
    owner # 0 /\ OwnedBy(k, ids) # owner /\ (Kind[k] = "label" \/ owner \in ids)

\* discover_owned: two shadows of one key, or a recorded shadow that is
\* missing, was replaced, or is a label with another number.
Disowned(k, owner, ids) ==
    /\ owner # 0 /\ OwnedBy(k, ids) # owner
    /\ Kind[k] = "label" \/ ~Has(k, ids) \/ owner \in ids
Conflicts(m, ids) ==
    \/ \E i, j \in ids : i # j /\ shadows[i].key = shadows[j].key
    \/ \E k \in KeysOf(m) : Disowned(k, journal.owner[k], ids)

Collides(m) == \E k \in KeysOf(m) : k \in occupied /\ run.want[k] # 0

\* remember_owned: the journal records every shadow that was seen.
Remembers(m, ids) ==
    [journal EXCEPT !.owner =
        [k \in Keys |-> IF k \in KeysOf(m) /\ Has(k, ids) /\ Kind[k] \in Recorded THEN OwnedBy(k, ids) ELSE @[k]]]

Finds(m, ids) == [k \in Keys |-> LET i == OwnedBy(k, ids) IN
                     IF k \in KeysOf(m) /\ i # 0 THEN [id |-> i, content |-> shadows[i].content]
                     ELSE [id |-> 0, content |-> 0]]

\* finish_create with outcome created.
Finished(k, id) ==
    [journal EXCEPT !.pending = @ \ {k}, !.owner[k] = IF Kind[k] \in {"issue", "comment"} THEN id ELSE @]

-----------------------------------------------------------------------------
(* Results.                                                                *)

At(step) == run.step = step
Current == Head(run.todo)
Goes(changed) == run' = changed
Moves(step) == Goes([run EXCEPT !.step = step])
Stops(error) == Goes([run EXCEPT !.step = "end", !.errs = @ \cup {error}])
Passes(error) == Goes([run EXCEPT !.step = "object", !.todo = Tail(@), !.errs = @ \cup error])
Waits == Goes([run EXCEPT !.step = "object", !.todo = Tail(@), !.backlog = TRUE])
Holds(id, content) ==
    [run EXCEPT !.step = "object", !.todo = Tail(@), !.mine[Current] = [id |-> id, content |-> content]]

KeepsFiles == UNCHANGED <<journal, status>>
KeepsServices == UNCHANGED services

-----------------------------------------------------------------------------
(* The run over all mappings.                                              *)

\* apply: the timer, or the attended manual-apply.
StartApply ==
    /\ At("idle") /\ journal.ready
    /\ Goes([Idle EXCEPT !.step = "next", !.mapping = 1, !.left = WriteBudget])
    /\ KeepsServices /\ KeepsFiles

\* A mapping is refused when the time is over, the budget of time is used up,
\* or its credential is limited.
Refusal == IF "timeout" \in run.all THEN {"timeout"}
           ELSE IF "exhausted" \in run.all THEN {"exhausted"}
           ELSE {e \in {"limited"} : run.mapping \in deferred}

EnterMapping ==
    /\ At("next") /\ run.mapping <= Len(Enrolled)
    /\ IF Refusal = {} THEN Moves("source")
       ELSE Goes([run EXCEPT !.mapping = @ + 1, !.all = @ \cup Refusal])
    /\ KeepsServices /\ KeepsFiles

ReadSource ==
    /\ At("source")
    /\ Goes([run EXCEPT !.step = "discover",
                !.want = [k \in Keys |-> IF k \in KeysOf(run.mapping) THEN source[k] ELSE 0]])
    /\ KeepsServices /\ KeepsFiles

Discover ==
    LET m == run.mapping  ids == Listing(m)
    IN  /\ At("discover")
        /\ \/ Conflicts(m, ids) /\ Stops("conflict") /\ UNCHANGED journal
           \/ ~Conflicts(m, ids) /\ Collides(m) /\ Stops("collision") /\ UNCHANGED journal
           \/ /\ ~Conflicts(m, ids) /\ ~Collides(m)
              /\ journal' = Remembers(m, ids)
              /\ Goes([run EXCEPT !.step = "retire", !.view = ids, !.mine = Finds(m, ids)])
        /\ KeepsServices /\ UNCHANGED status

\* Rediscovery retires intents.
Retire(k) ==
    /\ At("retire") /\ k \in journal.pending /\ run.mine[k].id # 0
    /\ journal' = Finished(k, run.mine[k].id)
    /\ KeepsServices /\ UNCHANGED <<run, status>>

Enumerate ==
    /\ At("retire") /\ \A k \in journal.pending : run.mine[k].id = 0
    /\ Goes([run EXCEPT !.step = "object", !.todo = Enrolled[run.mapping]])
    /\ KeepsServices /\ KeepsFiles

-----------------------------------------------------------------------------
(* One object.                                                             *)

Working == At("object") /\ run.todo # << >>
Complete(k) == \A n \in Needs[k] : run.mine[n].id # 0
UpToDate(k) == run.mine[k].id # 0 /\ run.mine[k].content = run.want[k]

Wanted == run.want[Current] # 0

Needed == Working /\ Wanted /\ Complete(Current) /\ ~UpToDate(Current) /\ run.left > 0

\* What the source does not have is passed over.
Wait ==
    /\ Working
    /\ \/ ~Wanted /\ Passes({})
       \/ Wanted /\ ~Complete(Current) /\ Waits
       \/ Wanted /\ Complete(Current) /\ UpToDate(Current) /\ Passes({})
       \/ Wanted /\ Complete(Current) /\ ~UpToDate(Current) /\ run.left = 0 /\ Waits
    /\ KeepsServices /\ KeepsFiles

\* A discovery before a write: what it sees is what the write relies on.
Rediscovers(ids) ==
    /\ ~Conflicts(run.mapping, ids) /\ journal' = Remembers(run.mapping, ids)
RediscoveryStops(ids) ==
    /\ \/ Conflicts(run.mapping, ids) /\ Stops("conflict")
       \/ ~Conflicts(run.mapping, ids) /\ Collides(run.mapping) /\ Stops("collision")
    /\ UNCHANGED journal

\* The parent of a comment must still be seen.
Orphan(k, ids) == Kind[k] = "comment" /\ \E n \in Needs[k] : ~Has(n, ids)

Refresh ==
    /\ Needed
    /\ \E ids \in Reads(run.mapping) : LET k == Current  i == OwnedBy(k, ids) IN
           \/ RediscoveryStops(ids)
           \/ /\ Rediscovers(ids) /\ ~Collides(run.mapping)
              /\ IF (run.mine[k].id # 0 /\ i = 0) \/ Orphan(k, ids) THEN Stops("conflict")
                 ELSE IF i = 0 THEN Goes([run EXCEPT !.step = "intend", !.view = ids])
                 ELSE IF shadows[i].live
                      THEN Goes([run EXCEPT !.step = "verify", !.view = ids, !.made = i, !.content = shadows[i].content])
                 ELSE Goes([run EXCEPT !.step = "object", !.view = ids, !.todo = Tail(@), !.errs = @ \cup {"other"}])
    /\ KeepsServices /\ UNCHANGED status

\* Mutant: begin_create does not look for an unresolved intent.
IntendAgain ==
    /\ At("intend") /\ journal' = [journal EXCEPT !.pending = @ \cup {Current}]
    /\ Moves("post")
    /\ KeepsServices /\ UNCHANGED status

\* begin_create: an unresolved intent forbids another create.
Intend ==
    LET k == Current
    IN  /\ At("intend")
        /\ \/ k \in journal.pending /\ Passes({"unresolved"}) /\ UNCHANGED journal
           \/ /\ k \notin journal.pending
              /\ journal' = [journal EXCEPT !.pending = @ \cup {k}]
              /\ Moves("post")
        /\ KeepsServices /\ UNCHANGED status

-----------------------------------------------------------------------------
(* The create request and its outcomes.                                    *)

Sent == [run EXCEPT !.left = @ - 1]
SentPasses(error) == [Sent EXCEPT !.step = "object", !.todo = Tail(@), !.errs = @ \cup {error}]

Accepted ==
    /\ At("post") /\ Creates(Current, run.want[Current])
    /\ Goes([Sent EXCEPT !.step = "seek", !.made = Len(shadows) + 1])
    /\ KeepsFiles /\ UNCHANGED <<source, inflight, occupied, deferred, edits, faults>>

\* Mutant: a lost answer counts as not created.
AnswerLostForgets ==
    /\ At("post") /\ Fault
    /\ inflight' = inflight \cup {Current}
    /\ journal' = [journal EXCEPT !.pending = @ \ {Current}]
    /\ Goes(SentPasses("other"))
    /\ UNCHANGED <<source, shadows, occupied, deferred, edits, status>>

\* Unknown outcomes: the answer is lost, the request is still under way, or it
\* never arrives.  The intent stays.
AnswerLost ==
    /\ At("post") /\ Fault
    /\ \/ Creates(Current, run.want[Current]) /\ UNCHANGED inflight
       \/ inflight' = inflight \cup {Current} /\ UNCHANGED shadows
       \/ UNCHANGED <<shadows, inflight>>
    /\ Goes(SentPasses("other"))
    /\ KeepsFiles /\ UNCHANGED <<source, occupied, deferred, edits>>

\* finish_create with outcome not_created.
Rejected ==
    /\ At("post")
    /\ \/ Current \in occupied /\ UNCHANGED faults
       \/ Fault
    /\ journal' = [journal EXCEPT !.pending = @ \ {Current}]
    /\ Goes(SentPasses("other"))
    /\ UNCHANGED <<source, shadows, inflight, occupied, deferred, edits, status>>

\* A limited credential refuses every further request of the run.
Limited ==
    /\ At("post") /\ Fault
    /\ journal' = [journal EXCEPT !.pending = @ \ {Current}]
    /\ deferred' = deferred \cup {run.mapping}
    /\ Goes([SentPasses("limited") EXCEPT !.step = "end"])
    /\ UNCHANGED <<source, shadows, inflight, occupied, edits, status>>

\* discover_created: the new shadow must be the only one, where it was made.
Seek ==
    /\ At("seek")
    /\ \E ids \in Reads(run.mapping) : LET k == Current  i == OwnedBy(k, ids) IN
           \/ Conflicts(run.mapping, ids) /\ Stops("conflict") /\ UNCHANGED journal
           \/ /\ i # 0 /\ Rediscovers(ids)
              /\ IF i # run.made \/ Orphan(k, ids) THEN Stops("conflict")
                 ELSE Goes([run EXCEPT !.step = "record", !.view = ids, !.content = shadows[i].content])
    /\ KeepsServices /\ UNCHANGED status

SeekEnds ==
    /\ At("seek") /\ Stops("conflict")
    /\ \E ids \in Reads(run.mapping) : ~Has(Current, ids) /\ Rediscovers(ids)
    /\ KeepsServices /\ UNCHANGED status

Record ==
    /\ At("record")
    /\ journal' = Finished(Current, run.made)
    /\ Moves("verify")
    /\ KeepsServices /\ UNCHANGED status

-----------------------------------------------------------------------------
(* Verification and the update request.                                    *)

\* Mutant: the budget is not checked before the update.
VerifyOverspends ==
    /\ At("verify")
    /\ \/ run.content = run.want[Current] /\ Goes(Holds(run.made, run.content))
       \/ run.content # run.want[Current] /\ Moves("renew")
    /\ KeepsServices /\ KeepsFiles

Verify ==
    /\ At("verify")
    /\ \/ run.content = run.want[Current] /\ Goes(Holds(run.made, run.content))
       \/ /\ run.content # run.want[Current] /\ run.left = 0
          /\ Goes([Holds(run.made, run.content) EXCEPT !.backlog = TRUE])
       \/ run.content # run.want[Current] /\ run.left > 0 /\ Moves("renew")
    /\ KeepsServices /\ KeepsFiles

Renew ==
    /\ At("renew")
    /\ \E ids \in Reads(run.mapping) : LET k == Current  i == OwnedBy(k, ids) IN
           \/ RediscoveryStops(ids)
           \/ /\ Rediscovers(ids) /\ ~Collides(run.mapping)
              /\ IF i = 0 \/ Orphan(k, ids) THEN Stops("conflict")
                 ELSE Goes([run EXCEPT !.step = "patch", !.view = ids, !.made = i])
    /\ KeepsServices /\ UNCHANGED status

\* The update and the read back of its result, which must show every field.
Patch ==
    LET k == Current
    IN  /\ At("patch") /\ shadows[run.made].live /\ k \notin occupied
        /\ \/ /\ ShowsVersion(run.made, run.want[k]) /\ UNCHANGED faults
              /\ Goes([Holds(run.made, run.want[k]) EXCEPT !.left = @ - 1])
           \/ /\ \E content \in {0, run.want[k]} : ShowsVersion(run.made, content)
              /\ Fault /\ Goes(SentPasses("other"))
    /\ KeepsFiles /\ UNCHANGED <<source, inflight, occupied, deferred, edits>>

PatchFails ==
    /\ At("patch")
    /\ \/ (~shadows[run.made].live \/ Current \in occupied) /\ UNCHANGED faults
       \/ Fault
    /\ Goes(SentPasses("other"))
    /\ KeepsFiles /\ UNCHANGED <<source, shadows, inflight, occupied, deferred, edits>>

-----------------------------------------------------------------------------
(* The end of a mapping and of the run.                                    *)

MappingErrors == run.errs \cup {e \in {"unresolved"} : journal.pending \cap KeysOf(run.mapping) # {}}
\* Mutant: an error of one mapping ends the run.
MappingEndsRun ==
    /\ At("end") \/ (At("object") /\ run.todo = << >>)
    /\ Goes([Idle EXCEPT !.step = "next", !.left = run.left, !.all = run.all \cup MappingErrors,
                !.mapping = IF MappingErrors = {} THEN run.mapping + 1 ELSE Len(Enrolled) + 1])
    /\ KeepsServices /\ KeepsFiles

MappingEnds ==
    /\ At("end") \/ (At("object") /\ run.todo = << >>)
    /\ Goes([Idle EXCEPT !.step = "next", !.mapping = run.mapping + 1, !.left = run.left,
                !.all = run.all \cup MappingErrors \cup {e \in {"backlog"} : run.backlog},
                !.clean = run.clean \cup {m \in {run.mapping} : MappingErrors = {} /\ ~run.backlog}])
    /\ KeepsServices /\ KeepsFiles

\* Mutant: the outcome ignores unresolved intents.
OutcomeOfRun == IF run.all \ (Resumable \cup {"backlog"}) # {} THEN "attention"
                ELSE IF run.all # {} THEN "deferred" ELSE "converged"

Outcome == IF journal.pending # {} \/ run.all \ (Resumable \cup {"backlog"}) # {} THEN "attention"
           ELSE IF run.all # {} THEN "deferred" ELSE "converged"
Finish ==
    /\ At("next") /\ run.mapping = Len(Enrolled) + 1
    /\ status' = [outcome |-> Outcome, clean |-> run.clean]
    /\ Goes(Idle)
    /\ KeepsServices /\ UNCHANGED journal
-----------------------------------------------------------------------------
(* Failures.                                                               *)

\* RunDeadline: too little time is left to verify another write.
OutOfTime ==
    /\ Needed \/ At("intend") \/ At("patch")
    /\ Fault /\ Goes([run EXCEPT !.step = "end", !.errs = @ \cup {"exhausted"}, !.backlog = TRUE])
    /\ KeepsFiles /\ UNCHANGED <<source, shadows, inflight, occupied, deferred, edits>>

\* The hard limit of the run.
TimesOut ==
    /\ run.step \in {"source", "discover", "retire", "object", "intend", "seek", "record", "verify", "renew", "patch"}
    /\ Fault /\ Stops("timeout")
    /\ KeepsFiles /\ UNCHANGED <<source, shadows, inflight, occupied, deferred, edits>>

\* A read fails: with it the mapping, or the object.
ReadFails ==
    /\ \/ run.step \in {"source", "discover"} /\ Stops("other")
       \/ (Needed \/ run.step \in {"intend", "seek", "renew"}) /\ Passes({"other"})
    /\ Fault
    /\ KeepsFiles /\ UNCHANGED <<source, shadows, inflight, occupied, deferred, edits>>

Killed ==
    /\ ~At("idle") /\ Fault /\ Goes(Idle)
    /\ KeepsFiles /\ UNCHANGED <<source, shadows, inflight, occupied, deferred, edits>>

\* state.json becomes unreadable; what it recorded survives or is lost.
JournalLost ==
    /\ At("idle") /\ journal.ready /\ Fault
    /\ \/ journal' = [journal EXCEPT !.ready = FALSE]
       \/ journal' = [ready |-> FALSE, pending |-> {}, owner |-> Nothing]
    /\ UNCHANGED <<source, shadows, inflight, occupied, deferred, edits, run, status>>

-----------------------------------------------------------------------------
(* Attended requests.  Each asserts outcomes_resolved, and the operator    *)
(* asserts it only of creates that are over and whose shadow is visible.   *)

OutcomeKnown(k) ==
    /\ k \notin inflight
    /\ \A i \in Made : shadows[i].key = k /\ shadows[i].live => shadows[i].listed

Attends(step, todo) == At("idle") /\ Goes([Idle EXCEPT !.step = step, !.todo = todo])
AnyConflict == \E m \in MappingIds : Conflicts(m, Listing(m))
ListedAnywhere == UNION {Listing(m) : m \in MappingIds}
FindsAll == [k \in Keys |-> [id |-> OwnedBy(k, ListedAnywhere), content |-> 0]]
Refused == AnyConflict /\ Goes(Idle) /\ UNCHANGED journal

RequestResolve(k) ==
    /\ journal.ready /\ k \in journal.pending /\ OutcomeKnown(k)
    /\ Attends("resolve", <<k>>)
    /\ KeepsServices /\ KeepsFiles

Resolve ==
    /\ At("resolve")
    /\ \/ Refused
       \/ ~AnyConflict /\ Goes([run EXCEPT !.step = "settle", !.mine = FindsAll]) /\ UNCHANGED journal
    /\ KeepsServices /\ UNCHANGED status

\* finish_create of what was found, resolve_absent of what was not.
Settle ==
    LET k == Current
    IN  /\ At("settle")
        /\ journal' = IF run.mine[k].id # 0 THEN Finished(k, run.mine[k].id)
                      ELSE [journal EXCEPT !.pending = @ \ {k}]
        /\ Goes(Idle) /\ KeepsServices /\ UNCHANGED status

RequestBootstrap ==
    /\ ~journal.ready /\ \A k \in Keys : OutcomeKnown(k)
    /\ Attends("bootstrap", << >>)
    /\ KeepsServices /\ KeepsFiles

\* Complete discovery precedes the new journal, which keeps surviving evidence.
Bootstrap ==
    /\ At("bootstrap")
    /\ \/ Refused
       \/ /\ ~AnyConflict
          /\ journal' = [journal EXCEPT !.ready = TRUE]
          /\ Goes([run EXCEPT !.step = "reown", !.mine = FindsAll])
    /\ KeepsServices /\ UNCHANGED status

Reown(k) ==
    /\ At("reown") /\ k \in journal.pending /\ run.mine[k].id # 0
    /\ journal' = Finished(k, run.mine[k].id)
    /\ KeepsServices /\ UNCHANGED <<run, status>>

Reowned ==
    /\ At("reown") /\ \A k \in journal.pending : run.mine[k].id = 0
    /\ journal' = [journal EXCEPT !.owner =
          [k \in Keys |-> IF run.mine[k].id # 0 /\ Kind[k] \in Recorded THEN run.mine[k].id ELSE @[k]]]
    /\ Goes(Idle) /\ KeepsServices /\ UNCHANGED status

\* adopt_labels: a label of the same name becomes the shadow, if no reviewed
\* pair is in conflict; its marker is written before its record.
Adoptable ==
    /\ ~AnyConflict
    /\ \A k \in occupied : source[k] # 0 => k \notin journal.pending /\ ~Has(k, ListedAnywhere)
RequestAdopt(k) ==
    /\ journal.ready /\ k \in occupied /\ source[k] # 0 /\ Adoptable
    /\ Attends("adopt", <<k>>)
    /\ KeepsServices /\ KeepsFiles

Adopt ==
    LET k == Current
    IN  /\ At("adopt")
        /\ IF Adoptable /\ k \in occupied /\ source[k] # 0 /\ Len(shadows) < MaxShadows
           THEN /\ shadows' = Append(shadows, [key |-> k, content |-> source[k], listed |-> TRUE, live |-> TRUE])
                /\ occupied' = occupied \ {k}
                /\ Goes([run EXCEPT !.step = "note", !.made = Len(shadows) + 1])
           ELSE Goes(Idle) /\ UNCHANGED <<shadows, occupied>>
        /\ KeepsFiles /\ UNCHANGED <<source, inflight, deferred, edits, faults>>

Note ==
    /\ At("note")
    /\ journal' = [journal EXCEPT !.owner =
          [k \in Keys |-> IF k = Current THEN run.made
                         ELSE IF ~AnyConflict /\ Kind[k] \in Recorded /\ Has(k, ListedAnywhere)
                         THEN OwnedBy(k, ListedAnywhere) ELSE @[k]]]
    /\ Goes(Idle) /\ KeepsServices /\ UNCHANGED status

-----------------------------------------------------------------------------
(* The specification.                                                      *)

\* Who else changed a shadow while a mapping is being processed.
Touches(keys) == run' = IF At("idle") THEN run ELSE [run EXCEPT !.touched = @ \cup keys]

Apart(action) == action /\ UNCHANGED <<journal, run, status>>
Environment ==
    \/ \E k \in Keys :
          \/ Apart(Land(k)) \/ Apart(Occupy(k)) \/ Apart(Vacate(k))
          \/ \E v \in Versions : Apart(SourceWrite(k, v))
    \/ \E i \in Made : Apart(Appear(i))
    \/ \E m \in MappingIds : Apart(LimitEnds(m))
    \/ \E i \in Made : Alter(i) /\ Touches({shadows[i].key}) /\ KeepsFiles
    \/ \E i \in Made : Remove(i) /\ Touches({shadows[j].key : j \in Deleted(i)}) /\ KeepsFiles

RunStep ==
    \/ EnterMapping \/ ReadSource \/ Discover \/ Enumerate \/ Wait \/ Refresh \/ Intend
    \/ Accepted \/ Seek \/ Record \/ Verify \/ Renew \/ Patch
    \/ At("post") /\ Current \in occupied /\ Rejected
    \/ At("patch") /\ PatchFails
    \/ MappingEnds \/ Finish
    \/ Resolve \/ Settle \/ Bootstrap \/ Reowned \/ Adopt \/ Note
    \/ \E k \in Keys : Retire(k) \/ Reown(k)
Failure == AnswerLost \/ Rejected \/ Limited \/ OutOfTime \/ TimesOut \/ ReadFails \/ Killed \/ JournalLost
Request == StartApply \/ RequestBootstrap \/ \E k \in Keys : RequestResolve(k) \/ RequestAdopt(k)

Next == RunStep \/ SeekEnds \/ Failure \/ Request \/ Environment
Spec == Init /\ [][Next]_vars

-----------------------------------------------------------------------------
(* Safety.                                                                 *)

Copies(k) == {i \in Made : shadows[i].key = k /\ shadows[i].live}

\* Never two shadows of one object, whatever answers are lost or late, wherever
\* a run is killed, and even when the journal is lost and started anew.
OneCopy == \A k \in Keys : Cardinality(Copies(k)) <= 1

\* A create is never sent for an object whose shadow is on record: what people
\* removed is not made again.
NoResurrection ==
    [][\A k \in Keys : Copies(k)' \ Copies(k) # {} => (journal.ready => journal.owner[k] = 0)]_vars

\* A mapping is reported as converged only when every object it read has a
\* shadow with the version it read, unless somebody else changed it meanwhile.
ConvergedIsMirrored ==
    [][\A m \in MappingIds : run'.clean # run.clean /\ m \in run'.clean \ run.clean =>
         \A k \in KeysOf(m) \ run.touched :
             run.want[k] # 0 => \E i \in Copies(k) : shadows[i].content = run.want[k]]_vars

\* A run that is not reported as in need of attention leaves no create behind
\* whose outcome is unknown.
UncertaintyIsReported ==
    [][status' # status /\ status'.outcome # "attention" => inflight = {} /\ journal.pending = {}]_vars

\* Reports claim no more than was done: of a mapping, and of the whole run.
ReportsAreTrue == ConvergedIsMirrored /\ UncertaintyIsReported

\* The state of every object's shadow; see OneShadow.
shadowState == [k \in Keys |->
    CASE Cardinality(Copies(k)) > 1 -> "doubled"
      [] Cardinality(Copies(k)) = 1 -> IF journal.ready /\ journal.owner[k] # 0 THEN "lives" ELSE "made"
      [] OTHER -> IF ~journal.ready THEN "unknown"
                  ELSE IF journal.owner[k] # 0 THEN "retired"
                  ELSE IF k \in journal.pending THEN "claimed" ELSE "free"]
Promise == INSTANCE OneShadow WITH Objects <- Keys, shadow <- shadowState
KeepsPromise == Promise!Spec

-----------------------------------------------------------------------------
(* Liveness.  The timer runs nightly and an operator gets the lock between *)
(* two runs; late requests end, new shadows become visible, limits end,    *)
(* and a name that somebody occupies is given back.                        *)

FairSpec ==
    /\ Spec
    /\ WF_vars(RunStep \/ SeekEnds) /\ SF_vars(StartApply) /\ SF_vars(RequestBootstrap)
    /\ \A k \in Keys : SF_vars(RequestResolve(k)) /\ WF_vars(Apart(Land(k))) /\ WF_vars(Apart(Vacate(k)))
    /\ \A i \in Ids : WF_vars(i \in Made /\ Apart(Appear(i)))
    /\ \A m \in MappingIds : WF_vars(Apart(LimitEnds(m)))

\* Every object is mirrored in the end.  What people removed is not made again,
\* but one mapping does not hold up another: only a mapping that waits for an
\* operator waits for all of them, since requests need all mappings intact.
Mirrored(k) == source[k] # 0 => \E i \in Copies(k) : shadows[i].content = source[k]
Damaged(m) == \E i \in Made : shadows[i].key \in KeysOf(m) /\ ~shadows[i].live
AnyDamaged == \E m \in MappingIds : Damaged(m)
WaitsForOperator(m) == ~journal.ready \/ journal.pending \cap KeysOf(m) # {}
EventuallyMirrored ==
    <>[](\A m \in MappingIds :
            \/ \A k \in KeysOf(m) : Mirrored(k)
            \/ Damaged(m)
            \/ WaitsForOperator(m) /\ AnyDamaged)

\* And the status reports it in the end, unless a removal needs attention.
EventuallyReported == <>[](status.outcome = "converged" \/ AnyDamaged)

\* So faults, removals and unknown outcomes delay the mirror and its report, no more.
MirrorSettles == EventuallyMirrored /\ EventuallyReported
=============================================================================
