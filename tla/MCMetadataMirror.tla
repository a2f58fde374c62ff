---------------------------- MODULE MCMetadataMirror ----------------------------
(***************************************************************************)
(* MetadataMirror for TLC: a label, an issue that carries it, a comment on *)
(* the issue, and a milestone, in one or two mappings.                     *)
(***************************************************************************)
EXTENDS MetadataMirror

AllKinds == [bug |-> "label", issue |-> "issue", note |-> "comment", goal |-> "milestone"]
AllNeeds == [bug |-> {}, issue |-> {"bug"}, note |-> {"issue"}, goal |-> {}]

\* One mapping: a label, an issue that carries it, and a comment on the issue.
Thread == <<<<"bug", "issue", "note">>>>
ThreadKind == [k \in {"bug", "issue", "note"} |-> AllKinds[k]]
ThreadNeeds == [k \in {"bug", "issue", "note"} |-> AllNeeds[k]]

\* Two mappings with one object each.
Two == <<<<"bug">>, <<"goal">>>>
TwoKind == [k \in {"bug", "goal"} |-> AllKinds[k]]
TwoNeeds == [k \in {"bug", "goal"} |-> AllNeeds[k]]
=============================================================================
