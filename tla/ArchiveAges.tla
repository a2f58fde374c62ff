------------------------------- MODULE ArchiveAges -------------------------------
(***************************************************************************)
(* Archives are numbered in the order of their names, which is the order   *)
(* of the times in them, and their age is what retention can tell apart.   *)
(***************************************************************************)
EXTENDS Integers

CONSTANT MaxArchives   \* sealed archives

ASSUME ArchivesConstant == MaxArchives \in Nat

Archives == 1..MaxArchives
Ages == {"none", "fresh", "old", "expired"}   \* "old" from 7 days on, "expired" from 90

Older == [fresh |-> "old", old |-> "expired"]

Unsealed == [a \in Archives |-> "none"]

IsFirst(a, S) == a \in S /\ \A b \in S : a <= b

\* An archive becomes older after those whose names come before its own.
OneOlder(age, after) ==
    \E a \in Archives :
        /\ age[a] \in {"fresh", "old"}
        /\ \A b \in Archives : b < a => age[b] \in {Older[age[a]], "expired"}
        /\ after = [age EXCEPT ![a] = Older[age[a]]]

\* Names follow time: the next name is the first one that is free.
NextName(age, a) == age[a] = "none" /\ \A b \in Archives : b < a => age[b] # "none"
=============================================================================
