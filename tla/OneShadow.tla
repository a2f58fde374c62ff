-------------------------------- MODULE OneShadow --------------------------------
(***************************************************************************)
(* What the mirror promises of every source object: one shadow.  A shadow  *)
(* is made only for a claimed key, only a free key can be claimed, and a   *)
(* key whose shadow is on record is never free again: the shadow may be    *)
(* removed, the mirror does not make another.  While the record itself is  *)
(* lost only what was claimed before can still be made.                    *)
(*                                                                         *)
(*   unknown  no shadow, and no record to tell why                         *)
(*   free     no shadow, none on record, none claimed                      *)
(*   claimed  no shadow, but a create may be under way                     *)
(*   made     one shadow, not on record                                    *)
(*   lives    one shadow, on record                                        *)
(*   retired  no shadow, the removed one is on record                      *)
(***************************************************************************)
CONSTANT Objects
VARIABLE shadow

States == {"unknown", "free", "claimed", "made", "lives", "retired"}

Init == shadow = [k \in Objects |-> "unknown"]

Claims(before, after) == before = "free" /\ after = "claimed"
Makes(before, after) == before \in {"claimed", "unknown"} /\ after = "made"
Abandons(before, after) == before = "claimed" /\ after = "free"
Adopts(before, after) == before = "free" /\ after = "made"
One(Change(_, _)) ==
    \E k \in Objects, after \in States :
        Change(shadow[k], after) /\ shadow' = [shadow EXCEPT ![k] = after]

\* A read records all the shadows it finds, or found just before their removal.
Records(before, after) ==
    \/ before = "made" /\ after = "lives"
    \/ before \in {"free", "claimed"} /\ after = "retired"
Removes(before, after) ==
    \/ before = "lives" /\ after = "retired"
    \/ before = "made" /\ after \in {"free", "claimed", "unknown"}
\* The record is lost, and an operator starts a new one.
Loses(before, after) == after = IF before \in {"made", "lives"} THEN "made" ELSE "unknown"
Restarts(before, after) ==
    \/ before = "unknown" /\ after \in {"free", "claimed", "retired"}
    \/ before = "made" /\ after \in {"made", "lives"}

\* Changes that may concern several keys at once.
Some(Change(_, _)) ==
    /\ shadow' \in [Objects -> States]
    /\ \A k \in Objects : shadow'[k] = shadow[k] \/ Change(shadow[k], shadow'[k])
All(Change(_, _)) ==
    /\ shadow' \in [Objects -> States]
    /\ \A k \in Objects : Change(shadow[k], shadow'[k])

Next ==
    \/ One(Claims) \/ One(Makes) \/ One(Abandons) \/ One(Adopts)
    \/ Some(Records) \/ Some(Removes) \/ All(Loses) \/ All(Restarts)

Spec == Init /\ [][Next]_shadow
=============================================================================
