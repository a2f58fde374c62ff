----------------------------- MODULE SlotLedger -----------------------------
(***************************************************************************)
(* What the runner pool promises about its slots, without saying how: a    *)
(* slot is free, held by a supervisor that reserved one job, or dirty.  No *)
(* two held slots have the same job; whatever a run leaves behind on the   *)
(* host or at Forgejo (the residue) keeps the slot from being free, and    *)
(* only a held slot can leave something behind.                            *)
(***************************************************************************)
CONSTANTS Slots, Jobs, NoJob

VARIABLES
    mode,      \* "free", "held" or "dirty"
    job,       \* the job of a held slot
    residue    \* does something of the slot exist outside its checkpoint?

vars == <<mode, job, residue>>

TypeOK ==
    /\ mode \in [Slots -> {"free", "held", "dirty"}]
    /\ job \in [Slots -> Jobs \cup {NoJob}]
    /\ residue \in [Slots -> BOOLEAN]

Init ==
    /\ mode = [s \in Slots |-> "free"]
    /\ job = [s \in Slots |-> NoJob]
    /\ residue = [s \in Slots |-> FALSE]

Hold(s, j) ==
    /\ mode[s] = "free"
    /\ \A t \in Slots : mode[t] = "held" => job[t] # j
    /\ mode' = [mode EXCEPT ![s] = "held"]
    /\ job' = [job EXCEPT ![s] = j]
    /\ UNCHANGED residue

\* A held slot works; enrollment and runtime appear (and may disappear).
Work(s) ==
    /\ mode[s] = "held"
    /\ \E left \in BOOLEAN : residue' = [residue EXCEPT ![s] = left]
    /\ UNCHANGED <<mode, job>>

\* Slots stop being held, by an error, by a crash or all at once: a slot that
\* has left something behind becomes dirty.
Stop(S) ==
    /\ \A s \in S : mode[s] = "held"
    /\ \E dirty \in SUBSET S :
           /\ \A s \in S : residue[s] => s \in dirty
           /\ mode' = [s \in Slots |-> IF s \in dirty THEN "dirty" ELSE IF s \in S THEN "free" ELSE mode[s]]
    /\ job' = [s \in Slots |-> IF s \in S THEN NoJob ELSE job[s]]
    /\ UNCHANGED residue

\* What a dirty slot left behind only disappears.
Purge(s) ==
    /\ mode[s] = "dirty"
    /\ residue' = [residue EXCEPT ![s] = FALSE]
    /\ UNCHANGED <<mode, job>>

Free(s) ==
    /\ mode[s] = "dirty" /\ ~residue[s]
    /\ mode' = [mode EXCEPT ![s] = "free"]
    /\ UNCHANGED <<job, residue>>

Next ==
    \/ \E s \in Slots : Work(s) \/ Purge(s) \/ Free(s) \/ (\E j \in Jobs : Hold(s, j))
    \/ \E S \in SUBSET Slots : Stop(S)

Spec == Init /\ [][Next]_vars
=============================================================================
