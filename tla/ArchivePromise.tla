----------------------------- MODULE ArchivePromise -----------------------------
(***************************************************************************)
(* What backup, transfer and retention promise together of every sealed    *)
(* archive: until it expires it is whole on the host or verified on the    *)
(* share, and an archive an upgrade depends on stays beyond that.  The     *)
(* host gives its copy up only for one on the share; the share gives its   *)
(* copy up only to have it written again from the host, or for good once   *)
(* the archive expired and the host has none.                              *)
(***************************************************************************)
CONSTANT Archives

VARIABLES
    age,     \* [a] -> "none" until it is sealed, then its age
    here,    \* archives whole on the host
    there,   \* archives complete on the share
    kept     \* archives an upgrade depends on

archives == <<age, here, there, kept>>

Init == age = [a \in Archives |-> "none"] /\ here = {} /\ there = {} /\ kept = {}

Seal(a) ==
    /\ age[a] = "none"
    /\ age' = [age EXCEPT ![a] = "fresh"]
    /\ here' = here \cup {a}
    /\ UNCHANGED <<there, kept>>

\* An upgrade reserves the name of the archive it will depend on, and seals it later.
Reserve(a) ==
    /\ age[a] = "none"
    /\ age' = [age EXCEPT ![a] = "fresh"]
    /\ kept' = kept \cup {a}
    /\ UNCHANGED <<here, there>>

SealReserved(a) ==
    /\ a \in kept \ here
    /\ here' = here \cup {a}
    /\ UNCHANGED <<age, there, kept>>

GrowOld(a) ==
    /\ \/ age[a] = "fresh" /\ age' = [age EXCEPT ![a] = "old"]
       \/ age[a] = "old" /\ age' = [age EXCEPT ![a] = "expired"]
    /\ UNCHANGED <<here, there, kept>>

Deliver(a) == a \in here /\ there' = there \cup {a} /\ UNCHANGED <<age, here, kept>>

WriteAgain(a) == a \in here /\ there' = there \ {a} /\ UNCHANGED <<age, here, kept>>

DropHere(a) ==
    /\ a \in there \ kept /\ age[a] # "fresh"
    /\ here' = here \ {a}
    /\ UNCHANGED <<age, there, kept>>

DropThere(a) ==
    /\ a \notin here \cup kept /\ age[a] = "expired"
    /\ there' = there \ {a}
    /\ UNCHANGED <<age, here, kept>>

Next ==
    \E a \in Archives :
        \/ Seal(a) \/ Reserve(a) \/ SealReserved(a) \/ GrowOld(a)
        \/ Deliver(a) \/ WriteAgain(a) \/ DropHere(a) \/ DropThere(a)

Spec == Init /\ [][Next]_archives
=============================================================================
