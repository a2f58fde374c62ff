-------------------------- MODULE MirroredRepositories --------------------------
(***************************************************************************)
(* The two services between which roles/forgejo_metadata copies issue      *)
(* metadata: Forgejo objects with a version, and their shadows on GitHub,  *)
(* recognised by the key in their marker.  A request can arrive long after *)
(* its answer was given up, a new shadow can be missing from collections   *)
(* for a while, and people work on both sides.                             *)
(*                                                                         *)
(*   source      the version of a Forgejo object, 0 when it does not exist *)
(*   shadows     every shadow ever made, in the order of its identifier;   *)
(*               content is the version it shows, 0 for none               *)
(*   inflight    keys of creates that GitHub may still carry out           *)
(*   occupied    label names that a label of somebody else has             *)
(*   deferred    mappings whose credential waits for a rate limit          *)
(*   edits       changes by people, faults failures: the bounded inputs    *)
(***************************************************************************)
EXTENDS Naturals, Sequences, FiniteSets

CONSTANTS
    Enrolled,      \* sequence of mappings, each a sequence of keys: the order of a run
    Kind,          \* "label", "milestone", "issue" or "comment" of a key
    Needs,         \* keys an object refers to: labels and milestone, or the issue
    MaxVersion,    \* bound: versions of a source object
    MaxShadows,    \* bound: shadows ever made
    MaxEdits,      \* bound: changes made by people
    MaxFaults,     \* bound: failures
    Tampering      \* what people do to shadows: "alter", "remove", "occupy"

MappingIds == 1 .. Len(Enrolled)
KeysOf(m) == {Enrolled[m][i] : i \in 1 .. Len(Enrolled[m])}
Keys == UNION {KeysOf(m) : m \in MappingIds}
Kinds == {"label", "milestone", "issue", "comment"}

ASSUME MirrorAssumption ==
    /\ Enrolled \in Seq(Seq(Keys))
    /\ Kind \in [Keys -> Kinds] /\ Needs \in [Keys -> SUBSET Keys]
    /\ \A m \in MappingIds : \A k \in KeysOf(m) : Needs[k] \subseteq KeysOf(m)
    /\ {MaxVersion, MaxShadows, MaxEdits, MaxFaults} \subseteq Nat /\ MaxVersion # 0
    /\ Tampering \subseteq {"alter", "remove", "occupy"}

VARIABLES source, shadows, inflight, occupied, deferred, edits, faults
services == <<source, shadows, inflight, occupied, deferred, edits, faults>>

Versions == 0 .. MaxVersion
Ids == 1 .. MaxShadows
Made == 1 .. Len(shadows)
Shadow == [key : Keys, content : Versions, listed : BOOLEAN, live : BOOLEAN]
Labels == {k \in Keys : Kind[k] = "label"}

ServicesTypeOK ==
    /\ source \in [Keys -> Versions]
    /\ Len(shadows) <= MaxShadows /\ \A i \in Made : shadows[i] \in Shadow
    /\ inflight \subseteq Keys /\ occupied \subseteq Labels /\ deferred \subseteq MappingIds
    /\ edits \in 0 .. MaxEdits /\ faults \in 0 .. MaxFaults

ServicesInit ==
    /\ source = [k \in Keys |-> 1] /\ shadows = << >>
    /\ inflight = {} /\ occupied = {} /\ deferred = {} /\ edits = 0 /\ faults = 0

Edit == edits < MaxEdits /\ edits' = edits + 1
Fault == faults < MaxFaults /\ faults' = faults + 1

\* What GitHub makes of a create: an issue is always created open, and a label
\* name can be taken only once.
Creates(k, version) ==
    /\ Len(shadows) < MaxShadows /\ k \notin occupied
    /\ \E content \in {version} \cup {v \in {0} : Kind[k] = "issue"} :
         shadows' = Append(shadows, [key |-> k, content |-> content, listed |-> FALSE, live |-> TRUE])

ShowsVersion(i, version) == shadows' = [shadows EXCEPT ![i].content = version]

\* The shadows of a mapping that a complete read returns.
Listing(m) == {i \in Made : shadows[i].key \in KeysOf(m) /\ shadows[i].live /\ shadows[i].listed}

\* GitHub deletes an issue together with its comments.
Deleted(i) ==
    {j \in Made : j = i \/ (Kind[shadows[j].key] = "comment" /\ shadows[i].key \in Needs[shadows[j].key])}

-----------------------------------------------------------------------------
(* People and the services.                                                *)

\* References hold in Forgejo: an object outlives what refers to it.
SourceWrite(k, version) ==
    /\ Edit /\ version # source[k]
    /\ version # 0 => \A n \in Needs[k] : source[n] # 0
    /\ version = 0 => \A other \in Keys : k \in Needs[other] => source[other] = 0
    /\ source' = [source EXCEPT ![k] = version]
    /\ UNCHANGED <<shadows, inflight, occupied, deferred, faults>>

Appear(i) ==
    /\ ~shadows[i].listed
    /\ shadows' = [shadows EXCEPT ![i].listed = TRUE]
    /\ UNCHANGED <<source, inflight, occupied, deferred, edits, faults>>

\* A create whose answer nobody waits for is carried out or lost.
Land(k) ==
    /\ k \in inflight /\ inflight' = inflight \ {k}
    /\ \/ \E version \in Versions \ {0} : Creates(k, version)
       \/ UNCHANGED shadows
    /\ UNCHANGED <<source, occupied, deferred, edits, faults>>

Alter(i) ==
    /\ "alter" \in Tampering /\ Edit
    /\ shadows[i].live /\ ShowsVersion(i, 0)
    /\ UNCHANGED <<source, inflight, occupied, deferred, faults>>

Remove(i) ==
    /\ "remove" \in Tampering /\ Edit
    /\ shadows[i].live
    /\ shadows' = [j \in Made |-> [shadows[j] EXCEPT !.live = @ /\ j \notin Deleted(i)]]
    /\ UNCHANGED <<source, inflight, occupied, deferred, faults>>

Occupy(k) ==
    /\ "occupy" \in Tampering /\ Edit
    /\ k \in Labels \ occupied /\ occupied' = occupied \cup {k}
    /\ UNCHANGED <<source, shadows, inflight, deferred, faults>>

Vacate(k) ==
    /\ k \in occupied /\ occupied' = occupied \ {k}
    /\ UNCHANGED <<source, shadows, inflight, deferred, edits, faults>>

LimitEnds(m) ==
    /\ m \in deferred /\ deferred' = deferred \ {m}
    /\ UNCHANGED <<source, shadows, inflight, occupied, edits, faults>>
=============================================================================
