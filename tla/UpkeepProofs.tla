------------------------------ MODULE UpkeepProofs ------------------------------
(***************************************************************************)
(* Proofs about Upkeep, for any numbers of archives, faults and attempts.  *)
(***************************************************************************)
EXTENDS Upkeep, ArchiveTransferProofs, SequenceTheorems, TLAPS

-----------------------------------------------------------------------------
(* The restore experiment of Semaphore. *)

Offset == IF mode = "fixture" THEN 14 ELSE 0

DrillTypes ==
    /\ mode \in {"fixture", "attended"}
    /\ stage \in {"body", "restore", "fixture", "over"}
    /\ at \in Nat \ {0}
    /\ recorded \subseteq Restore \cup Fixture /\ todo \subseteq recorded /\ failed \subseteq recorded
    /\ made \subseteq (Restore \cup Fixture) \ {"link"} /\ others \subseteq {"rvol", "rdb", "dest"}
    /\ DOMAIN upsets = {"body", "cleanup", "signals"} /\ upsets.cleanup \in Nat
    /\ (result = "none") = (stage # "over")
    /\ stage = "fixture" => mode = "fixture"
    /\ stage = "restore" => todo \cup failed \subseteq Restore
    /\ stage = "fixture" => todo \subseteq Fixture

\* What is there was made under a name nobody else has, and but for a destination that an
\* interrupt left it is remembered.
MadeIsRemembered ==
    /\ made \cap others = {}
    /\ Left \subseteq recorded \cup {"dest"}
    /\ signal \notin {"mkdir", "cleanup"} => Left \subseteq recorded

\* What the body has behind it, by its steps.
BodyFollows ==
    /\ stage = "body" => failed = {} /\ ~primary /\ upsets.cleanup = 0
    /\ stage = "body" /\ at <= Offset + 2 => Left \cap Restore = {}
    /\ stage = "body" /\ at > Offset + 7 => internal
    /\ stage = "body" /\ at > Offset + 13 => schedules = "off"
    /\ stage = "body" /\ at <= Offset + 14 => "rapp" \notin made
    /\ mode = "attended" => Left \cap Fixture = {}
    /\ ~primary => signal = "no"

\* In a cleanup nobody interrupted, what is left is still to come or reported.
LeftIsAccounted ==
    /\ stage = "restore" => Left \cap Restore \subseteq todo \cup failed
    /\ stage = "fixture" => Left \subseteq todo \cup failed
    /\ result \in {"accepted", "refused"} => Left \subseteq failed

\* And when no command of it failed, it is still to come, or a destination without a marker.
LeftIsToCome ==
    /\ stage = "restore" => Left \cap Restore \subseteq todo \cup {"dest"}
    /\ stage = "fixture" => Left \subseteq todo \cup {"dest"}
    /\ result \in {"accepted", "refused"} => Left \subseteq {"dest"}

CleanupsAccount ==
    signal \notin {"mkdir", "cleanup"} => LeftIsAccounted /\ (upsets.cleanup = 0 => LeftIsToCome)

\* A cleanup that has nothing to look at reports nothing, and acceptance follows no report.
ReportsFollow ==
    /\ stage = "restore" /\ todo = {} => failed = {}
    /\ stage = "fixture" /\ todo = {} => failed \cap Fixture = {}
    /\ stage = "fixture" /\ ~primary => failed \cap Restore = {}
    /\ result = "accepted" => ~primary /\ failed = {}

DrillInv ==
    DrillTypes /\ MadeIsRemembered /\ BodyFollows /\ CleanupsAccount /\ ReportsFollow /\ RestoredIsInert
RestoreNames == {"link", "r-validate", "rapp", "r-schedules", "r-load", "rdb", "r-check", "r-download", "rvol", "rnet", "dest"}
FixtureNames == {"temp", "fnet", "dnet", "fvol", "target", "denied", "f-oracle", "fdb", "fapp",
                 "f-seed", "f-backup", "f-outage", "samba", "f-transfer"}

LEMMA Names == Restore = RestoreNames /\ Fixture = FixtureNames
<1>1. Restore = {RestoreOrder[i] : i \in 1..11}
  BY DEF Restore, RestoreOrder, ToSet
<1>2. \A r : r \in Restore <=> r \in RestoreNames
  BY <1>1 DEF RestoreOrder, RestoreNames
<1>3. Len(FixtureSteps) = 14 /\ DOMAIN FixtureSteps = 1..14
  BY DEF FixtureSteps
<1>4. FixtureOrder = [i \in 1..14 |-> FixtureSteps[(14 - i) + 1]]
  BY <1>3 DEF FixtureOrder, Reverse
<1>5. Fixture = {FixtureSteps[(14 - i) + 1] : i \in 1..14}
  BY <1>4 DEF Fixture, ToSet
<1>6. \A r : r \in Fixture <=> r \in FixtureNames
  <2>1. \A i \in 1..14 : (14 - i) + 1 \in 1..14 /\ FixtureSteps[(14 - i) + 1] \in FixtureNames
    BY DEF FixtureSteps, FixtureNames
  <2>2. ASSUME NEW r \in FixtureNames PROVE \E i \in 1..14 : r = FixtureSteps[(14 - i) + 1]
    <3>1. \E k \in 1..14 : r = FixtureSteps[k]
      BY DEF FixtureSteps, FixtureNames
    <3>2. PICK k \in 1..14 : r = FixtureSteps[k]
      BY <3>1
    <3>3. 15 - k \in 1..14 /\ (14 - (15 - k)) + 1 = k
      OBVIOUS
    <3> QED
      BY <3>2, <3>3
  <2> QED
    BY <1>5, <2>1, <2>2
<1> QED
  BY <1>2, <1>6

\* What is attached to what.
LEMMA UsedBy ==
    ASSUME NEW s, NEW r \in Uses(s)
    PROVE  \/ r = "rnet" /\ s \in {"rdb", "r-load", "r-schedules", "rapp"}
           \/ r = "rvol" /\ s = "rdb"
           \/ r = "rapp" /\ s = "r-validate"
           \/ r = "fnet" /\ s \in {"target", "fapp", "samba", "fdb", "f-backup", "f-outage", "f-transfer", "r-download"}
           \/ r = "dnet" /\ s \in {"denied", "f-oracle"}
           \/ r = "fvol" /\ s = "fdb"
           \/ r = "fapp" /\ s = "f-seed"
BY DEF Uses

\* Both cleanups come to what uses a name before they come to it.
LEMMA UsersComeFirst ==
    ASSUME NEW r, NEW s, Cleaning(r), r \in Uses(s) \/ (r = "rnet" /\ s = "link"),
           stage = "restore" => s \in Restore, stage = "fixture" => s \in Fixture
    PROVE  s \notin todo
<1>1. CASE stage = "restore"
  <2>1. PICK i \in 1..11 : r = RestoreOrder[i] /\ \A j \in 1..i - 1 : RestoreOrder[j] \notin todo
    BY <1>1 DEF Cleaning, Order, RestoreOrder
  <2>2. \/ r = "rnet" /\ s \in {"rdb", "r-load", "r-schedules", "rapp", "link"}
        \/ r = "rvol" /\ s = "rdb"
        \/ r = "rapp" /\ s = "r-validate"
    <3>1. r \in RestoreNames /\ s \in RestoreNames
      BY <1>1, <2>1, Names DEF RestoreOrder, RestoreNames
    <3> QED
      BY <3>1, UsedBy DEF RestoreNames
  <2>3. (r = "rnet" => i = 10) /\ (r = "rvol" => i = 9) /\ (r = "rapp" => i = 3)
    BY <2>1 DEF RestoreOrder
  <2>4. /\ RestoreOrder[1] = "link" /\ RestoreOrder[2] = "r-validate" /\ RestoreOrder[3] = "rapp"
        /\ RestoreOrder[4] = "r-schedules" /\ RestoreOrder[5] = "r-load" /\ RestoreOrder[6] = "rdb"
    BY DEF RestoreOrder
  <2> HIDE DEF RestoreOrder
  <2> QED
    BY <2>1, <2>2, <2>3, <2>4
<1>2. CASE stage = "fixture"
  <2>1. /\ \A i \in 1..14 : FixtureOrder[i] = FixtureSteps[15 - i]
        /\ DOMAIN FixtureOrder = 1..14
    <3>1. Len(FixtureSteps) = 14
      BY DEF FixtureSteps
    <3>2. FixtureOrder = [i \in 1..14 |-> FixtureSteps[(14 - i) + 1]]
      BY <3>1 DEF FixtureOrder, Reverse
    <3>3. \A i \in 1..14 : (14 - i) + 1 = 15 - i
      OBVIOUS
    <3> QED
      BY <3>2, <3>3
  <2>2. PICK i \in 1..14 : r = FixtureOrder[i] /\ \A j \in 1..i - 1 : FixtureOrder[j] \notin todo
    BY <1>2, <2>1 DEF Cleaning, Order
  <2>3. PICK k \in 1..14 : r = FixtureSteps[k] /\ \A j \in k + 1..14 : FixtureSteps[j] \notin todo
    <3>1. r = FixtureSteps[15 - i]
      BY <2>1, <2>2
    <3>2. ASSUME NEW j \in (15 - i) + 1..14 PROVE FixtureSteps[j] \notin todo
      <4>1. 15 - j \in 1..i - 1 /\ 15 - j \in 1..14 /\ 15 - (15 - j) = j
        OBVIOUS
      <4> QED
        BY <2>1, <2>2, <4>1
    <3> QED
      BY <3>1, <3>2
  <2>4. \/ r = "fnet" /\ s \in {"target", "fapp", "samba", "fdb", "f-backup", "f-outage", "f-transfer"}
        \/ r = "dnet" /\ s \in {"denied", "f-oracle"}
        \/ r = "fvol" /\ s = "fdb"
        \/ r = "fapp" /\ s = "f-seed"
    BY <1>2, UsedBy, Names DEF FixtureNames
  <2>5. (r = "fnet" => k = 2) /\ (r = "dnet" => k = 3) /\ (r = "fvol" => k = 4) /\ (r = "fapp" => k = 9)
    BY <2>3 DEF FixtureSteps
  <2>6. /\ FixtureSteps[5] = "target" /\ FixtureSteps[6] = "denied" /\ FixtureSteps[7] = "f-oracle"
        /\ FixtureSteps[8] = "fdb" /\ FixtureSteps[9] = "fapp" /\ FixtureSteps[10] = "f-seed"
        /\ FixtureSteps[11] = "f-backup" /\ FixtureSteps[12] = "f-outage" /\ FixtureSteps[13] = "samba"
        /\ FixtureSteps[14] = "f-transfer"
    BY DEF FixtureSteps
  <2> QED
    BY <2>3, <2>4, <2>5, <2>6
<1> QED
  BY <1>1, <1>2 DEF Cleaning

StepNames == RestoreNames \cup FixtureNames \cup Checks

LEMMA OneBehindTheOther ==
    ASSUME NEW f \in Seq(StepNames), Len(f) = 14, NEW g \in Seq(StepNames), Len(g) = 15
    PROVE  /\ Len(f \o g) = 29
           /\ \A i \in 1..29 : (f \o g)[i] = IF i <= 14 THEN f[i] ELSE g[i - 14]
<1>1. /\ Len(f \o g) = Len(f) + Len(g)
      /\ \A i \in 1..Len(f) + Len(g) : (f \o g)[i] = IF i <= Len(f) THEN f[i] ELSE g[i - Len(f)]
  BY ConcatProperties
<1>2. Len(f) + Len(g) = 29
  OBVIOUS
<1>3. ASSUME NEW i \in 1..29 PROVE (f \o g)[i] = IF i <= 14 THEN f[i] ELSE g[i - 14]
  <2>1. i \in 1..Len(f) + Len(g)
    BY <1>2
  <2>2. (f \o g)[i] = IF i <= Len(f) THEN f[i] ELSE g[i - Len(f)]
    BY <1>1, <2>1
  <2> QED
    BY <2>2
<1> QED
  BY <1>1, <1>2, <1>3

LEMMA BodyShape ==
    ASSUME mode \in {"fixture", "attended"}
    PROVE  /\ Len(Body) = Offset + 15
           /\ \A i \in 1..Offset + 15 : Body[i] = IF i <= Offset THEN FixtureSteps[i] ELSE RestoreSteps[i - Offset]
<1>1. RestoreSteps \in Seq(StepNames) /\ Len(RestoreSteps) = 15
  <2>1. RestoreSteps = [i \in 1..15 |-> RestoreSteps[i]] /\ Len(RestoreSteps) = 15
    BY DEF RestoreSteps
  <2>2. \A i \in 1..15 : RestoreSteps[i] \in StepNames
    BY DEF RestoreSteps, StepNames, RestoreNames, Checks
  <2>3. RestoreSteps \in [1..15 -> StepNames]
    BY <2>1, <2>2
  <2> QED
    BY <2>1, <2>3, SeqDef
<1>2. FixtureSteps \in Seq(StepNames) /\ Len(FixtureSteps) = 14
  <2>1. FixtureSteps = [i \in 1..14 |-> FixtureSteps[i]] /\ Len(FixtureSteps) = 14
    BY DEF FixtureSteps
  <2>2. \A i \in 1..14 : FixtureSteps[i] \in StepNames
    BY DEF FixtureSteps, StepNames, FixtureNames
  <2>3. FixtureSteps \in [1..14 -> StepNames]
    BY <2>1, <2>2
  <2> QED
    BY <2>1, <2>3, SeqDef
<1>3. /\ Len(FixtureSteps \o RestoreSteps) = 29
      /\ \A i \in 1..29 : (FixtureSteps \o RestoreSteps)[i] = IF i <= 14 THEN FixtureSteps[i] ELSE RestoreSteps[i - 14]
  BY <1>1, <1>2, OneBehindTheOther
<1>4. CASE mode = "attended"
  BY <1>1, <1>4 DEF Body, FixtureBody, Offset
<1>5. CASE mode = "fixture"
  <2>1. Offset = 14 /\ Body = FixtureSteps \o RestoreSteps
    BY <1>5 DEF Body, FixtureBody, Offset
  <2>2. ASSUME NEW i \in 1..Offset + 15
        PROVE  Body[i] = IF i <= Offset THEN FixtureSteps[i] ELSE RestoreSteps[i - Offset]
    <3>1. i \in 1..29
      BY <2>1
    <3> QED
      BY <1>3, <2>1, <3>1
  <2>3. Len(Body) = Offset + 15
    BY <1>3, <2>1
  <2> QED
    BY <2>2, <2>3
<1> QED
  BY <1>4, <1>5

\* Where the body is, by its step.
LEMMA StepPlaces ==
    ASSUME mode \in {"fixture", "attended"}, at \in Nat \ {0}, NEW r, InBody(r)
    PROVE  /\ r \in Fixture => at <= Offset /\ mode = "fixture"
           /\ r \in (Restore \cup Checks) \ {"preflight"} => at > Offset + 1
           /\ r = "preflight" => at = Offset + 1
           /\ r = "dest" => at = Offset + 2
           /\ r = "isolated" <=> at = Offset + 7
           /\ r = "r-load" => at = Offset + 12
           /\ r = "r-schedules" <=> at = Offset + 13
           /\ r = "rapp" => at = Offset + 14
           /\ r \in Fixture \cup Restore \cup Checks
<1>1. at <= Offset + 15 /\ Offset \in {0, 14}
      /\ r = IF at <= Offset THEN FixtureSteps[at] ELSE RestoreSteps[at - Offset]
  <2>1. Offset \in {0, 14} /\ at <= Len(Body) /\ r = Body[at]
    BY DEF InBody, Offset
  <2>2. at \in 1..Offset + 15
    BY <2>1, BodyShape
  <2> QED
    BY <2>1, <2>2, BodyShape
<1>2. CASE at <= Offset
  <2>1. at \in 1..14 /\ r = FixtureSteps[at] /\ mode = "fixture" /\ Offset = 14
    BY <1>1, <1>2 DEF Offset
  <2>2. r \in FixtureNames
    BY <2>1 DEF FixtureSteps, FixtureNames
  <2> QED
    BY <1>2, <2>1, <2>2, Names DEF FixtureNames, RestoreNames, Checks
<1>3. CASE at > Offset
  <2>1. PICK k \in 1..15 : k = at - Offset /\ r = RestoreSteps[k]
    BY <1>1, <1>3
  <2>2. /\ r \in RestoreNames \cup Checks
        /\ r = "preflight" <=> k = 1
        /\ r = "dest" => k = 2
        /\ r = "isolated" <=> k = 7
        /\ r = "r-load" => k = 12
        /\ r = "r-schedules" <=> k = 13
        /\ r = "rapp" => k = 14
    BY <2>1 DEF RestoreSteps, RestoreNames, Checks
  <2>3. at = k + Offset
    BY <1>1, <2>1
  <2> QED
    BY <1>1, <1>3, <2>2, <2>3, Names DEF FixtureNames, RestoreNames, Checks
<1> QED
  BY <1>1, <1>2, <1>3

\* The interrupt between making the destination and remembering it.
Unremembered(r) ==
    /\ r = "dest" /\ r \notin others
    /\ made' = made \cup {r} /\ signal' = "mkdir" /\ primary' = TRUE
    /\ UNCHANGED <<recorded, linked, marked, schedules>>
    /\ Leaves(r)

\* What a step of the body does, whether it succeeds or fails.
LEMMA BodyTouches ==
    ASSUME DrillTypes, MadeIsRemembered, NEW r, InBody(r), Step(r) \/ Broken(r) \/ Unremembered(r)
    PROVE  /\ made' \subseteq made \cup {r} /\ "link" \notin made'
           /\ Left' \subseteq Left \cup {r}
           /\ r \in Checks => Left' = Left
           /\ r \in others => made' = made
           /\ recorded' \in {recorded, recorded \cup {r}}
           /\ r \in Checks => recorded' = recorded
           /\ Left \subseteq recorded /\ ~Unremembered(r) => Left' \subseteq recorded'
           /\ Left' \subseteq recorded' \cup {"dest"}
<1> USE DEF Left
<1>1. "link" \notin made
  BY DEF DrillTypes
<1>2. CASE Step(r)
  <2>1. /\ made' = made \cup Makes(r) /\ linked' = (linked \/ r = "link") /\ r \notin others
        /\ recorded' = IF r \in Checks \/ (r \in {"temp", "dest"} /\ r \notin made') THEN recorded ELSE recorded \cup {r}
    BY <1>2 DEF Step, Effects, Remember
  <2>2. Makes(r) \subseteq {r} \ {"link"} /\ (r \in Checks => Makes(r) = {}) /\ (r \in {"temp", "dest"} => Makes(r) = {r})
    BY DEF Makes, Checks, OneShots
  <2>3. ~Unremembered(r)
    BY <1>2 DEF Step, Unremembered, Leaves, InBody
  <2> QED
    BY <1>1, <2>1, <2>2 DEF MadeIsRemembered, Checks
<1>3. CASE Broken(r)
  <2>1. /\ recorded' = IF r \in Checks \/ (r \in {"temp", "dest"} /\ r \notin made') THEN recorded ELSE recorded \cup {r}
        /\ \/ made' = made /\ linked' = linked
           \/ /\ r \notin others /\ made' = made \cup Makes(r) \cup ({r} \cap OneShots)
              /\ linked' = (linked \/ r = "link")
           \/ r = "dest" /\ r \notin others /\ made' = made \cup {r} /\ linked' = linked
    BY <1>3 DEF Broken, Effects, Remember
  <2>2. /\ Makes(r) \cup ({r} \cap OneShots) \subseteq {r} \ {"link"}
        /\ r \in Checks => Makes(r) \cup ({r} \cap OneShots) = {}
    BY DEF Makes, Checks, OneShots
  <2>3. /\ made' \subseteq made \cup ({r} \ {"link"}) /\ (r \in Checks => made' = made) /\ (r \in others => made' = made)
    BY <2>1, <2>2 DEF Checks
  <2>6. (linked' => linked \/ r = "link") /\ (linked => linked')
    <3>1. linked' = linked \/ linked' = (linked \/ r = "link")
      BY <2>1
    <3>2. CASE linked' = linked
      BY <3>2
    <3>3. CASE linked' = (linked \/ r = "link")
      BY <3>3
    <3> QED
      BY <3>1, <3>2, <3>3
  <2>4. CASE r \in Checks \/ (r \in {"temp", "dest"} /\ r \notin made')
    <3>1. Left' \subseteq Left /\ recorded' = recorded /\ (r \in Checks => Left' = Left)
      BY <2>1, <2>3, <2>4, <2>6 DEF Checks
    <3> QED
      BY <1>1, <2>3, <3>1 DEF MadeIsRemembered
  <2>5. CASE ~(r \in Checks \/ (r \in {"temp", "dest"} /\ r \notin made'))
    <3>1. Left' \subseteq Left \cup {r} /\ recorded' = recorded \cup {r} /\ r \notin Checks
      BY <2>1, <2>3, <2>5, <2>6
    <3> QED
      BY <1>1, <2>3, <3>1 DEF MadeIsRemembered
  <2> QED
    BY <2>4, <2>5
<1>4. CASE Unremembered(r)
  BY <1>1, <1>4 DEF Unremembered, MadeIsRemembered, Checks
<1> QED
  BY <1>2, <1>3, <1>4

\* A step of a cleanup: what is there no more, what it reports, and that without a failed
\* command it only leaves a destination behind.
LEMMA CleanupTouches ==
    ASSUME DrillInv, NEW r, Cleaning(r), RemoveNext(r) \/ CannotRemove(r) \/ RemoveFails(r)
    PROVE  /\ made' \subseteq made /\ others' \subseteq others /\ Left' \subseteq Left
           /\ r \notin Left' \/ r \in failed'
           /\ failed \subseteq failed' /\ failed' \subseteq failed \cup {r}
           /\ UNCHANGED <<mode, at, recorded, internal, schedules, signal>>
           /\ Proceed(r, ReportsOf(failed'))
           /\ DOMAIN upsets' = DOMAIN upsets /\ upsets'.cleanup \in Nat
           /\ upsets'.cleanup = 0 /\ signal \notin {"mkdir", "cleanup"} =>
                upsets.cleanup = 0 /\ (r \notin Left' \/ r = "dest")
<1>1. "link" \notin made /\ upsets.cleanup \in Nat /\ DOMAIN upsets = {"body", "cleanup", "signals"}
  BY DEF DrillInv, DrillTypes
<1>2. Gone(r) => /\ made' \subseteq made /\ others' \subseteq others /\ Left' \subseteq Left /\ r \notin Left'
  BY <1>1 DEF Gone, Left
<1>3. CASE RemoveNext(r)
  <2>1. failed' = failed /\ upsets' = upsets /\ UNCHANGED <<mode, at, recorded, internal, schedules, signal>>
    BY <1>3 DEF RemoveNext
  <2>2. Proceed(r, ReportsOf(failed'))
    BY <1>3, <2>1 DEF RemoveNext
  <2>3. CASE Gone(r)
    BY <1>1, <1>2, <2>1, <2>2, <2>3
  <2>4. CASE ~Present(r) /\ r # "link" /\ UNCHANGED <<made, others, linked, marked>>
    BY <1>1, <2>1, <2>2, <2>4 DEF Present, Left
  <2> QED
    BY <1>3, <2>3, <2>4 DEF RemoveNext, Removable
<1>4. CASE CannotRemove(r)
  <2>1. /\ UNCHANGED <<mode, at, recorded, internal, schedules, signal, made, linked, others, upsets>>
        /\ failed' = failed \cup {r} /\ Proceed(r, ReportsOf(failed'))
        /\ IF Present(r) THEN ~Removable(r) ELSE r \in {"link", "dest"}
    BY <1>4 DEF CannotRemove
  <2>2. Left' = Left
    BY <2>1 DEF Left
  <2>3. ASSUME upsets.cleanup = 0, signal \notin {"mkdir", "cleanup"}, r \in Left, r # "dest"
        PROVE  FALSE
    <3>1. LeftIsToCome /\ r \in todo
      BY <2>3 DEF DrillInv, CleanupsAccount, Cleaning
    <3>2. Present(r)
      BY <1>1, <2>3 DEF Left, Present
    <3>3. r \notin others
      BY <1>1, <2>3 DEF DrillInv, DrillTypes, MadeIsRemembered, Left
    <3>4. InUse(r)
      BY <2>1, <2>3, <3>2, <3>3 DEF Removable, Owned
    <3>5. PICK s \in Left : r \in Uses(s) \/ (r = "rnet" /\ s = "link")
      BY <3>4 DEF InUse, Left
    <3>6. s # "dest" /\ s \in Restore \cup Fixture
      BY <3>5, UsedBy, Names DEF RestoreNames, FixtureNames
    <3>7. CASE stage = "restore"
      <4>1. r \in Restore
        BY <3>1, <3>7 DEF DrillInv, DrillTypes
      <4>2. s \in Restore
        BY <3>5, <4>1, UsedBy, Names DEF RestoreNames, FixtureNames
      <4>3. s \in todo
        BY <3>1, <3>5, <3>6, <3>7, <4>2 DEF LeftIsToCome
      <4> QED
        BY <3>5, <3>7, <4>2, <4>3, UsersComeFirst
    <3>8. CASE stage = "fixture"
      <4>1. s \in todo /\ todo \subseteq Fixture
        BY <3>1, <3>5, <3>6, <3>8 DEF LeftIsToCome, DrillInv, DrillTypes
      <4> QED
        BY <3>5, <3>8, <4>1, UsersComeFirst
    <3> QED
      BY <3>7, <3>8 DEF Cleaning
  <2> QED
    BY <1>1, <2>1, <2>2, <2>3
<1>5. CASE RemoveFails(r)
  <2>1. /\ UNCHANGED <<mode, at, recorded, internal, schedules, signal>>
        /\ failed' = failed \cup {r} /\ Proceed(r, ReportsOf(failed'))
        /\ upsets' = [upsets EXCEPT !.cleanup = @ + 1]
    BY <1>5 DEF RemoveFails
  <2>2. DOMAIN upsets' = DOMAIN upsets /\ upsets'.cleanup = upsets.cleanup + 1
    BY <1>1, <2>1
  <2>3. Gone(r) \/ UNCHANGED <<made, others, linked>>
    BY <1>5 DEF RemoveFails
  <2>4. made' \subseteq made /\ others' \subseteq others /\ Left' \subseteq Left
    BY <1>2, <2>3 DEF Left
  <2> QED
    BY <1>1, <2>1, <2>2, <2>4
<1> QED
  BY <1>3, <1>4, <1>5

\* A step that leaves the body enters a cleanup, or ends an attended run before anything
\* was made.
LEMMA LeavingKeeps ==
    ASSUME DrillInv, NEW r, stage = "body", Leaves(r),
           UNCHANGED <<mode, failed>>, upsets'.cleanup = 0,
           made' \subseteq (Restore \cup Fixture) \ {"link"},
           signal' # "mkdir" => Left' \subseteq recorded',
           r \in Fixture \cup {"preflight"} => Left' \cap Restore = {},
           r = "preflight" => Left' = Left,
           r \in Fixture => mode = "fixture",
           r \in Restore \cup Fixture \cup Checks \cup {"end"}
    PROVE  /\ CleanupsAccount' /\ ReportsFollow'
           /\ stage' \in {"restore", "fixture", "over"} /\ todo' \subseteq recorded'
           /\ (result = "none") = (stage # "over") => (result' = "none") = (stage' # "over")
           /\ stage' = "fixture" => mode = "fixture" /\ todo' \subseteq Fixture
           /\ stage' = "restore" => todo' \subseteq Restore
<1>1. Left' \subseteq Restore \cup Fixture
  BY Names DEF Left, RestoreNames
<1>2. /\ failed = {} /\ result = "none" /\ (mode = "attended" => Left \cap Fixture = {})
      /\ mode \in {"fixture", "attended"}
  BY DEF DrillInv, DrillTypes, BodyFollows
<1>3. CASE stage' = "restore"
  <2>1. todo' = recorded' \cap Restore /\ result' = result
    BY <1>3 DEF Leaves, RestoreCleanup
  <2> QED
    BY <1>1, <1>2, <1>3, <2>1 DEF CleanupsAccount, LeftIsAccounted, LeftIsToCome, ReportsFollow
<1>4. CASE stage' = "fixture"
  <2>1. todo' = recorded' \cap Fixture /\ result' = result /\ mode = "fixture" /\ r \in Fixture \cup {"preflight"}
    BY <1>4, Names DEF Leaves, FixtureCleanup, RestoreNames, FixtureNames, Checks
  <2> QED
    BY <1>1, <1>2, <1>4, <2>1 DEF CleanupsAccount, LeftIsAccounted, LeftIsToCome, ReportsFollow
<1>5. CASE stage' = "over"
  <2>1. todo' = {} /\ result' = "refused" /\ r \in Fixture \cup {"preflight"} /\ mode = "attended"
    BY <1>2, <1>5 DEF Leaves, Checks
  <2>2. Left' = {}
    BY <1>1, <1>2, <2>1, Names DEF DrillInv, DrillTypes
  <2> QED
    BY <1>2, <1>5, <2>1, <2>2 DEF CleanupsAccount, LeftIsAccounted, LeftIsToCome, ReportsFollow
<1> QED
  BY <1>3, <1>4, <1>5 DEF Leaves

\* A step of a cleanup goes on to the next name, to the cleanup around it, or to the end.
LEMMA CleaningKeeps ==
    ASSUME DrillInv, NEW r, Cleaning(r), Proceed(r, ReportsOf(failed')),
           UNCHANGED <<mode, recorded, signal>>, made' \subseteq made, Left' \subseteq Left,
           r \notin Left' \/ r \in failed', failed \subseteq failed', failed' \subseteq failed \cup {r},
           upsets'.cleanup = 0 /\ signal \notin {"mkdir", "cleanup"} =>
                upsets.cleanup = 0 /\ (r \notin Left' \/ r = "dest")
    PROVE  /\ CleanupsAccount' /\ ReportsFollow'
           /\ stage' \in {"restore", "fixture", "over"} /\ todo' \subseteq recorded'
           /\ (result = "none") = (stage # "over") => (result' = "none") = (stage' # "over")
           /\ stage' = "fixture" => mode = "fixture" /\ todo' \subseteq Fixture
           /\ stage' = "restore" => todo' \cup failed' \subseteq Restore
           /\ primary => primary'
<1>1. /\ Left \subseteq Restore \cup Fixture /\ Restore \cap Fixture = {}
      /\ mode \in {"fixture", "attended"} /\ r \in todo /\ stage \in {"restore", "fixture"}
  BY Names DEF DrillInv, DrillTypes, Left, Cleaning, RestoreNames, FixtureNames
<1>2. DrillTypes /\ CleanupsAccount /\ ReportsFollow /\ MadeIsRemembered
  BY DEF DrillInv
<1>3. mode = "attended" => Left \cap Fixture = {}
  BY DEF DrillInv, BodyFollows
<1>4. failed' \subseteq Restore \cup Fixture /\ r \in Restore \cup Fixture
  BY <1>1, <1>2 DEF DrillTypes
<1> USE DEF CleanupsAccount, LeftIsAccounted, LeftIsToCome, ReportsFollow, DrillTypes
<1>5. CASE todo # {r}
  <2>1. todo' = todo \ {r} /\ UNCHANGED <<stage, primary, result>>
    BY <1>5 DEF Proceed
  <2> QED
    BY <1>1, <1>2, <1>4, <1>5, <2>1
<1>6. CASE todo = {r} /\ stage = "restore" /\ mode = "fixture"
  <2>1. stage' = "fixture" /\ todo' = recorded \cap Fixture /\ result' = result
    BY <1>6 DEF Proceed, Cleaned, FixtureCleanup
  <2>2. primary' = (primary \/ failed' \cap Restore # {})
    BY <1>6 DEF Proceed, Cleaned, ReportsOf
  <2>3. failed' \subseteq Restore /\ (~primary' => failed' \cap Restore = {}) /\ (primary => primary')
    BY <1>2, <1>6, <2>2
  <2> QED
    BY <1>1, <1>2, <1>6, <2>1, <2>3 DEF MadeIsRemembered
<1>7. CASE todo = {r} /\ ~(stage = "restore" /\ mode = "fixture")
  <2>1. /\ stage' = "over" /\ todo' = {} /\ primary' = primary
        /\ result' = IF primary \/ ReportsOf(failed') # {} THEN "refused" ELSE "accepted"
    BY <1>7 DEF Proceed, Cleaned
  <2>2. result' = "accepted" => ~primary /\ failed' = {}
    BY <1>1, <1>2, <1>4, <1>7, <2>1 DEF ReportsOf
  <2>3. signal \notin {"mkdir", "cleanup"} => Left' \subseteq failed' /\ (upsets'.cleanup = 0 => Left' \subseteq {"dest"})
    BY <1>1, <1>2, <1>3, <1>7
  <2> QED
    BY <1>1, <1>2, <2>1, <2>2, <2>3
<1> QED
  BY <1>5, <1>6, <1>7

LEMMA DrillStarts == DrillInit => DrillInv
<1> SUFFICES ASSUME DrillInit PROVE DrillInv
  OBVIOUS
<1>1. /\ made = {} /\ linked = FALSE /\ recorded = {} /\ todo = {} /\ failed = {} /\ stage = "body" /\ at = 1
      /\ primary = FALSE /\ signal = "no" /\ result = "none" /\ mode \in {"fixture", "attended"}
      /\ others \subseteq {"rvol", "rdb", "dest"} /\ upsets = [body |-> 0, cleanup |-> 0, signals |-> 0]
  BY DEF DrillInit
<1>2. Left = {} /\ Offset \in {0, 14}
  BY <1>1 DEF Left, Offset
<1>3. DrillTypes
  BY <1>1 DEF DrillTypes
<1>4. MadeIsRemembered
  BY <1>1, <1>2 DEF MadeIsRemembered
<1>5. BodyFollows
  BY <1>1, <1>2 DEF BodyFollows
<1>6. CleanupsAccount /\ ReportsFollow /\ RestoredIsInert
  BY <1>1 DEF CleanupsAccount, LeftIsAccounted, LeftIsToCome, ReportsFollow, RestoredIsInert
<1> QED
  BY <1>3, <1>4, <1>5, <1>6 DEF DrillInv

\* The body, step by step.
LEMMA StepKeepsDrill ==
    ASSUME DrillInv, NEW r, Step(r)
    PROVE  DrillInv'
<1>1. /\ InBody(r) /\ stage = "body" /\ at' = at + 1 /\ r \notin others /\ (r = "isolated" => internal)
      /\ UNCHANGED <<mode, stage, todo, others, internal, failed, primary, signal, result, upsets>>
      /\ schedules' = CASE r = "r-load" -> "active" [] r = "r-schedules" -> "off" [] OTHER -> schedules
  BY DEF Step, Effects, InBody
<1>2. DrillTypes /\ MadeIsRemembered /\ BodyFollows /\ CleanupsAccount /\ ReportsFollow /\ RestoredIsInert
  BY DEF DrillInv
<1>3. /\ made' \subseteq made \cup {r} /\ "link" \notin made' /\ Left' \subseteq Left \cup {r}
      /\ r \in Checks => Left' = Left
      /\ recorded' \in {recorded, recorded \cup {r}} /\ (r \in Checks => recorded' = recorded)
      /\ signal = "no" => Left' \subseteq recorded'
  <2>1. ~Unremembered(r)
    BY <1>1 DEF Unremembered, Leaves
  <2> QED
    BY <1>1, <1>2, <2>1, BodyTouches DEF MadeIsRemembered
<1>4. /\ Offset' = Offset /\ Offset \in {0, 14} /\ at \in Nat \ {0}
      /\ r \in Fixture => at <= Offset /\ mode = "fixture"
      /\ r \in (Restore \cup Checks) \ {"preflight"} => at > Offset + 1
      /\ r = "preflight" => at = Offset + 1
      /\ r = "isolated" <=> at = Offset + 7
      /\ r = "r-load" => at = Offset + 12
      /\ r = "r-schedules" <=> at = Offset + 13
      /\ r = "rapp" => at = Offset + 14
      /\ r \in Fixture \cup Restore \cup Checks
  BY <1>1, <1>2, StepPlaces DEF DrillTypes, Offset
<1>5. signal = "no" /\ failed = {} /\ ~primary
  BY <1>1, <1>2 DEF BodyFollows
<1>6. /\ Restore \cap Fixture = {} /\ Checks \cap (Restore \cup Fixture) = {} /\ "link" \in Restore
      /\ "preflight" \in Checks
  BY Names DEF RestoreNames, FixtureNames, Checks
<1>7. DrillTypes'
  <2>1. recorded' \subseteq Restore \cup Fixture /\ made' \subseteq (Restore \cup Fixture) \ {"link"}
    <3>1. r \in Checks => made' = made
      BY <1>2, <1>3 DEF Left, DrillTypes, Checks
    <3> QED
      BY <1>2, <1>3, <1>4, <3>1 DEF DrillTypes
  <2> QED
    BY <1>1, <1>2, <1>3, <2>1 DEF DrillTypes
<1>8. MadeIsRemembered'
  BY <1>1, <1>2, <1>3, <1>5 DEF MadeIsRemembered
<1>9. RestoredIsInert' /\ BodyFollows'
  <2>1. "rapp" \in made' => "rapp" \in made \/ r = "rapp"
    BY <1>3
  <2>2. at' <= Offset + 2 => Left' \cap Restore = {}
    <3>1. at' <= Offset + 2 => at <= Offset + 1
      BY <1>1, <1>4 DEF DrillTypes
    <3>2. at <= Offset + 1 => r \in Fixture \cup {"preflight"} /\ Left \cap Restore = {}
      BY <1>1, <1>2, <1>4 DEF BodyFollows
    <3> QED
      BY <1>3, <1>6, <3>1, <3>2
  <2>3. mode = "attended" => Left' \cap Fixture = {}
    BY <1>2, <1>3, <1>4, <1>6 DEF BodyFollows
  <2>4. at' > Offset + 7 => internal'
    BY <1>1, <1>2, <1>4 DEF BodyFollows
  <2>5. at' > Offset + 13 => schedules' = "off"
    BY <1>1, <1>2, <1>4 DEF BodyFollows
  <2>6. at' <= Offset + 14 => "rapp" \notin made'
    BY <1>1, <1>2, <1>4, <2>1 DEF BodyFollows
  <2>7. BodyFollows'
    BY <1>1, <1>2, <1>4, <2>2, <2>3, <2>4, <2>5, <2>6 DEF BodyFollows
  <2>8. "rapp" \in made' => internal' /\ schedules' = "off"
    BY <1>1, <1>4, <2>1, <2>4, <2>5, <2>6
  <2> QED
    BY <2>7, <2>8 DEF RestoredIsInert
<1>10. CleanupsAccount' /\ ReportsFollow'
  BY <1>1, <1>2 DEF CleanupsAccount, LeftIsAccounted, LeftIsToCome, ReportsFollow, DrillTypes
<1> QED
  BY <1>7, <1>8, <1>9, <1>10 DEF DrillInv

LEMMA FailureKeepsDrill ==
    ASSUME DrillInv, NEW r, InBody(r), (Broken(r) /\ signal' # "mkdir") \/ Unremembered(r),
           UNCHANGED <<mode, at, others, internal, failed>>,
           DOMAIN upsets' = DOMAIN upsets, upsets'.cleanup = upsets.cleanup
    PROVE  DrillInv'
<1>1. stage = "body" /\ primary' = TRUE /\ Leaves(r)
  BY DEF InBody, Broken, Unremembered
<1>2. DrillTypes /\ MadeIsRemembered /\ BodyFollows /\ CleanupsAccount /\ ReportsFollow /\ RestoredIsInert
  BY DEF DrillInv
<1>3. /\ made' \subseteq made \cup {r} /\ "link" \notin made' /\ Left' \subseteq Left \cup {r}
      /\ r \in Checks => Left' = Left
      /\ r \in others => made' = made
      /\ recorded' \in {recorded, recorded \cup {r}} /\ (r \in Checks => recorded' = recorded)
      /\ signal' # "mkdir" => Left' \subseteq recorded'
      /\ Left' \subseteq recorded' \cup {"dest"}
  <2>1. signal = "no" /\ (signal' # "mkdir" => ~Unremembered(r))
    BY <1>1, <1>2 DEF BodyFollows, Unremembered
  <2> QED
    BY <1>2, <2>1, BodyTouches DEF MadeIsRemembered
<1>4. /\ Offset' = Offset /\ Offset \in {0, 14} /\ at \in Nat \ {0}
      /\ r \in Fixture => at <= Offset /\ mode = "fixture"
      /\ r \in (Restore \cup Checks) \ {"preflight"} => at > Offset + 1
      /\ r = "preflight" => at = Offset + 1
      /\ r = "r-load" => at = Offset + 12
      /\ r = "rapp" => at = Offset + 14
      /\ r \in Fixture \cup Restore \cup Checks
  BY <1>2, StepPlaces DEF DrillTypes, Offset
<1>5. Restore \cap Fixture = {} /\ Checks \cap (Restore \cup Fixture) = {} /\ "preflight" \in Checks
  BY Names DEF RestoreNames, FixtureNames, Checks
<1>6. recorded' \subseteq Restore \cup Fixture /\ made' \subseteq (Restore \cup Fixture) \ {"link"}
  <2>1. r \in Checks => made' = made
    BY <1>2, <1>3 DEF Left, DrillTypes, Checks
  <2> QED
    BY <1>2, <1>3, <1>4, <2>1 DEF DrillTypes
<1>7. upsets'.cleanup = 0 /\ failed = {}
  BY <1>1, <1>2 DEF BodyFollows
<1>8. r \in Fixture \cup {"preflight"} => Left' \cap Restore = {}
  BY <1>1, <1>2, <1>3, <1>4, <1>5 DEF BodyFollows
<1>9. /\ CleanupsAccount' /\ ReportsFollow'
      /\ stage' \in {"restore", "fixture", "over"} /\ todo' \subseteq recorded'
      /\ (result' = "none") = (stage' # "over")
      /\ stage' = "fixture" => mode = "fixture" /\ todo' \subseteq Fixture
      /\ stage' = "restore" => todo' \subseteq Restore
  BY <1>1, <1>2, <1>3, <1>4, <1>5, <1>6, <1>7, <1>8, LeavingKeeps DEF DrillTypes
<1>10. DrillTypes'
  BY <1>2, <1>4, <1>6, <1>7, <1>9 DEF DrillTypes
<1>11. MadeIsRemembered'
  BY <1>2, <1>3 DEF MadeIsRemembered
<1>12. BodyFollows'
  <2>1. mode = "attended" => Left' \cap Fixture = {}
    BY <1>2, <1>3, <1>4, <1>5 DEF BodyFollows
  <2> QED
    BY <1>1, <1>9, <2>1 DEF BodyFollows
<1>13. RestoredIsInert'
  <2>1. schedules' = schedules \/ r \in {"r-load", "r-schedules"}
    BY DEF Broken, Unremembered, Effects
  <2>2. CASE r = "rapp"
    BY <1>1, <1>2, <1>4, <2>1, <2>2 DEF BodyFollows, RestoredIsInert
  <2>3. CASE r # "rapp" /\ "rapp" \in made
    <3>1. at > Offset + 14
      BY <1>1, <1>2, <1>4, <2>3 DEF BodyFollows
    <3>2. r # "r-load" /\ r # "r-schedules"
      BY <1>4, <3>1, StepPlaces, <1>2 DEF DrillTypes
    <3> QED
      BY <1>2, <2>1, <2>3, <3>2 DEF RestoredIsInert
  <2> QED
    BY <1>3, <2>2, <2>3 DEF RestoredIsInert
<1> QED
  BY <1>9, <1>10, <1>11, <1>12, <1>13 DEF DrillInv

\* Without a change of place, only what is there can become less.
LEMMA LessKeepsDrill ==
    ASSUME DrillInv, made' \subseteq made, Left' \subseteq Left,
           UNCHANGED <<mode, stage, at, todo, recorded, others, internal, schedules, failed, primary, signal, result, upsets>>
    PROVE  DrillInv'
BY DEF DrillInv, DrillTypes, MadeIsRemembered, BodyFollows, CleanupsAccount, LeftIsAccounted, LeftIsToCome, ReportsFollow,
   RestoredIsInert, Offset

LEMMA CleanupKeepsDrill ==
    ASSUME DrillInv, NEW r, Cleaning(r), RemoveNext(r) \/ CannotRemove(r) \/ RemoveFails(r)
    PROVE  DrillInv'
<1>1. DrillTypes /\ MadeIsRemembered /\ BodyFollows /\ RestoredIsInert
  BY DEF DrillInv
<1>2. /\ made' \subseteq made /\ others' \subseteq others /\ Left' \subseteq Left
      /\ r \notin Left' \/ r \in failed'
      /\ failed \subseteq failed' /\ failed' \subseteq failed \cup {r}
      /\ UNCHANGED <<mode, at, recorded, internal, schedules, signal>>
      /\ Proceed(r, ReportsOf(failed'))
      /\ DOMAIN upsets' = DOMAIN upsets /\ upsets'.cleanup \in Nat
      /\ upsets'.cleanup = 0 /\ signal \notin {"mkdir", "cleanup"} =>
           upsets.cleanup = 0 /\ (r \notin Left' \/ r = "dest")
  BY CleanupTouches
<1>3. /\ CleanupsAccount' /\ ReportsFollow'
      /\ stage' \in {"restore", "fixture", "over"} /\ todo' \subseteq recorded'
      /\ (result' = "none") = (stage' # "over")
      /\ stage' = "fixture" => mode = "fixture" /\ todo' \subseteq Fixture
      /\ stage' = "restore" => todo' \cup failed' \subseteq Restore
      /\ primary => primary'
  BY <1>1, <1>2, CleaningKeeps DEF DrillTypes
<1>4. r \in recorded
  BY <1>1 DEF DrillTypes, Cleaning
<1>5. DrillTypes'
  BY <1>1, <1>2, <1>3, <1>4 DEF DrillTypes
<1>6. MadeIsRemembered' /\ BodyFollows' /\ RestoredIsInert'
  BY <1>1, <1>2, <1>3 DEF MadeIsRemembered, BodyFollows, RestoredIsInert, Offset
<1> QED
  BY <1>3, <1>5, <1>6 DEF DrillInv

LEMMA DrillKeeps == ASSUME DrillInv, [DrillNext]_drillVars PROVE DrillInv'
<1>1. DrillTypes /\ MadeIsRemembered /\ BodyFollows /\ CleanupsAccount /\ ReportsFollow /\ RestoredIsInert
  BY DEF DrillInv
<1>2. /\ Restore \cap Fixture = {} /\ "temp" \in Fixture
      /\ Left \subseteq Restore \cup Fixture
      /\ upsets.cleanup \in Nat /\ DOMAIN upsets = {"body", "cleanup", "signals"}
  BY <1>1, Names DEF Left, DrillTypes, RestoreNames, FixtureNames
<1>3. ASSUME NEW r, StepFails(r) PROVE DrillInv'
  <2>1. InBody(r) /\ Broken(r) /\ UNCHANGED <<mode, at, others, internal, failed, signal>>
    BY <1>3 DEF StepFails
  <2>2. upsets' = upsets \/ upsets' = [upsets EXCEPT !.body = @ + 1]
    BY <1>3 DEF StepFails
  <2>3. DOMAIN upsets' = DOMAIN upsets /\ upsets'.cleanup = upsets.cleanup
    BY <1>2, <2>2
  <2>4. signal' # "mkdir"
    BY <1>1, <2>1 DEF BodyFollows, InBody
  <2> QED
    BY <2>1, <2>3, <2>4, FailureKeepsDrill
<1>4. CASE InterruptBody
  <2>1. PICK r : /\ InBody(r) /\ ((Broken(r) /\ signal' = "body") \/ Unremembered(r))
                 /\ UNCHANGED <<mode, at, others, internal, failed>>
                 /\ upsets' = [upsets EXCEPT !.signals = @ + 1]
    BY <1>4 DEF InterruptBody, InBody, Unremembered
  <2>2. DOMAIN upsets' = DOMAIN upsets /\ upsets'.cleanup = upsets.cleanup
    BY <1>2, <2>1
  <2> QED
    BY <2>1, <2>2, FailureKeepsDrill
<1>5. CASE BodyEnds
  <2>1. /\ stage = "body" /\ Leaves("end")
        /\ UNCHANGED <<mode, at, recorded, made, others, linked, internal, marked, schedules, failed, primary, signal, upsets>>
    BY <1>5 DEF BodyEnds
  <2>2. Left' = Left /\ Offset' = Offset
    BY <2>1 DEF Left, Offset
  <2>3. "end" \notin Fixture \cup {"preflight"}
    BY Names DEF FixtureNames
  <2>4. /\ CleanupsAccount' /\ ReportsFollow'
        /\ stage' \in {"restore", "fixture", "over"} /\ todo' \subseteq recorded'
        /\ (result' = "none") = (stage' # "over")
        /\ stage' = "fixture" => mode = "fixture" /\ todo' \subseteq Fixture
        /\ stage' = "restore" => todo' \subseteq Restore
    BY <1>1, <2>1, <2>2, <2>3, LeavingKeeps DEF DrillTypes, BodyFollows, MadeIsRemembered
  <2>5. DrillTypes'
    BY <1>1, <2>1, <2>4 DEF DrillTypes, BodyFollows
  <2> QED
    BY <1>1, <2>1, <2>2, <2>4, <2>5 DEF DrillInv, MadeIsRemembered, BodyFollows, RestoredIsInert
<1>6. CASE NotInternal
  <2>1. /\ InBody("isolated") /\ upsets' = [upsets EXCEPT !.body = @ + 1]
        /\ UNCHANGED <<mode, stage, at, todo, recorded, made, others, linked, marked, schedules, failed, primary, signal, result>>
    BY <1>6 DEF NotInternal
  <2>2. DOMAIN upsets' = DOMAIN upsets /\ upsets'.cleanup = upsets.cleanup
    BY <1>2, <2>1
  <2>3. Left' = Left /\ Offset' = Offset
    BY <2>1 DEF Left, Offset
  <2>4. stage = "body" /\ at = Offset + 7 /\ Offset \in {0, 14}
    BY <1>1, <2>1, StepPlaces DEF DrillTypes, InBody, Offset
  <2>5. "rapp" \notin made
    BY <1>1, <2>4 DEF BodyFollows
  <2>6. BodyFollows' /\ RestoredIsInert'
    BY <1>1, <2>1, <2>2, <2>3, <2>4, <2>5 DEF BodyFollows, RestoredIsInert
  <2>7. DrillTypes'
    BY <1>1, <2>1, <2>2 DEF DrillTypes
  <2> QED
    BY <1>1, <2>1, <2>2, <2>3, <2>6, <2>7 DEF DrillInv, MadeIsRemembered, CleanupsAccount,
       LeftIsAccounted, LeftIsToCome, ReportsFollow
<1>7. ASSUME NEW r, RemoveNext(r) \/ CannotRemove(r) \/ RemoveFails(r) PROVE DrillInv'
  BY <1>7, CleanupKeepsDrill DEF RemoveNext, CannotRemove, RemoveFails
<1>8. ASSUME NEW r, InterruptCleanup(r) PROVE DrillInv'
  <2>1. /\ upsets' = [upsets EXCEPT !.signals = @ + 1] /\ signal' = "cleanup" /\ primary' = TRUE
        /\ UNCHANGED <<mode, at, recorded, internal, schedules, failed>>
        /\ Gone(r) \/ UNCHANGED <<made, others, linked, marked>>
        /\ stage \in {"restore", "fixture"}
    BY <1>8 DEF InterruptCleanup, Cleaning
  <2>2. DOMAIN upsets' = DOMAIN upsets /\ upsets'.cleanup = upsets.cleanup
    BY <1>2, <2>1
  <2>3. made' \subseteq made /\ others' \subseteq others /\ Left' \subseteq Left /\ Offset' = Offset
    <3>1. CASE Gone(r)
      <4>1. made' \subseteq made /\ others' \subseteq others /\ (linked' => linked)
        BY <3>1 DEF Gone
      <4> QED
        BY <2>1, <4>1 DEF Left, Offset
    <3>2. CASE UNCHANGED <<made, others, linked, marked>>
      BY <2>1, <3>2 DEF Left, Offset
    <3> QED
      BY <2>1, <3>1, <3>2
  <2>4. \/ stage = "restore" /\ mode = "fixture" /\ stage' = "fixture" /\ todo' = recorded \cap Fixture /\ result' = result
        \/ stage' = "over" /\ todo' = {} /\ result' = "interrupted"
    BY <1>8 DEF InterruptCleanup, FixtureCleanup
  <2>5. DrillTypes'
    BY <1>1, <2>1, <2>2, <2>3, <2>4 DEF DrillTypes
  <2>6. ReportsFollow'
    BY <1>1, <1>2, <2>1, <2>4 DEF ReportsFollow, DrillTypes
  <2> QED
    <3>1. MadeIsRemembered' /\ RestoredIsInert'
      BY <1>1, <2>1, <2>3, <2>4 DEF MadeIsRemembered, RestoredIsInert
    <3>2. BodyFollows'
      BY <1>1, <2>1, <2>3, <2>4 DEF BodyFollows
    <3>3. CleanupsAccount'
      BY <2>1 DEF CleanupsAccount
    <3> QED
      BY <2>5, <2>6, <3>1, <3>2, <3>3 DEF DrillInv
<1>9. CASE TempFails \/ KillDrill
  <2>1. /\ stage' = "over" /\ todo' = {} /\ result' \in {"crashed", "killed"} /\ stage # "over"
        /\ UNCHANGED <<mode, at, recorded, made, others, linked, internal, schedules, failed, primary, signal>>
        /\ upsets' = upsets \/ (upsets' = [upsets EXCEPT !.cleanup = @ + 1] /\ stage # "body")
    BY <1>9 DEF TempFails, KillDrill, Cleaning
  <2>2. DOMAIN upsets' = DOMAIN upsets /\ upsets'.cleanup \in Nat
    BY <1>2, <2>1
  <2>3. Left' = Left /\ Offset' = Offset
    BY <2>1 DEF Left, Offset
  <2>4. DrillTypes'
    BY <1>1, <2>1, <2>2 DEF DrillTypes
  <2> QED
    BY <1>1, <2>1, <2>3, <2>4 DEF DrillInv, MadeIsRemembered, BodyFollows, CleanupsAccount, LeftIsAccounted,
       LeftIsToCome, ReportsFollow, RestoredIsInert
<1>10. CASE NothingToClean
  <2>1. /\ stage \in {"restore", "fixture"} /\ todo = {} /\ Cleaned({})
        /\ UNCHANGED <<mode, at, recorded, made, others, linked, internal, marked, schedules, failed, signal, upsets>>
    BY <1>10 DEF NothingToClean
  <2>2. Left' = Left /\ Offset' = Offset
    BY <2>1 DEF Left, Offset
  <2>3. \/ /\ stage = "restore" /\ mode = "fixture" /\ stage' = "fixture" /\ todo' = recorded \cap Fixture
           /\ result' = result /\ (primary <=> primary')
        \/ /\ ~(stage = "restore" /\ mode = "fixture") /\ stage' = "over" /\ todo' = {} /\ primary' = primary
           /\ result' = IF primary THEN "refused" ELSE "accepted"
    BY <2>1 DEF Cleaned, FixtureCleanup
  <2>4. DrillTypes'
    BY <1>1, <2>1, <2>3 DEF DrillTypes
  <2>5. MadeIsRemembered' /\ BodyFollows' /\ RestoredIsInert'
    BY <1>1, <2>1, <2>2, <2>3 DEF MadeIsRemembered, BodyFollows, RestoredIsInert
  <2>6. ReportsFollow'
    BY <1>1, <1>2, <2>1, <2>3 DEF ReportsFollow, DrillTypes
  <2>7. CleanupsAccount'
    BY <1>1, <1>2, <2>1, <2>2, <2>3 DEF CleanupsAccount, LeftIsAccounted, LeftIsToCome, DrillTypes, MadeIsRemembered,
       BodyFollows
  <2> QED
    BY <2>4, <2>5, <2>6, <2>7 DEF DrillInv
<1>11. ASSUME NEW r, OneShotEnds(r) PROVE DrillInv'
  <2>1. made' \subseteq made /\ Left' \subseteq Left
    BY <1>11 DEF OneShotEnds, Left
  <2> QED
    BY <1>11, <2>1, LessKeepsDrill DEF OneShotEnds
<1>12. CASE DestinationTaken
  <2>1. /\ InBody("dest") /\ others' = {"dest"}
        /\ UNCHANGED <<mode, stage, at, todo, recorded, made, linked, internal, marked, schedules, failed, primary, signal,
                       result, upsets>>
    BY <1>12 DEF DestinationTaken
  <2>2. stage = "body" /\ at = Offset + 2 /\ Offset \in {0, 14} /\ "dest" \in Restore
    BY <1>1, <2>1, StepPlaces, Names DEF DrillTypes, InBody, Offset, RestoreNames
  <2>3. "dest" \notin made
    BY <1>1, <2>2 DEF BodyFollows, Left
  <2>4. Left' = Left /\ Offset' = Offset
    BY <2>1 DEF Left, Offset
  <2>5. DrillTypes' /\ MadeIsRemembered'
    BY <1>1, <2>1, <2>3, <2>4 DEF DrillTypes, MadeIsRemembered
  <2> QED
    BY <1>1, <2>1, <2>4, <2>5 DEF DrillInv, BodyFollows, CleanupsAccount, LeftIsAccounted, LeftIsToCome, ReportsFollow,
       RestoredIsInert
<1>13. CASE UNCHANGED drillVars
  BY <1>13, LessKeepsDrill DEF drillVars, Left
<1> QED
  BY <1>3, <1>4, <1>5, <1>6, <1>7, <1>8, <1>9, <1>10, <1>11, <1>12, <1>13, StepKeepsDrill DEF DrillNext

LEMMA DrillTyped == DrillInv => DrillTypeOK
BY Names DEF DrillInv, DrillTypes, DrillTypeOK, RestoreNames, FixtureNames, Checks

LEMMA DrillReports == DrillInv => ReportsLeftovers
<1> SUFFICES ASSUME DrillInv PROVE ReportsLeftovers
  OBVIOUS
<1>1. DrillTypes /\ BodyFollows /\ CleanupsAccount /\ ReportsFollow
  BY DEF DrillInv
<1>2. result = "accepted" => Left = {} /\ ~primary
  BY <1>1 DEF BodyFollows, CleanupsAccount, LeftIsAccounted, ReportsFollow
<1> QED
  BY <1>1, <1>2 DEF ReportsLeftovers, CleanupsAccount, LeftIsAccounted, LeftIsToCome

\* Strangers keep what is theirs.
LEMMA StrangersStay == ASSUME [DrillNext]_drillVars PROVE others \subseteq others'
<1>1. \A r : Removable(r) /\ Gone(r) => others \subseteq others'
  BY DEF Removable, Owned, Gone
<1>2. ASSUME NEW r, RemoveNext(r) \/ CannotRemove(r) \/ RemoveFails(r) \/ InterruptCleanup(r) PROVE others \subseteq others'
  BY <1>1, <1>2 DEF RemoveNext, CannotRemove, RemoveFails, InterruptCleanup
<1>3. ASSUME NEW r, Step(r) \/ StepFails(r) \/ OneShotEnds(r) PROVE others \subseteq others'
  BY <1>3 DEF Step, StepFails, OneShotEnds
<1>4. CASE BodyEnds \/ NotInternal \/ TempFails \/ NothingToClean \/ InterruptBody \/ KillDrill \/ DestinationTaken
  BY <1>4 DEF BodyEnds, NotInternal, TempFails, NothingToClean, InterruptBody, KillDrill, DestinationTaken
<1>5. CASE UNCHANGED drillVars
  BY <1>5 DEF drillVars
<1> QED
  BY <1>2, <1>3, <1>4, <1>5 DEF DrillNext

-----------------------------------------------------------------------------
(* The experiments on a runner host. *)

EarlyPlaces == {"off", "observe", "free"} \cup FileNames
ProbePlaces == Probing \cup Clean \cup {"off", "ended", "killed"}

HostTyped ==
    /\ maker \in [FileNames -> 0 .. Other]
    /\ unit \in [whose : 0 .. Other, state : {"none", "running", "inactive", "failed"}]
    /\ (unit.whose = Nobody) = (unit.state = "none")
    /\ unit.whose = Other => unit.state = "running"
    /\ pc \in [Attempts -> ProbePlaces]
    /\ entries \in [Attempts -> Seq(FileNames)]
    /\ start \in [Attempts -> {"no", "attempted", "claimed"}]
    /\ local \in [Attempts -> {"ready", "waits", "lost", "unsaved", "failed", "passed"}]

Unrepeated(s) == \A i, j \in DOMAIN s : s[i] = s[j] => i = j
Recorded(p) == ToSet(entries[p])

\* What an attempt recorded it recorded once, it is there, and nobody else recorded it.
RecordsHold ==
    \A p \in Attempts :
        /\ Unrepeated(entries[p])
        /\ \A f \in Recorded(p) : maker[f] # Nobody
        /\ \A q \in Attempts \ {p} : Recorded(p) \cap Recorded(q) = {}

\* What an attempt made it recorded, or made inside of what it recorded, unless it was
\* interrupted in between.
MadeIsRecorded ==
    \A p \in Attempts \ gap : \A f \in FileNames :
        maker[f] = p => f \in Recorded(p) \/ \E e \in Recorded(p) : f \in Inside(e)

\* Who uses an image.
Busy(p) == unit.whose = p \/ p \in procs \cup escaped \cup helper

\* Whatever runs for an attempt holds its image, which is recorded.
UsersAreAttached ==
    \A p \in Attempts :
        /\ Busy(p) => p \in attached
        /\ p \in attached => "image" \in Recorded(p)

\* Where an attempt is tells what it has and what it can answer.
Stands(p) ==
    /\ local[p] = "ready" => pc[p] = "off"
    /\ pc[p] \in EarlyPlaces => start[p] = "no"
    /\ pc[p] \in {"start", "claim", "gateway", "watch", "stop"} => "image" \in Recorded(p)
    /\ pc[p] = "identities" /\ start[p] # "no" => "image" \in Recorded(p)
    /\ pc[p] = "remove" => p \notin attached
    /\ pc[p] \in {"services", "ended"} /\ p \notin errors => Recorded(p) = {} /\ p \notin attached
    /\ pc[p] = "ended" /\ p \notin errors => p \notin disturbed
    /\ p \in gap => p \in broken
    /\ local[p] = "passed" => pc[p] = "ended" /\ Complete(p) /\ p \notin moved

HostInv ==
    HostTyped /\ RecordsHold /\ MadeIsRecorded /\ UsersAreAttached /\ \A p \in Attempts : Stands(p)

LEMMA AppendRecords ==
    ASSUME NEW S, NEW s \in Seq(S), NEW e \in S
    PROVE  /\ Append(s, e) \in Seq(S) /\ ToSet(Append(s, e)) = ToSet(s) \cup {e}
           /\ Unrepeated(s) /\ e \notin ToSet(s) => Unrepeated(Append(s, e))
<1>1. /\ Append(s, e) \in Seq(S) /\ DOMAIN Append(s, e) = 1 .. Len(s) + 1 /\ DOMAIN s = 1 .. Len(s)
      /\ \A i \in 1 .. Len(s) : Append(s, e)[i] = s[i]
      /\ Append(s, e)[Len(s) + 1] = e /\ Len(s) \in Nat
  BY AppendProperties, LenProperties
<1>2. ToSet(Append(s, e)) = ToSet(s) \cup {e}
  BY <1>1 DEF ToSet
<1>3. ASSUME Unrepeated(s), e \notin ToSet(s) PROVE Unrepeated(Append(s, e))
  BY <1>1, <1>3 DEF Unrepeated, ToSet
<1> QED
  BY <1>1, <1>2, <1>3

LEMMA FrontForgets ==
    ASSUME NEW S, NEW s \in Seq(S), s # << >>
    PROVE  /\ Front(s) \in Seq(S) /\ Last(s) \in ToSet(s) /\ Last(s) \in S
           /\ Unrepeated(s) => Unrepeated(Front(s)) /\ ToSet(Front(s)) = ToSet(s) \ {Last(s)}
<1>1. Len(s) \in Nat \ {0} /\ DOMAIN s = 1 .. Len(s) /\ \A i \in 1 .. Len(s) : s[i] \in S
  BY LenProperties, ElementOfSeq, EmptySeq
<1>2. /\ Front(s) \in Seq(S) /\ DOMAIN Front(s) = 1 .. Len(s) - 1
      /\ \A i \in 1 .. Len(s) - 1 : Front(s)[i] = s[i]
  <2>1. Front(s) = SubSeq(s, 1, Len(s) - 1)
    BY DEF Front
  <2>2. Front(s) = [i \in 1 .. Len(s) - 1 |-> s[i]]
    BY <1>1, <2>1, SubSeqProperties
  <2> QED
    BY <1>1, <2>1, <2>2, SubSeqProperties
<1>3. Last(s) = s[Len(s)]
  BY DEF Last
<1>4. ASSUME Unrepeated(s) PROVE Unrepeated(Front(s)) /\ ToSet(Front(s)) = ToSet(s) \ {Last(s)}
  BY <1>1, <1>2, <1>3, <1>4 DEF Unrepeated, ToSet
<1> QED
  BY <1>1, <1>2, <1>3, <1>4 DEF ToSet

LEMMA EmptyRecords ==
    ASSUME NEW S, NEW s \in Seq(S)
    PROVE  s = << >> <=> ToSet(s) = {}
<1>1. DOMAIN s = 1 .. Len(s) /\ Len(s) \in Nat /\ (s = << >> <=> Len(s) = 0)
  BY LenProperties, EmptySeq
<1>2. CASE Len(s) = 0
  BY <1>1, <1>2 DEF ToSet
<1>3. CASE Len(s) # 0
  <2>1. 1 \in DOMAIN s
    BY <1>1, <1>3
  <2> QED
    BY <1>1, <1>3, <2>1 DEF ToSet
<1> QED
  BY <1>2, <1>3

LEMMA People == Nobody = 0 /\ Other \in Nat \ {0} /\ Nobody \notin Attempts /\ Other \notin Attempts
                /\ Attempts \subseteq 0 .. Other /\ Nobody # Other /\ Nobody \in 0 .. Other
BY HostConstants DEF Nobody, Other, Attempts

\* A place has one successor on the way of the body.
LEMMA PlacesFollow ==
    /\ \A f \in FileNames : Following(f) \in ProbePlaces /\ f \in ProbePlaces /\ f \in EarlyPlaces
    /\ \A f \in FileNames : Following(f) \in EarlyPlaces \/ (Following(f) = "start" /\ f = "image")
BY DEF FileNames, Following, ProbePlaces, EarlyPlaces, Probing, Clean

\* What a step of the experiments does to the files and their records.
FilesStay ==
    \/ maker' = maker
    \/ pc' = pc /\ \E f \in FileNames : maker[f] \in Attempts /\ maker' = [maker EXCEPT ![f] = Other]

Removes(p) ==
    LET f == Last(entries[p]) IN
    /\ pc[p] = "remove" /\ entries[p] # << >> /\ maker[f] = p
    /\ \A g \in Inside(f) : maker[g] = Nobody
    /\ maker' = [maker EXCEPT ![f] = Nobody]
    /\ entries' = [entries EXCEPT ![p] = Front(@)]
    /\ UNCHANGED <<pc, start, errors, Kernel, observed, broken, Around>>

HostQuiet ==
    \E p \in Attempts :
        \/ Submit(p) \/ AnswerLost(p) \/ Answer(p) \/ SourceChanges(p)
        \/ Observe(p) \/ UnitFree(p) \/ StartUnit(p) \/ Claim(p) \/ StartGateway(p) \/ Watch(p)
        \/ BodyFails(p)

HostCleans ==
    \E p \in Attempts :
        \/ Identities(p) \/ Stop(p) \/ StopSurvived(p) \/ Wait(p) \/ HelperEnded(p)
        \/ Survivors(p) \/ Detached(p) \/ Services(p) \/ CleanFails(p)
        \/ KillRemote(p) \/ Detach(p)

LEMMA FileSteps ==
    ASSUME [HostNext]_hostVars
    PROVE  \/ UNCHANGED entries /\ FilesStay /\ (gap' = gap)
           \/ \E p \in Attempts : Unrecorded(p)
           \/ \E p \in Attempts, f \in FileNames : Make(p, f)
           \/ \E p \in Attempts : Removes(p) /\ (gap' = gap)
<1>1. CASE UNCHANGED hostVars
  BY <1>1 DEF hostVars, FilesStay
<1>2. CASE HostQuiet
  BY <1>2 DEF HostQuiet, Submit, AnswerLost, Answer, SourceChanges, Observe, UnitFree, StartUnit, Claim, StartGateway,
     Watch, BodyFails, Frame, Around, FilesStay
<1>3. CASE HostCleans
  BY <1>3 DEF HostCleans, Identities, Stop, StopSurvived, Wait, HelperEnded, Survivors, Detached, Services,
     CleanFails, KillRemote, Detach, CleanFrame, Around, Env, FilesStay
<1>4. CASE UnitEnds \/ Unload \/ Escape \/ OthersAct
  BY <1>4 DEF UnitEnds, Unload, Escape, OthersAct, Env, FilesStay
<1>5. ASSUME NEW p \in Attempts, RemoveEntry(p)
      PROVE  (UNCHANGED entries /\ FilesStay /\ gap' = gap) \/ (Removes(p) /\ gap' = gap)
  BY <1>5 DEF RemoveEntry, Removes, FilesStay, Around, Keeps
<1> QED
  BY <1>1, <1>2, <1>3, <1>4, <1>5 DEF HostNext, HostQuiet, HostCleans


LEMMA FilesKeep ==
    ASSUME HostTyped, RecordsHold, MadeIsRecorded, [HostNext]_hostVars
    PROVE  /\ maker' \in [FileNames -> 0 .. Other] /\ entries' \in [Attempts -> Seq(FileNames)]
           /\ RecordsHold' /\ MadeIsRecorded'
<1> USE DEF HostTyped
<1>1. CASE UNCHANGED entries /\ FilesStay /\ gap' = gap
  <2>1. /\ maker' \in [FileNames -> 0 .. Other]
        /\ \A f \in FileNames : maker[f] # Nobody => maker'[f] # Nobody
        /\ \A f \in FileNames, p \in Attempts : maker'[f] = p => maker[f] = p
    <3>1. CASE maker' = maker
      BY <3>1
    <3>2. ASSUME NEW f \in FileNames, maker[f] \in Attempts, maker' = [maker EXCEPT ![f] = Other]
          PROVE  /\ maker' \in [FileNames -> 0 .. Other]
                 /\ \A g \in FileNames : maker[g] # Nobody => maker'[g] # Nobody
                 /\ \A g \in FileNames, p \in Attempts : maker'[g] = p => maker[g] = p
      <4>1. maker' \in [FileNames -> 0 .. Other] /\ maker'[f] = Other /\ \A g \in FileNames \ {f} : maker'[g] = maker[g]
        BY <3>2, People
      <4> QED
        BY <4>1, People
    <3> QED
      BY <1>1, <3>1, <3>2 DEF FilesStay
  <2>2. ASSUME NEW p \in Attempts PROVE Recorded(p)' = Recorded(p) /\ Recorded(p) \subseteq FileNames
    <3>1. \A i \in DOMAIN entries[p] : entries[p][i] \in FileNames
      BY ElementOfSeq, LenProperties
    <3> QED
      BY <1>1, <3>1 DEF Recorded, ToSet
  <2>3. RecordsHold'
    BY <1>1, <2>1, <2>2 DEF RecordsHold
  <2>4. MadeIsRecorded'
    BY <1>1, <2>1, <2>2 DEF MadeIsRecorded
  <2> QED
    BY <1>1, <2>1, <2>3, <2>4
<1>2. ASSUME NEW p \in Attempts, NEW f \in FileNames, Make(p, f)
      PROVE  /\ maker' \in [FileNames -> 0 .. Other] /\ entries' \in [Attempts -> Seq(FileNames)]
             /\ RecordsHold' /\ MadeIsRecorded'
  <2>1. /\ maker[f] = Nobody /\ maker' = [maker EXCEPT ![f] = p]
        /\ entries' = [entries EXCEPT ![p] = Append(entries[p], f)] /\ gap' = gap
    BY <1>2 DEF Make, Frame, Around
  <2>2. f \notin Recorded(p) /\ \A q \in Attempts : f \notin Recorded(q)
    BY <2>1 DEF RecordsHold
  <2>3. /\ entries' \in [Attempts -> Seq(FileNames)]
        /\ Recorded(p)' = Recorded(p) \cup {f} /\ Unrepeated(entries[p])'
    <3>1. /\ Append(entries[p], f) \in Seq(FileNames)
          /\ ToSet(Append(entries[p], f)) = ToSet(entries[p]) \cup {f}
          /\ Unrepeated(entries[p]) /\ f \notin ToSet(entries[p]) => Unrepeated(Append(entries[p], f))
      BY AppendRecords
    <3>2. entries'[p] = Append(entries[p], f)
      BY <2>1
    <3> QED
      BY <2>1, <2>2, <3>1, <3>2 DEF Recorded, RecordsHold
  <2>4. \A q \in Attempts \ {p} : Recorded(q)' = Recorded(q) /\ entries'[q] = entries[q]
    BY <2>1 DEF Recorded
  <2>5. maker' \in [FileNames -> 0 .. Other] /\ maker'[f] = p /\ \A g \in FileNames \ {f} : maker'[g] = maker[g]
    BY <2>1, People
  <2>6. \A q \in Attempts : Recorded(q)' \subseteq Recorded(q) \cup {f}
    BY <2>3, <2>4
  <2>7. RecordsHold'
    <3>1. \A q \in Attempts : Unrepeated(entries[q])'
      BY <2>3, <2>4 DEF RecordsHold
    <3>2. ASSUME NEW q \in Attempts, NEW g \in Recorded(q)' PROVE maker'[g] # Nobody
      <4>1. g = f \/ (g \in Recorded(q) /\ g # f)
        BY <2>6
      <4>2. \A h \in Recorded(q) : h \in FileNames
        <5>1. \A i \in DOMAIN entries[q] : entries[q][i] \in FileNames
          BY ElementOfSeq, LenProperties
        <5> QED
          BY <5>1 DEF Recorded, ToSet
      <4> QED
        BY <2>5, <4>1, <4>2, People DEF RecordsHold
    <3>3. ASSUME NEW q \in Attempts, NEW s \in Attempts \ {q} PROVE Recorded(q)' \cap Recorded(s)' = {}
      <4>1. Recorded(q) \cap Recorded(s) = {} /\ f \notin Recorded(q) /\ f \notin Recorded(s)
        BY <2>2 DEF RecordsHold
      <4>2. (Recorded(q)' = Recorded(q) \/ q = p) /\ (Recorded(s)' = Recorded(s) \/ s = p)
        BY <2>4
      <4> HIDE DEF Recorded
      <4> QED
        BY <2>3, <2>4, <4>1, <4>2
    <3> QED
      BY <3>1, <3>2, <3>3 DEF RecordsHold
  <2>8. MadeIsRecorded'
    BY <2>1, <2>3, <2>4, <2>5 DEF MadeIsRecorded
  <2> QED
    BY <2>3, <2>5, <2>7, <2>8
<1>3. ASSUME NEW p \in Attempts, Unrecorded(p)
      PROVE  /\ maker' \in [FileNames -> 0 .. Other] /\ entries' \in [Attempts -> Seq(FileNames)]
             /\ RecordsHold' /\ MadeIsRecorded'
  <2> DEFINE f == pc[p]
  <2>1. /\ f \in FileNames /\ maker[f] = Nobody /\ maker' = [maker EXCEPT ![f] = p] /\ entries' = entries
        /\ gap' = IF \A e \in Recorded(p) : f \notin Inside(e) THEN gap \cup {p} ELSE gap
    BY <1>3 DEF Unrecorded, Refuses, Recorded
  <2>2. \A q \in Attempts : Recorded(q)' = Recorded(q)
    BY <2>1 DEF Recorded
  <2> HIDE DEF f
  <2>3. maker' \in [FileNames -> 0 .. Other] /\ maker'[f] = p /\ \A g \in FileNames \ {f} : maker'[g] = maker[g]
    BY <2>1, People
  <2>4. RecordsHold'
    BY <2>1, <2>2, People DEF RecordsHold
  <2>5. MadeIsRecorded'
    BY <2>1, <2>2, <2>3 DEF MadeIsRecorded
  <2> QED
    BY <2>1, <2>3, <2>4, <2>5
<1>4. ASSUME NEW p \in Attempts, Removes(p), gap' = gap
      PROVE  /\ maker' \in [FileNames -> 0 .. Other] /\ entries' \in [Attempts -> Seq(FileNames)]
             /\ RecordsHold' /\ MadeIsRecorded'
  <2> DEFINE f == Last(entries[p])
  <2>1. /\ maker[f] = p /\ (\A g \in Inside(f) : maker[g] = Nobody)
        /\ maker' = [maker EXCEPT ![f] = Nobody] /\ entries' = [entries EXCEPT ![p] = Front(entries[p])]
    BY <1>4 DEF Removes
  <2>2. /\ Front(entries[p]) \in Seq(FileNames) /\ f \in Recorded(p) /\ f \in FileNames
        /\ Unrepeated(Front(entries[p])) /\ ToSet(Front(entries[p])) = Recorded(p) \ {f}
    BY <1>4, FrontForgets DEF Removes, Recorded, RecordsHold
  <2> HIDE DEF f
  <2>3. /\ entries' \in [Attempts -> Seq(FileNames)] /\ Recorded(p)' = Recorded(p) \ {f} /\ Unrepeated(entries[p])'
        /\ \A q \in Attempts \ {p} : Recorded(q)' = Recorded(q) /\ entries'[q] = entries[q]
    BY <2>1, <2>2 DEF Recorded
  <2>4. maker' \in [FileNames -> 0 .. Other] /\ maker'[f] = Nobody /\ \A g \in FileNames \ {f} : maker'[g] = maker[g]
    BY <2>1, <2>2, People
  <2>5. \A q \in Attempts : f \notin Recorded(q)' /\ Recorded(q)' \subseteq Recorded(q)
    BY <2>2, <2>3 DEF RecordsHold
  <2>6. \A g \in DOMAIN maker \ {f} : maker'[g] = maker[g]
    BY <2>4
  <2>7. \A q \in Attempts : Recorded(q) \subseteq FileNames
    <3>1. \A q \in Attempts : \A i \in DOMAIN entries[q] : entries[q][i] \in FileNames
      BY ElementOfSeq, LenProperties
    <3> QED
      BY <3>1 DEF Recorded, ToSet
  <2>8. RecordsHold'
    <3>1. \A q \in Attempts : Unrepeated(entries[q])'
      BY <2>3 DEF RecordsHold
    <3>2. \A q \in Attempts : \A g \in Recorded(q)' : maker'[g] # Nobody
      BY <2>4, <2>5, <2>7 DEF RecordsHold
    <3>3. \A q \in Attempts : \A s \in Attempts \ {q} : Recorded(q)' \cap Recorded(s)' = {}
      BY <2>5 DEF RecordsHold
    <3> QED
      BY <3>1, <3>2, <3>3 DEF RecordsHold
  <2>9. MadeIsRecorded'
    <3>1. ASSUME NEW q \in Attempts \ gap, NEW g \in FileNames, maker'[g] = q
          PROVE  g \in Recorded(q)' \/ \E e \in Recorded(q)' : g \in Inside(e)
      <4>1. g # f /\ maker[g] = q
        BY <2>4, <3>1, People
      <4>2. g \in Recorded(q) \/ \E e \in Recorded(q) : g \in Inside(e)
        BY <3>1, <4>1 DEF MadeIsRecorded
      <4>3. g \notin Inside(f)
        BY <2>1, <4>1, People
      <4> QED
        BY <2>3, <4>1, <4>2, <4>3
    <3> QED
      BY <1>4, <3>1 DEF MadeIsRecorded
  <2> QED
    BY <2>3, <2>4, <2>8, <2>9
<1> QED
  BY <1>1, <1>2, <1>3, <1>4, FileSteps


\* A unit belongs to whoever started it until it is unloaded.
UnitRests ==
    \/ unit' = unit
    \/ unit = NoUnit /\ unit' = [whose |-> Other, state |-> "running"]
    \/ unit.whose \in Attempts /\ unit' = [unit EXCEPT !.state = "inactive"]
    \/ unit.whose \in Attempts /\ unit' = [unit EXCEPT !.state = "failed"]
    \/ unit.whose \in Attempts /\ unit' = NoUnit

\* What a step of the experiments does to the unit and to the users of the images: they
\* become fewer; a unit starts; its helper or a worker of its joins; an image is let go.
UsersLeave ==
    UnitRests /\ procs' \subseteq procs /\ helper' \subseteq helper /\ escaped' = escaped /\ attached' = attached
UnitStarts(p) == pc[p] = "start" /\ unit = NoUnit /\ Started(p) /\ UNCHANGED <<helper, escaped>>
UserJoins ==
    /\ unit.whose \in Attempts /\ unit' = unit
    /\ helper' \cup escaped' \subseteq helper \cup escaped \cup {unit.whose} /\ UNCHANGED <<procs, attached>>

LEMMA KernelSteps ==
    ASSUME HostTyped, [HostNext]_hostVars
    PROVE  UsersLeave \/ UserJoins \/ \E p \in Attempts : UnitStarts(p) \/ Detach(p)
<1> USE DEF HostTyped
<1>0. unit.state = "inactive" => unit.whose \in Attempts
  <2>1. unit.whose \in 0 .. Other
    OBVIOUS
  <2> QED
    BY <2>1, HostConstants DEF Other, Nobody, Attempts
<1>1. ASSUME NEW p \in Attempts,
             Submit(p) \/ AnswerLost(p) \/ Answer(p) \/ SourceChanges(p) \/ Observe(p) \/ UnitFree(p) \/ Claim(p)
               \/ Watch(p) \/ Unrecorded(p) \/ Identities(p) \/ Wait(p) \/ HelperEnded(p)
               \/ Survivors(p) \/ Detached(p) \/ RemoveEntry(p) \/ Services(p) \/ KillRemote(p)
               \/ \E f \in FileNames : Make(p, f)
      PROVE  UNCHANGED Kernel
  BY <1>1 DEF Submit, AnswerLost, Answer, SourceChanges, Observe, UnitFree, Claim, Watch, Unrecorded,
     Identities, Wait, HelperEnded, Survivors, Detached, RemoveEntry, Services, KillRemote, Make, Kernel
<1>2. ASSUME NEW p \in Attempts, StartUnit(p) PROVE UnitStarts(p)
  BY <1>2 DEF StartUnit, UnitStarts
<1>3. ASSUME NEW p \in Attempts, StartGateway(p) PROVE UserJoins
  BY <1>3 DEF StartGateway, UserJoins
<1>4. ASSUME NEW p \in Attempts, BodyFails(p) PROVE UNCHANGED Kernel \/ UnitStarts(p) \/ UserJoins
  BY <1>4 DEF BodyFails, Kernel, UnitStarts, UserJoins
<1>5. ASSUME NEW p \in Attempts, Stop(p) \/ StopSurvived(p) \/ CleanFails(p) PROVE UsersLeave
  <2>1. /\ procs' \subseteq procs /\ helper' \subseteq helper /\ escaped' = escaped /\ attached' = attached
        /\ unit' = unit \/ (unit' = Ended /\ unit.whose \in Attempts)
    BY <1>5 DEF Stop, Mine, StopSurvived, CleanFails, Kernel
  <2> QED
    BY <2>1 DEF UsersLeave, UnitRests, Ended
<1>6. CASE UnitEnds \/ Unload \/ OthersAct
  BY <1>0, <1>6 DEF UnitEnds, Unload, OthersAct, UsersLeave, UnitRests
<1>7. CASE Escape
  BY <1>7 DEF Escape, UserJoins
<1>8. CASE UNCHANGED Kernel
  BY <1>8 DEF Kernel, UsersLeave, UnitRests
<1> QED
  BY <1>1, <1>2, <1>3, <1>4, <1>5, <1>6, <1>7, <1>8 DEF HostNext, Kernel, hostVars

LEMMA UnitKeeps ==
    ASSUME HostTyped, [HostNext]_hostVars
    PROVE  /\ unit' \in [whose : 0 .. Other, state : {"none", "running", "inactive", "failed"}]
           /\ (unit'.whose = Nobody) = (unit'.state = "none")
           /\ unit'.whose = Other => unit'.state = "running"
           /\ unit.whose = Other => unit' = unit
           /\ UnitRests => \A p \in Attempts : unit'.whose = p => unit.whose = p
<1> USE People DEF HostTyped
<1>1. CASE unit' = unit
  BY <1>1
<1>2. ASSUME NEW p \in Attempts, UnitStarts(p)
      PROVE  /\ unit' \in [whose : 0 .. Other, state : {"none", "running", "inactive", "failed"}]
             /\ (unit'.whose = Nobody) = (unit'.state = "none") /\ unit'.whose # Other
             /\ unit'.whose = p /\ unit.whose # Other /\ ~UnitRests
  BY <1>2 DEF NoUnit, UnitStarts, Started, UnitRests
<1>3. CASE unit = NoUnit /\ unit' = [whose |-> Other, state |-> "running"]
  BY <1>3 DEF NoUnit
<1>4. CASE unit.whose \in Attempts /\ unit' = [unit EXCEPT !.state = "inactive"]
  BY <1>4
<1>5. CASE unit.whose \in Attempts /\ unit' = [unit EXCEPT !.state = "failed"]
  BY <1>5
<1>6. CASE unit.whose \in Attempts /\ unit' = NoUnit
  BY <1>6 DEF NoUnit
<1>7. UnitRests \/ \E p \in Attempts : UnitStarts(p)
  BY KernelSteps DEF UsersLeave, UserJoins, UnitRests, Detach
<1> QED
  BY <1>1, <1>2, <1>3, <1>4, <1>5, <1>6, <1>7 DEF UnitRests

\* An image is taken when a unit starts, and let go when nobody uses it.
LEMMA UsersMove ==
    ASSUME HostTyped, UsersAreAttached, [HostNext]_hostVars, NEW q \in Attempts
    PROVE  /\ q \in attached' => q \in attached \/ pc[q] = "start"
           /\ Busy(q)' => q \in attached'
<1>1. Busy(q) => q \in attached
  BY DEF UsersAreAttached
<1>2. UnitRests => (unit'.whose = q => unit.whose = q)
  BY UnitKeeps
<1>3. CASE UsersLeave
  BY <1>1, <1>2, <1>3 DEF UsersLeave, Busy
<1>4. CASE UserJoins
  BY <1>1, <1>4 DEF UserJoins, Busy
<1>5. ASSUME NEW p \in Attempts, UnitStarts(p)
      PROVE  (q \in attached' => q \in attached \/ pc[q] = "start") /\ (Busy(q)' => q \in attached')
  BY <1>1, <1>5 DEF UnitStarts, Started, Busy
<1>6. ASSUME NEW p \in Attempts, Detach(p)
      PROVE  (q \in attached' => q \in attached \/ pc[q] = "start") /\ (Busy(q)' => q \in attached')
  BY <1>1, <1>6 DEF Detach, Busy
<1> QED
  BY <1>3, <1>4, <1>5, <1>6, KernelSteps


\* A step of one attempt leaves what the others have and say.
StaysPut(q) ==
    /\ pc'[q] = pc[q] /\ entries'[q] = entries[q] /\ start'[q] = start[q] /\ local'[q] = local[q]
    /\ q \in observed' <=> q \in observed
    /\ q \in broken' <=> q \in broken
    /\ q \in errors' <=> q \in errors
    /\ q \in gap' <=> q \in gap
    /\ q \in moved' <=> q \in moved
    /\ q \in disturbed' => q \in disturbed \/ pc[q] \in Probing

HostPlaces ==
    /\ pc \in [Attempts -> ProbePlaces]
    /\ start \in [Attempts -> {"no", "attempted", "claimed"}]
    /\ local \in [Attempts -> {"ready", "waits", "lost", "unsaved", "failed", "passed"}]
    /\ DOMAIN entries = Attempts

LEMMA StandsAside ==
    ASSUME HostTyped, UsersAreAttached, [HostNext]_hostVars, NEW q \in Attempts, Stands(q), StaysPut(q)
    PROVE  Stands(q)'
<1>1. Recorded(q)' = Recorded(q)
  BY DEF StaysPut, Recorded
<1>2. q \in attached' => q \in attached \/ pc[q] = "start"
  BY UsersMove
<1>3. pc[q] = "ended" => pc[q] \notin Probing
  BY DEF Probing
<1>4. Complete(q)' = Complete(q)
  BY DEF StaysPut, Complete
<1> QED
  BY <1>1, <1>2, <1>3, <1>4 DEF StaysPut, Stands

LEMMA MoveTyping ==
    ASSUME HostPlaces, NEW p \in Attempts, NEW x \in ProbePlaces, To(p, x)
    PROVE  /\ pc' \in [Attempts -> ProbePlaces] /\ pc'[p] = x
           /\ \A q \in Attempts \ {p} : pc'[q] = pc[q]
BY DEF To, HostPlaces

\* The local command.
LEMMA LocalSteps ==
    ASSUME HostPlaces, NEW p \in Attempts, Stands(p),
           Submit(p) \/ AnswerLost(p) \/ Answer(p) \/ SourceChanges(p)
    PROVE  HostPlaces' /\ (\A q \in Attempts \ {p} : StaysPut(q)) /\ Stands(p)'
<1> USE DEF HostPlaces
<1>1. /\ UNCHANGED <<entries, start, Kernel, Verdicts, disturbed, gap>> /\ Recorded(p)' = Recorded(p)
  BY DEF Submit, AnswerLost, Answer, SourceChanges, Verdicts, Recorded
<1>2. Complete(p)' = Complete(p)
  BY <1>1 DEF Complete, Verdicts
<1>3. CASE Submit(p)
  <2>1. local' = [local EXCEPT ![p] = "waits"] /\ pc' = [pc EXCEPT ![p] = "observe"] /\ moved' = moved /\ local[p] = "ready"
    BY <1>3 DEF Submit, To
  <2>2. "observe" \in ProbePlaces /\ "observe" \in EarlyPlaces /\ "off" \in EarlyPlaces
    BY DEF ProbePlaces, Probing, EarlyPlaces
  <2> QED
    BY <1>1, <2>1, <2>2 DEF StaysPut, Stands, Verdicts
<1>4. CASE AnswerLost(p)
  <2>1. local' = [local EXCEPT ![p] = "lost"] /\ pc' = pc /\ moved' = moved
    BY <1>4 DEF AnswerLost
  <2> QED
    BY <1>1, <2>1 DEF StaysPut, Stands, Verdicts, Kernel
<1>5. CASE Answer(p)
  <2>1. /\ local' = [local EXCEPT ![p] =
                        IF p \in moved THEN "unsaved" ELSE IF Complete(p) THEN "passed" ELSE "failed"]
        /\ pc' = pc /\ moved' = moved /\ local[p] = "waits" /\ pc[p] = "ended"
    BY <1>5 DEF Answer
  <2>2. /\ local' \in [Attempts -> {"ready", "waits", "lost", "unsaved", "failed", "passed"}]
        /\ local'[p] # "ready" /\ (local'[p] = "passed" => p \notin moved /\ Complete(p))
        /\ \A q \in Attempts \ {p} : local'[q] = local[q]
    BY <2>1
  <2> QED
    BY <1>1, <1>2, <2>1, <2>2 DEF StaysPut, Stands, Verdicts, Kernel
<1>6. CASE SourceChanges(p)
  <2>1. local' = local /\ pc' = pc /\ moved' = moved \cup {p} /\ local[p] = "waits"
    BY <1>6 DEF SourceChanges
  <2> QED
    BY <1>1, <2>1 DEF StaysPut, Stands, Verdicts, Kernel
<1> QED
  BY <1>3, <1>4, <1>5, <1>6

\* The body, but for what makes files.
LEMMA BodySteps ==
    ASSUME HostPlaces, NEW p \in Attempts, Stands(p),
           Observe(p) \/ UnitFree(p) \/ StartUnit(p) \/ Claim(p) \/ StartGateway(p) \/ Watch(p) \/ BodyFails(p)
    PROVE  HostPlaces' /\ (\A q \in Attempts \ {p} : StaysPut(q)) /\ Stands(p)'
<1> USE DEF HostPlaces
<1>1. /\ UNCHANGED <<entries, errors, disturbed, gap, local, moved>> /\ Recorded(p)' = Recorded(p)
  BY DEF Observe, UnitFree, StartUnit, Claim, StartGateway, Watch, BodyFails, Frame, Around, Recorded
<1>2. pc[p] \in Probing
  BY DEF Observe, UnitFree, StartUnit, Claim, StartGateway, Watch, BodyFails, Probing
<1>3. /\ \A q \in Attempts \ {p} : (q \in broken' <=> q \in broken) /\ (q \in observed' <=> q \in observed)
      /\ p \in broken => p \in broken'
  BY DEF Observe, UnitFree, StartUnit, Claim, StartGateway, Watch, BodyFails
<1>4. /\ pc' \in [Attempts -> ProbePlaces] /\ \A q \in Attempts \ {p} : pc'[q] = pc[q]
      /\ \/ pc'[p] \in {"free", "parent", "root"} /\ pc[p] \in {"observe", "free"}
         \/ pc'[p] = "claim" /\ pc[p] = "start"
         \/ pc'[p] \in {"gateway", "watch"} /\ pc[p] \in {"claim", "gateway"}
         \/ pc'[p] = "identities"
  <2>1. \E x \in {"free", "parent", "root", "claim", "gateway", "watch", "identities"} :
           /\ To(p, x)
           /\ \/ x \in {"free", "parent", "root"} /\ pc[p] \in {"observe", "free"}
              \/ x = "claim" /\ pc[p] = "start"
              \/ x \in {"gateway", "watch"} /\ pc[p] \in {"claim", "gateway"}
              \/ x = "identities"
    BY DEF Observe, UnitFree, StartUnit, Claim, StartGateway, Watch, BodyFails
  <2>2. {"free", "parent", "root", "claim", "gateway", "watch", "identities"} \subseteq ProbePlaces
    BY DEF ProbePlaces, Probing, Clean
  <2> QED
    BY <2>1, <2>2, MoveTyping
<1>5. /\ start' \in [Attempts -> {"no", "attempted", "claimed"}] /\ \A q \in Attempts \ {p} : start'[q] = start[q]
      /\ start'[p] = start[p] \/ pc[p] \in {"start", "claim"}
      /\ pc'[p] \in {"free", "parent", "root"} => start'[p] = start[p]
  BY <1>4 DEF Observe, UnitFree, StartUnit, Claim, StartGateway, Watch, BodyFails
<1>6. {"observe", "free", "parent", "root"} \subseteq EarlyPlaces /\ "identities" \notin EarlyPlaces
      /\ "claim" \notin EarlyPlaces /\ "gateway" \notin EarlyPlaces /\ "watch" \notin EarlyPlaces
      /\ "ended" \notin Probing /\ "off" \notin Probing
  BY DEF EarlyPlaces, FileNames, Probing
<1>7. /\ pc[p] = "identities" => FALSE
      /\ pc[p] \in EarlyPlaces \/ pc[p] \in {"start", "claim", "gateway", "watch"}
  BY <1>2 DEF Probing, EarlyPlaces, FileNames
<1>8. Stands(p)'
  <2>1. local[p] # "ready" /\ local[p] # "passed"
    BY <1>2, <1>6 DEF Stands
  <2>2. pc'[p] \in EarlyPlaces => start'[p] = "no"
    BY <1>4, <1>5, <1>6 DEF Stands
  <2>3. pc'[p] \in {"start", "claim", "gateway", "watch", "stop"} => "image" \in Recorded(p)
    BY <1>4 DEF Stands
  <2>4. pc'[p] = "identities" /\ start'[p] # "no" => "image" \in Recorded(p)
    BY <1>5, <1>7 DEF Stands
  <2>5. p \in gap' => p \in broken'
    BY <1>1, <1>3 DEF Stands
  <2> QED
    BY <1>1, <1>4, <2>1, <2>2, <2>3, <2>4, <2>5 DEF Stands
<1>9. \A q \in Attempts \ {p} : StaysPut(q)
  BY <1>1, <1>3, <1>4, <1>5 DEF StaysPut
<1> QED
  BY <1>1, <1>4, <1>5, <1>8, <1>9


\* What makes files.
LEMMA MakingSteps ==
    ASSUME HostTyped, NEW p \in Attempts, Stands(p), Unrecorded(p) \/ \E f \in FileNames : Make(p, f)
    PROVE  HostPlaces' /\ (\A q \in Attempts \ {p} : StaysPut(q)) /\ Stands(p)'
<1>1. HostPlaces /\ DOMAIN entries = Attempts
  BY DEF HostTyped, HostPlaces
<1>2. /\ "ended" \notin FileNames /\ "off" \notin FileNames /\ FileNames \subseteq EarlyPlaces
      /\ "identities" \in ProbePlaces /\ "identities" \notin EarlyPlaces /\ "ended" \notin EarlyPlaces
  BY DEF FileNames, EarlyPlaces, ProbePlaces, Clean
<1>3. /\ UNCHANGED <<start, local, observed, errors, disturbed, moved>>
      /\ pc[p] \in FileNames
  BY DEF Unrecorded, Make, Frame, Around
<1>4. start[p] = "no" /\ local[p] \notin {"ready", "passed"}
  BY <1>2, <1>3 DEF Stands
<1>5. CASE Unrecorded(p)
  <2>1. /\ To(p, "identities") /\ entries' = entries /\ broken' = broken \cup {p}
        /\ \A q : (q \in gap' => q \in gap \/ q = p) /\ (q \in gap => q \in gap')
    BY <1>5 DEF Unrecorded
  <2>2. pc' \in [Attempts -> ProbePlaces] /\ pc'[p] = "identities" /\ \A q \in Attempts \ {p} : pc'[q] = pc[q]
    BY <1>1, <1>2, <2>1, MoveTyping
  <2>3. p \in gap' => p \in broken'
    BY <2>1
  <2>4. Stands(p)'
    BY <1>2, <1>3, <1>4, <2>2, <2>3 DEF Stands
  <2>5. \A q \in Attempts \ {p} : StaysPut(q)
    BY <1>3, <2>1, <2>2 DEF StaysPut
  <2> QED
    BY <1>1, <1>3, <2>1, <2>2, <2>4, <2>5 DEF HostPlaces
<1>6. ASSUME NEW f \in FileNames, Make(p, f)
      PROVE  HostPlaces' /\ (\A q \in Attempts \ {p} : StaysPut(q)) /\ Stands(p)'
  <2>1. /\ To(p, Following(f)) /\ entries' = [entries EXCEPT ![p] = Append(@, f)] /\ UNCHANGED <<broken, gap>>
    BY <1>6 DEF Make, Frame, Around
  <2>2. Following(f) \in ProbePlaces /\ (Following(f) \in EarlyPlaces \/ (Following(f) = "start" /\ f = "image"))
    BY PlacesFollow
  <2>3. pc' \in [Attempts -> ProbePlaces] /\ pc'[p] = Following(f) /\ \A q \in Attempts \ {p} : pc'[q] = pc[q]
    BY <1>1, <2>1, <2>2, MoveTyping
  <2>4. f \in Recorded(p)'
    <3>1. ToSet(Append(entries[p], f)) = ToSet(entries[p]) \cup {f}
      BY AppendRecords DEF HostTyped
    <3>2. entries'[p] = Append(entries[p], f)
      BY <1>1, <2>1
    <3> QED
      BY <3>1, <3>2 DEF Recorded
  <2>5. pc'[p] \in EarlyPlaces => pc'[p] \notin {"start", "claim", "gateway", "watch", "stop", "identities", "remove",
                                                 "services", "ended"}
    BY DEF EarlyPlaces, FileNames
  <2>6. Stands(p)'
    BY <1>3, <1>4, <2>1, <2>2, <2>3, <2>4, <2>5 DEF Stands
  <2>7. \A q \in Attempts \ {p} : StaysPut(q)
    BY <1>1, <1>3, <2>1, <2>3 DEF StaysPut
  <2> QED
    BY <1>1, <1>3, <2>1, <2>3, <2>6, <2>7 DEF HostPlaces
<1> QED
  BY <1>5, <1>6

\* The cleanup goes from the identities to the services; an error ends it there.
CleanMove(p, x) ==
    /\ To(p, x) /\ p \in Attempts
    /\ \/ /\ pc[p] \in Clean \ {"services"} /\ errors' = errors \cup {p} /\ x \in {"services", "ended"}
       \/ errors' = errors /\ pc[p] = "identities" /\ x = IF start[p] = "no" THEN "detach" ELSE "stop"
       \/ errors' = errors /\ pc[p] \in {"stop", "wait", "helper", "survivors"} /\ x \in {"wait", "helper", "survivors", "detach"}
       \/ errors' = errors /\ pc[p] = "detach" /\ p \notin attached' /\ x = "remove"
       \/ errors' = errors /\ pc[p] = "remove" /\ Recorded(p) = {} /\ p \notin attached' /\ x = "services"
       \/ pc[p] = "services" /\ errors' = (IF p \in disturbed THEN errors \cup {p} ELSE errors) /\ x = "ended"
            /\ attached' = attached
       \/ pc[p] \in Probing \cup Clean /\ errors' = errors /\ x = "killed"

LEMMA CleaningMoves ==
    ASSUME HostTyped, NEW p \in Attempts, Stands(p),
           Identities(p) \/ Stop(p) \/ StopSurvived(p) \/ Wait(p) \/ HelperEnded(p)
             \/ Survivors(p) \/ Detached(p) \/ (RemoveEntry(p) /\ ~Removes(p)) \/ Services(p) \/ CleanFails(p) \/ KillRemote(p)
    PROVE  /\ \E x \in ProbePlaces : CleanMove(p, x)
           /\ UNCHANGED <<entries, start, observed, broken, disturbed, gap, local, moved>>
<1>1. Clean \cup {"ended", "killed"} \subseteq ProbePlaces
  BY DEF ProbePlaces
<1>2. entries[p] = << >> => Recorded(p) = {}
  BY EmptyRecords DEF HostTyped, Recorded
<1>3. UNCHANGED <<entries, start, observed, broken, disturbed, gap, local, moved>>
  BY DEF Identities, Stop, StopSurvived, Wait, HelperEnded, Survivors, Detached, RemoveEntry, Removes, Services,
     CleanFails, KillRemote, CleanFrame, Around, Verdicts, Keeps
<1>4. ASSUME Identities(p) PROVE CleanMove(p, "ended") \/ CleanMove(p, "detach") \/ CleanMove(p, "stop")
  <2>1. CASE Matches(p)
    BY <1>4, <2>1 DEF Identities, CleanMove
  <2>2. CASE ~Matches(p)
    BY <1>4, <2>2 DEF Identities, CleanMove, Keeps, Clean
  <2> QED
    BY <2>1, <2>2
<1>5. ASSUME Stop(p) \/ StopSurvived(p) \/ Wait(p)
      PROVE  CleanMove(p, "helper") \/ CleanMove(p, "wait") \/ CleanMove(p, "services")
  <2>1. pc[p] \in {"stop", "wait"} /\ pc[p] \in Clean \ {"services"}
    BY <1>5 DEF Stop, StopSurvived, Wait, Clean
  <2>2. \/ To(p, "helper") /\ errors' = errors
        \/ To(p, "wait") /\ errors' = errors
        \/ To(p, "services") /\ errors' = errors \cup {p}
    BY <1>5 DEF Stop, StopSurvived, Wait, Keeps
  <2> QED
    BY <2>1, <2>2 DEF CleanMove
<1>6. ASSUME HelperEnded(p) \/ Survivors(p) \/ Detached(p)
      PROVE  CleanMove(p, "survivors") \/ CleanMove(p, "detach") \/ CleanMove(p, "remove") \/ CleanMove(p, "services")
  <2>1. pc[p] \in {"helper", "survivors", "detach"} /\ pc[p] \in Clean \ {"services"} /\ attached' = attached
    BY <1>6 DEF HelperEnded, Survivors, Detached, Clean, Kernel
  <2>2. \/ To(p, "survivors") /\ errors' = errors /\ pc[p] = "helper"
        \/ To(p, "detach") /\ errors' = errors /\ pc[p] = "survivors"
        \/ To(p, "remove") /\ errors' = errors /\ pc[p] = "detach" /\ p \notin attached
        \/ To(p, "services") /\ errors' = errors \cup {p}
    BY <1>6 DEF HelperEnded, Survivors, Detached, Keeps
  <2> QED
    BY <2>1, <2>2 DEF CleanMove
<1>7. ASSUME RemoveEntry(p), ~Removes(p) PROVE CleanMove(p, "services")
  <2>1. \/ entries[p] = << >> /\ To(p, "services") /\ errors' = errors /\ pc[p] = "remove" /\ attached' = attached
        \/ Keeps(p, "services") /\ pc[p] = "remove"
    BY <1>7 DEF RemoveEntry, Removes, Kernel
  <2>2. p \notin attached \/ pc[p] # "remove"
    BY DEF Stands
  <2> QED
    BY <1>2, <2>1, <2>2 DEF CleanMove, Keeps, Clean
<1>8. ASSUME Services(p) PROVE CleanMove(p, "ended")
  BY <1>8 DEF Services, CleanMove, Kernel
<1>9. ASSUME CleanFails(p) PROVE CleanMove(p, "ended") \/ CleanMove(p, "services")
  BY <1>9 DEF CleanFails, CleanMove, Keeps, Clean
<1>10. ASSUME KillRemote(p) PROVE CleanMove(p, "killed")
  BY <1>10 DEF KillRemote, CleanMove, Verdicts
<1>11. {"ended", "detach", "stop", "helper", "wait", "services", "survivors", "remove", "killed"} \subseteq ProbePlaces
  BY DEF ProbePlaces, Clean
<1> QED
  BY <1>3, <1>4, <1>5, <1>6, <1>7, <1>8, <1>9, <1>10, <1>11

LEMMA CleaningSteps ==
    ASSUME HostTyped, UsersAreAttached, [HostNext]_hostVars, NEW p \in Attempts, Stands(p),
           NEW x \in ProbePlaces, CleanMove(p, x),
           UNCHANGED <<entries, start, observed, broken, disturbed, gap, local, moved>>
    PROVE  HostPlaces' /\ (\A q \in Attempts \ {p} : StaysPut(q)) /\ Stands(p)'
<1>1. HostPlaces /\ Recorded(p)' = Recorded(p)
  BY DEF HostTyped, HostPlaces, Recorded
<1>2. pc' \in [Attempts -> ProbePlaces] /\ pc'[p] = x /\ \A q \in Attempts \ {p} : pc'[q] = pc[q]
  BY <1>1, MoveTyping DEF CleanMove
<1>3. \A q \in Attempts \ {p} : (q \in errors' <=> q \in errors) /\ (p \in errors => p \in errors')
  BY DEF CleanMove
<1>4. \A q \in Attempts \ {p} : StaysPut(q)
  BY <1>2, <1>3 DEF StaysPut
<1>5. /\ x \in {"stop", "wait", "helper", "survivors", "detach", "remove", "services", "ended", "killed"}
      /\ pc[p] \in Probing \cup Clean /\ pc[p] \notin {"off", "ended"}
  BY DEF CleanMove, Probing, Clean
<1>6. x \notin EarlyPlaces \cup {"off", "start", "claim", "gateway", "watch", "identities"}
  BY <1>5 DEF EarlyPlaces, FileNames
<1>7. local[p] \notin {"ready", "passed"}
  BY <1>5 DEF Stands
<1>8. p \in attached' => p \in attached \/ pc[p] = "start"
  BY UsersMove
<1>9. x = "stop" => "image" \in Recorded(p)
  BY <1>5 DEF CleanMove, Stands
<1>10. x = "remove" => p \notin attached'
  BY DEF CleanMove
<1>11. x \in {"services", "ended"} /\ p \notin errors' => Recorded(p) = {} /\ p \notin attached'
  BY DEF CleanMove, Stands
<1>12. x = "ended" /\ p \notin errors' => p \notin disturbed
  BY DEF CleanMove
<1>13. Stands(p)'
  BY <1>1, <1>2, <1>6, <1>7, <1>9, <1>10, <1>11, <1>12 DEF Stands
<1> QED
  BY <1>1, <1>2, <1>4, <1>13 DEF HostPlaces

LEMMA RemovalSteps ==
    ASSUME HostTyped, UsersAreAttached, [HostNext]_hostVars, NEW p \in Attempts, Stands(p), Removes(p), RemoveEntry(p)
    PROVE  HostPlaces' /\ (\A q \in Attempts \ {p} : StaysPut(q)) /\ Stands(p)'
<1>1. /\ pc[p] = "remove" /\ entries' = [entries EXCEPT ![p] = Front(@)]
      /\ UNCHANGED <<pc, start, errors, attached, observed, broken, disturbed, gap, local, moved>>
  BY DEF Removes, Around, Kernel
<1>2. \A q \in Attempts \ {p} : StaysPut(q)
  BY <1>1 DEF StaysPut, HostTyped
<1>3. "remove" \notin EarlyPlaces
  BY DEF EarlyPlaces, FileNames
<1>4. Stands(p)'
  BY <1>1, <1>3 DEF Stands
<1> QED
  BY <1>1, <1>2, <1>4 DEF HostTyped, HostPlaces


\* What happens on the host is no attempt's step.
LEMMA BesideSteps ==
    ASSUME HostPlaces, UnitEnds \/ Unload \/ Escape \/ OthersAct \/ (\E p \in Attempts : Detach(p)) \/ UNCHANGED hostVars
    PROVE  HostPlaces' /\ \A q \in Attempts : StaysPut(q)
<1>1. Env \/ UNCHANGED <<pc, entries, start, Verdicts, kind, gap, local, moved>>
  BY DEF UnitEnds, Unload, Escape, OthersAct, Detach, hostVars, Verdicts
<1>2. UNCHANGED <<pc, entries, start, observed, broken, errors, gap, local, moved>>
  BY <1>1 DEF Env, Verdicts
<1>3. \A q \in Attempts : q \in disturbed' => q \in disturbed \/ pc[q] \in Probing
  BY DEF UnitEnds, Unload, Escape, OthersAct, Detach, hostVars
<1> QED
  BY <1>2, <1>3 DEF HostPlaces, StaysPut

\* One attempt moves, or none (0).
MovesAlone(p) == (\A q \in Attempts \ {p} : StaysPut(q)) /\ (p \in Attempts => Stands(p)')

LEMMA OneMoves ==
    ASSUME HostInv, [HostNext]_hostVars
    PROVE  /\ HostPlaces' /\ \A q \in Attempts : Stands(q)'
           /\ \E p \in 0 .. MaxAttempts : \A q \in Attempts \ {p} : StaysPut(q)
<1>1. HostTyped /\ UsersAreAttached /\ HostPlaces /\ \A q \in Attempts : Stands(q)
  BY DEF HostInv, HostTyped, HostPlaces
<1> DEFINE Holds == HostPlaces' /\ \E p \in 0 .. MaxAttempts : MovesAlone(p)
<1>2. ASSUME NEW p \in Attempts,
             HostPlaces' /\ (\A q \in Attempts \ {p} : StaysPut(q)) /\ Stands(p)'
      PROVE  Holds
  BY <1>2 DEF Attempts, MovesAlone
<1>3. ASSUME NEW p \in Attempts, Submit(p) \/ AnswerLost(p) \/ Answer(p) \/ SourceChanges(p) PROVE Holds
  BY <1>1, <1>2, <1>3, LocalSteps
<1>4. ASSUME NEW p \in Attempts,
             Observe(p) \/ UnitFree(p) \/ StartUnit(p) \/ Claim(p) \/ StartGateway(p) \/ Watch(p) \/ BodyFails(p)
      PROVE  Holds
  BY <1>1, <1>2, <1>4, BodySteps
<1>5. ASSUME NEW p \in Attempts, Unrecorded(p) \/ \E f \in FileNames : Make(p, f) PROVE Holds
  BY <1>1, <1>2, <1>5, MakingSteps
<1>6. ASSUME NEW p \in Attempts,
             Identities(p) \/ Stop(p) \/ StopSurvived(p) \/ Wait(p) \/ HelperEnded(p)
               \/ Survivors(p) \/ Detached(p) \/ RemoveEntry(p) \/ Services(p) \/ CleanFails(p) \/ KillRemote(p)
      PROVE  Holds
  <2>1. CASE RemoveEntry(p) /\ Removes(p)
    BY <1>1, <1>2, <2>1, RemovalSteps
  <2>2. CASE ~(RemoveEntry(p) /\ Removes(p))
    <3>1. /\ \E x \in ProbePlaces : CleanMove(p, x)
          /\ UNCHANGED <<entries, start, observed, broken, disturbed, gap, local, moved>>
      BY <1>1, <1>6, <2>2, CleaningMoves
    <3> QED
      BY <1>1, <1>2, <3>1, CleaningSteps
  <2> QED
    BY <2>1, <2>2
<1>7. ASSUME UnitEnds \/ Unload \/ Escape \/ OthersAct \/ (\E p \in Attempts : Detach(p)) \/ UNCHANGED hostVars
      PROVE  Holds
  <2>1. HostPlaces' /\ \A q \in Attempts : StaysPut(q)
    BY <1>1, <1>7, BesideSteps
  <2>2. 0 \in 0 .. MaxAttempts /\ 0 \notin Attempts
    BY HostConstants DEF Attempts
  <2>3. MovesAlone(0)
    BY <2>1, <2>2 DEF MovesAlone
  <2> QED
    BY <2>1, <2>2, <2>3
<1>8. Holds
  BY <1>3, <1>4, <1>5, <1>6, <1>7 DEF HostNext
<1>9. \A q \in Attempts : StaysPut(q) => Stands(q)'
  BY <1>1, StandsAside
<1> QED
  BY <1>8, <1>9 DEF MovesAlone

LEMMA HostStarts == HostInit => HostInv
<1> SUFFICES ASSUME HostInit PROVE HostInv
  OBVIOUS
<1> USE People DEF HostInit, NoUnit
<1>1. HostTyped
  <2>1. << >> \in Seq(FileNames) /\ "off" \in ProbePlaces
    BY EmptySeq DEF ProbePlaces
  <2> QED
    BY <2>1 DEF HostTyped
<1>2. \A p \in Attempts : Recorded(p) = {} /\ Unrepeated(entries[p])
  BY DEF Recorded, ToSet, Unrepeated
<1>3. RecordsHold /\ MadeIsRecorded /\ UsersAreAttached
  BY <1>2 DEF RecordsHold, MadeIsRecorded, UsersAreAttached, Busy
<1>4. \A p \in Attempts : Stands(p)
  BY <1>2 DEF Stands
<1> QED
  BY <1>1, <1>3, <1>4 DEF HostInv

LEMMA HostKeeps == ASSUME HostInv, [HostNext]_hostVars PROVE HostInv'
<1>1. HostTyped /\ RecordsHold /\ MadeIsRecorded /\ UsersAreAttached /\ \A p \in Attempts : Stands(p)
  BY DEF HostInv
<1>2. /\ maker' \in [FileNames -> 0 .. Other] /\ entries' \in [Attempts -> Seq(FileNames)]
      /\ RecordsHold' /\ MadeIsRecorded'
  BY <1>1, FilesKeep
<1>3. HostPlaces' /\ \A q \in Attempts : Stands(q)'
  BY OneMoves
<1>4. HostTyped'
  BY <1>1, <1>2, <1>3, UnitKeeps DEF HostTyped, HostPlaces
<1>5. ASSUME NEW q \in Attempts, q \in attached' PROVE "image" \in Recorded(q)'
  <2>1. "image" \in Recorded(q)
    BY <1>1, <1>5, UsersMove DEF UsersAreAttached, Stands
  <2>2. CASE entries' = entries
    BY <2>1, <2>2 DEF Recorded
  <2>3. ASSUME NEW p \in Attempts, NEW f \in FileNames, Make(p, f) PROVE "image" \in Recorded(q)'
    <3>1. entries' = [entries EXCEPT ![p] = Append(entries[p], f)]
      BY <2>3 DEF Make
    <3>2. ToSet(Append(entries[p], f)) = ToSet(entries[p]) \cup {f}
      BY <1>1, AppendRecords DEF HostTyped
    <3>3. entries'[p] = Append(entries[p], f) /\ (q # p => entries'[q] = entries[q])
      BY <1>1, <3>1 DEF HostTyped
    <3> QED
      BY <2>1, <3>2, <3>3 DEF Recorded
  <2>4. ASSUME NEW p \in Attempts, Removes(p) PROVE "image" \in Recorded(q)'
    <3>1. pc[p] = "remove" /\ attached' = attached /\ entries' = [entries EXCEPT ![p] = Front(entries[p])]
      BY <2>4 DEF Removes, Kernel
    <3>2. q # p
      BY <1>1, <1>5, <3>1 DEF Stands
    <3> QED
      BY <1>1, <2>1, <3>1, <3>2 DEF Recorded, HostTyped
  <2>5. (\E p \in Attempts : Unrecorded(p)) => entries' = entries
    BY DEF Unrecorded
  <2> QED
    BY <2>2, <2>3, <2>4, <2>5, FileSteps
<1>6. UsersAreAttached'
  BY <1>1, <1>5, UsersMove DEF UsersAreAttached
<1> QED
  BY <1>2, <1>3, <1>4, <1>6 DEF HostInv

LEMMA HostTypes == HostInv => HostTypeOK
BY DEF HostInv, HostTyped, HostTypeOK, ProbePlaces

LEMMA AnswersHold == HostInv => AnswersAreTrue
<1> SUFFICES ASSUME HostInv, NEW p \in Attempts
             PROVE  /\ local[p] = "passed" => p \in observed /\ p \notin disturbed /\ p \notin moved
                    /\ pc[p] = "ended" /\ p \notin errors \cup gap => ~LeftBy(p)
                    /\ local[p] = "passed" => ~LeftBy(p)
  BY DEF AnswersAreTrue
<1>1. Stands(p) /\ UsersAreAttached /\ MadeIsRecorded
  BY DEF HostInv
<1>2. pc[p] = "ended" /\ p \notin errors \cup gap => ~LeftBy(p)
  BY <1>1 DEF Stands, UsersAreAttached, MadeIsRecorded, LeftBy, Busy
<1>3. local[p] = "passed" => pc[p] = "ended" /\ p \notin errors \cup gap /\ p \in observed /\ p \notin moved /\ p \notin disturbed
  BY <1>1 DEF Stands, Complete
<1> QED
  BY <1>2, <1>3

\* Only its own attempt stops a unit.
LEMMA UnitIsTaken ==
    ASSUME HostInv, [HostNext]_hostVars, NEW q \in Attempts, unit.whose = q, unit' # unit
    PROVE  entries' = entries /\ \A p \in Attempts \ {q} : pc'[p] = pc[p]
<1>1. HostTyped /\ RecordsHold /\ UsersAreAttached /\ \A p \in Attempts : Stands(p)
  BY DEF HostInv
<1>2. unit # NoUnit
  BY People DEF NoUnit
<1>3. ASSUME NEW p \in Attempts, Stop(p) \/ StopSurvived(p) \/ CleanFails(p)
      PROVE  entries' = entries /\ p = q /\ \E x \in ProbePlaces : To(p, x)
  <2>1. CASE Stop(p)
    <3>1. Mine(p) /\ pc[p] = "stop" /\ To(p, "wait") /\ entries' = entries
      BY <1>2, <2>1 DEF Stop, CleanFrame
    <3>2. start[p] # "claimed" => p = q
      BY <1>1, <3>1 DEF RecordsHold, UsersAreAttached, Busy, Stands
    <3>3. p = q
      BY <3>1, <3>2 DEF Mine
    <3>4. "wait" \in ProbePlaces
      BY DEF ProbePlaces, Clean
    <3> QED
      BY <3>1, <3>3, <3>4
  <2>2. CASE StopSurvived(p)
    BY <2>2 DEF StopSurvived, CleanFrame, ProbePlaces, Clean
  <2>3. CASE CleanFails(p)
    <3>1. /\ unit.whose = p /\ entries' = entries
          /\ To(p, IF pc[p] = "identities" THEN "ended" ELSE "services")
      BY <2>3 DEF CleanFails, CleanFrame, Keeps
    <3>2. "ended" \in ProbePlaces /\ "services" \in ProbePlaces
      BY DEF ProbePlaces, Clean
    <3> QED
      BY <3>1, <3>2
  <2> QED
    BY <1>3, <2>1, <2>2, <2>3
<1>4. ASSUME NEW p \in Attempts,
             Submit(p) \/ AnswerLost(p) \/ Answer(p) \/ SourceChanges(p) \/ Observe(p) \/ UnitFree(p) \/ Claim(p)
               \/ Watch(p) \/ Unrecorded(p) \/ Identities(p) \/ Wait(p) \/ HelperEnded(p) \/ StartGateway(p)
               \/ Survivors(p) \/ Detached(p) \/ RemoveEntry(p) \/ Services(p) \/ KillRemote(p) \/ Detach(p)
               \/ \E f \in FileNames : Make(p, f)
      PROVE  FALSE
  BY <1>4 DEF Submit, AnswerLost, Answer, SourceChanges, Observe, UnitFree, Claim, Watch, Unrecorded, StartGateway,
     Identities, Wait, HelperEnded, Survivors, Detached, RemoveEntry, Services, KillRemote, Make, Detach, Kernel
<1>5. ASSUME NEW p \in Attempts, StartUnit(p) \/ BodyFails(p) PROVE FALSE
  BY <1>2, <1>5 DEF StartUnit, BodyFails
<1>6. CASE UnitEnds \/ Unload \/ Escape \/ OthersAct \/ UNCHANGED hostVars
  BY <1>6 DEF UnitEnds, Unload, Escape, OthersAct, Env, hostVars
<1>7. HostPlaces
  BY <1>1 DEF HostTyped, HostPlaces
<1> QED
  BY <1>3, <1>4, <1>5, <1>6, <1>7, MoveTyping DEF HostNext

\* No file of others and no unit of others is touched.
LEMMA HostStepIsOwn ==
    ASSUME HostInv, [HostNext]_hostVars
    PROVE  /\ \A p \in Attempts : (maker["image"] = p /\ maker'["image"] = Nobody) =>
                unit.whose # p /\ p \notin procs \cup helper \cup escaped \cup attached
           /\ \A f \in FileNames : maker[f] = Other => maker'[f] = Other
           /\ unit.whose = Other => unit' = unit
           /\ \A p, q \in Attempts : p # q /\ <<pc[p], entries[p]>>' # <<pc[p], entries[p]>> =>
                /\ \A f \in FileNames : maker[f] = q => maker'[f] = q
                /\ unit.whose = q => unit' = unit
<1>1. HostTyped /\ RecordsHold /\ UsersAreAttached /\ \A p \in Attempts : Stands(p)
  BY DEF HostInv
<1>2. "image" \in FileNames
  BY DEF FileNames
<1>4. /\ unit.whose = Other => unit' = unit
      /\ \A p, q \in Attempts : p # q /\ <<pc[p], entries[p]>>' # <<pc[p], entries[p]>> => (unit.whose = q => unit' = unit)
  BY <1>1, UnitKeeps, UnitIsTaken
<1>3. CASE UNCHANGED entries /\ FilesStay
  <2>1. \A f \in FileNames : maker'[f] = maker[f] \/ (maker[f] \in Attempts /\ maker'[f] = Other /\ pc' = pc)
    <3>1. ASSUME NEW f \in FileNames, maker[f] \in Attempts, maker' = [maker EXCEPT ![f] = Other], pc' = pc
          PROVE  \A g \in FileNames : maker'[g] = maker[g] \/ (maker[g] \in Attempts /\ maker'[g] = Other /\ pc' = pc)
      BY <1>1, <3>1 DEF HostTyped
    <3> QED
      BY <1>3, <3>1 DEF FilesStay
  <2> QED
    BY <1>2, <1>3, <1>4, <2>1, People
<1>5. ASSUME NEW p \in Attempts, NEW f \in FileNames, maker[f] = Nobody, maker' = [maker EXCEPT ![f] = p]
      PROVE  \A g \in FileNames : maker[g] # Nobody => maker'[g] = maker[g]
  BY <1>1, <1>5 DEF HostTyped
<1>6. CASE (\E p \in Attempts : Unrecorded(p)) \/ \E p \in Attempts, f \in FileNames : Make(p, f)
  <2>1. \E p \in Attempts, f \in FileNames : maker[f] = Nobody /\ maker' = [maker EXCEPT ![f] = p]
    BY <1>6 DEF Unrecorded, Make, Refuses
  <2>2. \A g \in FileNames : maker[g] # Nobody => maker'[g] = maker[g]
    BY <1>5, <2>1
  <2> QED
    BY <1>2, <1>4, <2>2, People
<1>7. ASSUME NEW r \in Attempts, Removes(r)
      PROVE  /\ \A p \in Attempts : (maker["image"] = p /\ maker'["image"] = Nobody) =>
                  unit.whose # p /\ p \notin procs \cup helper \cup escaped \cup attached
             /\ \A f \in FileNames : maker[f] = Other => maker'[f] = Other
             /\ \A p, q \in Attempts : p # q /\ <<pc[p], entries[p]>>' # <<pc[p], entries[p]>> =>
                  \A f \in FileNames : maker[f] = q => maker'[f] = q
  <2> DEFINE e == Last(entries[r])
  <2>1. /\ pc[r] = "remove" /\ maker[e] = r /\ maker' = [maker EXCEPT ![e] = Nobody] /\ pc' = pc
        /\ entries' = [entries EXCEPT ![r] = Front(entries[r])]
    BY <1>7 DEF Removes
  <2> HIDE DEF e
  <2>2. \A f \in FileNames : maker[f] # r => maker'[f] = maker[f]
    BY <1>1, <2>1 DEF HostTyped
  <2>3. r \notin attached /\ ~Busy(r)
    BY <1>1, <2>1 DEF Stands, UsersAreAttached
  <2>4. \A p \in Attempts : <<pc[p], entries[p]>>' # <<pc[p], entries[p]>> => p = r
    BY <1>1, <2>1 DEF HostTyped
  <2> QED
    BY <1>2, <2>2, <2>3, <2>4, People DEF Busy
<1> QED
  BY <1>3, <1>4, <1>6, <1>7, FileSteps

-----------------------------------------------------------------------------
(* The transfer of Semaphore keeps its dumps.                              *)

Sending == {"seek", "unmark", "dump", "sums", "verify", "mark", "confirm"}
OverShare == {"share", "examine", "purge"}

\* A marker that comes after a difference outlived its deletion.
DumpMarkersVouch == \A d \in Archives : "COMPLETE" \in shareFiles[d] => d \notin differing \ outlived

\* What a run took for the age of a dump was its age, and a dump is kept until it expires.
DumpsAreKept ==
    \A d \in Archives :
        /\ then[d] = "fresh" => dumpAge[d] # "none"
        /\ then[d] = "old" => dumpAge[d] \in {"old", "expired"}
        /\ then[d] = "expired" => dumpAge[d] = "expired"
        /\ hostFiles[d] # {} => d \in hostDirs
        /\ dumpAge[d] = "none" => d \notin hostDirs
        /\ dumpAge[d] = "fresh" => d \in Sealed
        /\ dumpAge[d] = "old" => d \in Sealed \cup Vouched

\* What each duty rests on.
DutyRests ==
    /\ duty \in Sending => dump \in Sealed
    /\ duty \in Sending \cup {"retire"} => then[dump] # "none"
    /\ duty \in Sending \ {"seek"} => then[dump] # "expired"
    /\ duty = "mark" => dump \notin differing
    /\ duty = "retire" => dump \in Vouched /\ then[dump] \in {"old", "expired"}
    /\ duty \in Sending \cup {"local", "retire"} => \A d \in queue : then[d] # "none"
    /\ duty \in {"examine", "purge"} => dump \in Archives /\ then[dump] = "expired"

\* A dump is on the sides its age wants it on, as far as the first loop sees to it.
HostDone(d) ==
    /\ then[d] = "fresh" => d \in Sealed \cap Vouched
    /\ then[d] = "old" => d \in Vouched \ hostDirs
    /\ then[d] = "expired" => d \notin hostDirs

\* Without an error so far, every dump is done or still to come.
DumpsAccounted ==
    /\ duty \in Sending \cup {"local", "retire"} /\ status = 0 =>
         \A d \in Archives : d \in queue \/ (duty # "local" /\ d = dump) \/ HostDone(d)
    /\ duty \in OverShare => \A d \in Archives : HostDone(d)
    /\ duty \in OverShare /\ status = 0 =>
         \A d \in shareDirs : then[d] = "expired" => d \in queue \/ (duty # "share" /\ d = dump)

DumpInv == DumpTypeOK /\ DumpMarkersVouch /\ DumpsAreKept /\ DutyRests /\ DumpsAccounted
\* What a command on the share does to the dump the run is at.
ShareMove(f) ==
    \/ PlaceDump
    \/ Place(f) /\ UNCHANGED <<differing, outlived>>
    \/ Lift(f) /\ outlived' = outlived \ {dump} /\ UNCHANGED differing
    \/ UNCHANGED shareVars

DumpShareTypeOK ==
    /\ shareFiles \in [Archives -> SUBSET Exact] /\ shareDirs \subseteq Archives
    /\ differing \subseteq Archives /\ outlived \subseteq Archives

LEMMA ShareMoveTyping ==
    ASSUME DumpShareTypeOK, dump \in Archives, NEW f \in Exact, ShareMove(f)
    PROVE  DumpShareTypeOK'
<1> USE DEF DumpShareTypeOK, Exact, DumpFiles, Place, Lift
<1>1. CASE PlaceDump
  <2>1. differing' \subseteq Archives /\ outlived' \subseteq Archives
    BY <1>1 DEF PlaceDump
  <2> QED
    BY <1>1, <2>1 DEF PlaceDump
<1>2. CASE Place(f) /\ UNCHANGED <<differing, outlived>>
  BY <1>2
<1>3. CASE Lift(f) /\ outlived' = outlived \ {dump} /\ UNCHANGED differing
  BY <1>3
<1>4. CASE UNCHANGED shareVars
  BY <1>4 DEF shareVars
<1> QED
  BY <1>1, <1>2, <1>3, <1>4 DEF ShareMove

LEMMA FirstToPurge == ASSUME NEW files \in SUBSET Exact PROVE NextToPurge(files) \in Exact
BY DEF NextToPurge, Exact, DumpFiles

LEMMA DumpTyping ==
    ASSUME DumpInv, [DumpNext]_dumpVars
    PROVE  DumpTypeOK'
<1> USE ArchivesConstant, DumpConstants
<1> USE DEF DumpInv, DumpTypeOK, Archives, DumpFiles, Exact, Sending, keepsVars, shareVars, dutyVars, Goes, GivesUp,
            Mishap, Unmark, PlaceDump, Place, Lift
<1>0. duty \in Sending \cup {"retire", "examine", "purge"} => dump \in Archives
  BY DEF DutyRests, Sealed, Vouched
<1>1. CASE SealDump
  BY <1>0, <1>1 DEF SealDump, Ages
<1>2. CASE DumpsAge
  BY <1>0, <1>2 DEF DumpsAge, OneOlder, Older, Ages
<1>3. CASE StartRun
  BY <1>0, <1>3 DEF StartRun
<1>4. CASE TakeDump
  BY <1>0, <1>4 DEF TakeDump, IsFirst
<1>5. CASE SeekComplete
  BY <1>0, <1>5 DEF SeekComplete, ToRetire
<1>6. CASE SeekMissing
  BY <1>0, <1>6 DEF SeekMissing
<1>7. CASE DeleteMarker
  <2>1. DumpShareTypeOK /\ dump \in Archives
    BY <1>0, <1>7 DEF DeleteMarker, DumpShareTypeOK
  <2>2. \E f \in Exact : ShareMove(f)
    <3>1. \/ Lift("COMPLETE") /\ outlived' = outlived \ {dump} /\ UNCHANGED differing
          \/ UNCHANGED shareVars
      BY <1>7 DEF DeleteMarker
    <3> QED
      BY <3>1 DEF ShareMove
  <2>3. DumpShareTypeOK'
    BY <2>1, <2>2, ShareMoveTyping
  <2>4. mishaps' \in 0..MaxMishaps
    BY <1>7 DEF DeleteMarker
  <2> QED
    BY <1>7, <2>3, <2>4 DEF DeleteMarker, DumpShareTypeOK
<1>8. CASE SendDump
  BY <1>0, <1>8 DEF SendDump
<1>9. CASE SendSums
  BY <1>0, <1>9 DEF SendSums
<1>10. CASE ReadBack
  BY <1>0, <1>10 DEF ReadBack
<1>11. CASE ReadBackDiffers
  BY <1>0, <1>11 DEF ReadBackDiffers
<1>12. CASE SendMarker
  BY <1>0, <1>12 DEF SendMarker
<1>13. CASE ConfirmMarker
  BY <1>0, <1>13 DEF ConfirmMarker, ToRetire
<1>14. CASE TakeMarkerBack
  <2>1. DumpShareTypeOK /\ dump \in Archives
    BY <1>0, <1>14 DEF TakeMarkerBack, DumpShareTypeOK
  <2>2. \E f \in Exact : ShareMove(f)
    BY <1>14 DEF TakeMarkerBack, ShareMove
  <2>3. DumpShareTypeOK'
    BY <2>1, <2>2, ShareMoveTyping
  <2> QED
    BY <1>14, <2>3 DEF TakeMarkerBack, DumpShareTypeOK
<1>15. CASE UploadFails
  <2>1. DumpShareTypeOK /\ dump \in Archives
    BY <1>0, <1>15 DEF UploadFails, DumpShareTypeOK
  <2>2. \E f \in Exact : ShareMove(f)
    BY <1>15 DEF UploadFails, ShareMove
  <2>3. DumpShareTypeOK'
    BY <2>1, <2>2, ShareMoveTyping
  <2> QED
    BY <1>15, <2>3 DEF UploadFails, DumpShareTypeOK
<1>16. CASE RemoveHostFile
  BY <1>0, <1>16 DEF RemoveHostFile
<1>17. CASE RemoveHostDirectory
  BY <1>0, <1>17 DEF RemoveHostDirectory
<1>18. CASE RetireFailsSafely
  BY <1>0, <1>18 DEF RetireFailsSafely
<1>19. CASE ListShare
  <2>1. duty' \in {"local", "share"} /\ status' \in {0, 1}
    BY <1>19 DEF ListShare
  <2>2. queue' \subseteq Archives
    BY <1>19 DEF ListShare
  <2>3. mishaps' \in 0..MaxMishaps
    BY <1>19 DEF ListShare
  <2> QED
    BY <1>19, <2>1, <2>2, <2>3 DEF ListShare
<1>20. CASE TakeShared
  BY <1>0, <1>20 DEF TakeShared, IsFirst
<1>21. CASE ExamineShared
  BY <1>0, <1>21 DEF ExamineShared
<1>22. CASE PreserveUnsafe
  BY <1>0, <1>22 DEF PreserveUnsafe
<1>23. CASE PurgeSharedFile
  BY <1>0, <1>23 DEF PurgeSharedFile, NextToPurge
<1>24. CASE PurgeSharedDirectory
  BY <1>0, <1>24 DEF PurgeSharedDirectory
<1>25. CASE PurgeFails
  <2>1. DumpShareTypeOK /\ dump \in Archives
    BY <1>0, <1>25 DEF PurgeFails, DumpShareTypeOK
  <2>2. \E f \in Exact : ShareMove(f)
    BY <1>25, FirstToPurge DEF PurgeFails, ShareMove
  <2>3. DumpShareTypeOK'
    BY <2>1, <2>2, ShareMoveTyping
  <2> QED
    BY <1>25, <2>3 DEF PurgeFails, DumpShareTypeOK
<1>26. CASE RunEnds
  BY <1>0, <1>26 DEF RunEnds, Unsealed, Ages
<1>27. CASE RunIsKilled
  BY <1>0, <1>27 DEF RunIsKilled, Unsealed, Ages
<1>28. CASE UNCHANGED dumpVars
  BY <1>28 DEF dumpVars
<1> QED
  BY <1>1, <1>2, <1>3, <1>4, <1>5, <1>6, <1>7, <1>8, <1>9, <1>10, <1>11, <1>12, <1>13, <1>14, <1>15, <1>16, <1>17, <1>18, <1>19, <1>20, <1>21, <1>22, <1>23, <1>24, <1>25, <1>26, <1>27, <1>28 DEF DumpNext

\* The steps of a run on the share and on the host, and those beside it.
OnDump == DeleteMarker \/ SendDump \/ SendSums \/ ReadBack \/ SendMarker \/ TakeMarkerBack \/ UploadFails
Purging == PurgeSharedFile \/ PurgeSharedDirectory \/ PurgeFails
Retiring == RemoveHostFile \/ RemoveHostDirectory \/ RetireFailsSafely
BesideDumps == SealDump \/ DumpsAge

\* Only what the share has of one dump changes, and its marker still vouches.
ShareOfOne ==
    /\ \A d \in Archives \ {dump} :
         /\ shareFiles'[d] = shareFiles[d]
         /\ d \in differing' <=> d \in differing
         /\ d \in outlived' <=> d \in outlived
         /\ d \in shareDirs' <=> d \in shareDirs
    /\ "COMPLETE" \in shareFiles'[dump] => dump \notin differing' \ outlived'

LEMMA VouchedIsComplete ==
    ASSUME DumpMarkersVouch PROVE Vouched = {d \in Archives : ShareComplete(d)}
BY DEF DumpMarkersVouch, Vouched, ShareComplete, Exact

LEMMA ShareOfOneKeeps ==
    ASSUME DumpInv, dump \in Archives, ShareOfOne
    PROVE  /\ DumpMarkersVouch'
           /\ Vouched' \in {Vouched, Vouched \cup {dump}, Vouched \ {dump}}
<1>1. DumpMarkersVouch'
  BY DEF DumpInv, DumpMarkersVouch, ShareOfOne
<1>2. \A d \in Archives \ {dump} : d \in Vouched' <=> d \in Vouched
  BY DEF ShareOfOne, Vouched, ShareComplete
<1>3. Vouched \subseteq Archives /\ Vouched' \subseteq Archives
  BY DEF Vouched
<1> QED
  BY <1>1, <1>2, <1>3

LEMMA SendingIsOfOne ==
    ASSUME DumpInv, OnDump
    PROVE  /\ UNCHANGED <<keepsVars, dump, queue, then>> /\ ShareOfOne
           /\ duty \in Sending /\ duty' \in (Sending \ {"seek", "unmark"}) \cup {"local"}
           /\ (duty' = "local" => status' = 1) /\ (status' = 0 => status = 0)
           /\ dump \in Sealed /\ then[dump] # "expired" /\ then[dump] # "none"
           /\ (duty' = "mark" => dump \notin differing')
<1> USE DEF Sending, Goes, GivesUp, Mishap
<1>1. /\ duty \in Sending \ {"seek"} /\ dump \in Sealed /\ then[dump] # "expired" /\ then[dump] # "none"
      /\ duty = "mark" => dump \notin differing
  BY DEF OnDump, DeleteMarker, SendDump, SendSums, ReadBack, SendMarker, TakeMarkerBack, UploadFails, DumpInv, DutyRests
<1>2. UNCHANGED <<keepsVars, dump, queue, then>>
  BY DEF OnDump, DeleteMarker, SendDump, SendSums, ReadBack, SendMarker, TakeMarkerBack, UploadFails
<1>3. /\ duty' \in (Sending \ {"seek", "unmark"}) \cup {"local"} /\ (duty' = "local" => status' = 1)
      /\ status' = 0 => status = 0
  BY DEF OnDump, DeleteMarker, SendDump, SendSums, ReadBack, SendMarker, TakeMarkerBack, UploadFails
<1>4. duty' = "mark" => dump \notin differing'
  BY DEF OnDump, DeleteMarker, SendDump, SendSums, ReadBack, SendMarker, TakeMarkerBack, UploadFails
<1>5. /\ shareFiles \in [Archives -> SUBSET Exact] /\ dump \in Archives
      /\ "COMPLETE" \in shareFiles[dump] => dump \notin differing \ outlived
  BY <1>1 DEF DumpInv, DumpTypeOK, DumpMarkersVouch, Sealed
<1>6. ShareOfOne
  <2> USE DEF Place, Lift
  <2>1. CASE PlaceDump
    BY <1>5, <2>1 DEF PlaceDump, ShareOfOne
  <2>2. CASE Place("SHA256SUMS") /\ UNCHANGED <<differing, outlived>>
    BY <1>5, <2>2 DEF ShareOfOne
  <2>3. CASE Place("COMPLETE") /\ UNCHANGED <<differing, outlived>> /\ dump \notin differing
    BY <1>5, <2>3 DEF ShareOfOne
  <2>4. CASE Unmark
    BY <1>5, <2>4 DEF Unmark, ShareOfOne
  <2>5. CASE UNCHANGED shareVars
    BY <1>5, <2>5 DEF shareVars, ShareOfOne
  <2>6. CASE ReadBack
    BY <1>5, <2>6 DEF ReadBack, ShareOfOne
  <2> HIDE DEF Place, Lift
  <2>7. CASE DeleteMarker \/ SendDump \/ SendSums \/ TakeMarkerBack
    BY <2>7, <2>1, <2>2, <2>4, <2>5 DEF DeleteMarker, SendDump, SendSums, TakeMarkerBack, shareVars
  <2>8. CASE SendMarker
    BY <1>1, <2>8, <2>3 DEF SendMarker
  <2>9. CASE UploadFails
    BY <1>1, <2>9, <2>1, <2>2, <2>3, <2>5 DEF UploadFails
  <2> QED
    BY <2>6, <2>7, <2>8, <2>9 DEF OnDump
<1> QED
  BY <1>1, <1>2, <1>3, <1>4, <1>6

LEMMA PurgingIsOfOne ==
    ASSUME DumpInv, Purging
    PROVE  /\ UNCHANGED <<keepsVars, dump, queue, then>> /\ ShareOfOne
           /\ duty = "purge" /\ dump \in Archives /\ then[dump] = "expired"
           /\ shareDirs' \subseteq shareDirs /\ duty' \in {"purge", "share"}
           /\ duty' = "purge" => status' = status
           /\ duty' = "share" => status' = 1 \/ (status' = status /\ dump \notin shareDirs')
<1> USE DEF Goes, GivesUp, Mishap
<1>1. duty = "purge" /\ dump \in Archives /\ then[dump] = "expired"
  BY DEF Purging, PurgeSharedFile, PurgeSharedDirectory, PurgeFails, DumpInv, DutyRests
<1>2. UNCHANGED <<keepsVars, dump, queue, then>>
  BY DEF Purging, PurgeSharedFile, PurgeSharedDirectory, PurgeFails
<1>3. /\ duty' \in {"purge", "share"} /\ (duty' = "purge" => status' = status)
      /\ duty' = "share" => status' = 1 \/ (status' = status /\ shareDirs' = shareDirs \ {dump})
  BY DEF Purging, PurgeSharedFile, PurgeSharedDirectory, PurgeFails
<1>4. /\ shareFiles \in [Archives -> SUBSET Exact]
      /\ "COMPLETE" \in shareFiles[dump] => dump \notin differing \ outlived
  BY <1>1 DEF DumpInv, DumpTypeOK, DumpMarkersVouch
<1>5. ShareOfOne /\ shareDirs' \subseteq shareDirs
  <2>1. CASE UNCHANGED shareVars
    BY <1>4, <2>1 DEF shareVars, ShareOfOne
  <2>2. CASE Lift(NextToPurge(shareFiles[dump])) /\ outlived' = outlived \ {dump} /\ UNCHANGED differing
    <3>1. "COMPLETE" \notin shareFiles'[dump]
      BY <1>1, <1>4, <2>2 DEF Lift, NextToPurge
    <3> QED
      BY <1>4, <2>2, <3>1 DEF Lift, ShareOfOne
  <2>3. CASE PurgeSharedDirectory
    BY <1>4, <2>3 DEF PurgeSharedDirectory, ShareOfOne
  <2>4. CASE PurgeSharedFile
    BY <2>2, <2>4 DEF PurgeSharedFile
  <2>5. CASE PurgeFails
    BY <2>1, <2>2, <2>5 DEF PurgeFails
  <2> QED
    BY <2>3, <2>4, <2>5 DEF Purging
<1> QED
  BY <1>1, <1>2, <1>3, <1>5

\* A purge never completes anything.
LEMMA PurgingTakes ==
    ASSUME DumpInv, Purging PROVE Vouched' \in {Vouched, Vouched \ {dump}}
<1> USE DEF Goes, GivesUp, Mishap
<1>1. dump \in Archives /\ ShareOfOne /\ shareFiles \in [Archives -> SUBSET Exact]
  BY PurgingIsOfOne DEF DumpInv, DumpTypeOK
<1>2. shareFiles'[dump] \subseteq shareFiles[dump]
  BY <1>1 DEF Purging, PurgeSharedFile, PurgeSharedDirectory, PurgeFails, Lift, shareVars
<1>3. /\ DumpMarkersVouch' /\ DumpMarkersVouch
      /\ Vouched' \in {Vouched, Vouched \cup {dump}, Vouched \ {dump}}
  BY <1>1, ShareOfOneKeeps DEF DumpInv
<1>4. dump \in Vouched' => dump \in Vouched
  <2>1. dump \in Vouched' => shareFiles'[dump] = Exact
    BY DEF Vouched, ShareComplete
  <2>2. dump \in Vouched' => shareFiles[dump] = Exact
    BY <1>1, <1>2, <2>1
  <2> QED
    BY <1>1, <1>3, <2>2, VouchedIsComplete DEF ShareComplete
<1> QED
  BY <1>3, <1>4

LEMMA RetiringIsOfOne ==
    ASSUME DumpInv, Retiring
    PROVE  /\ UNCHANGED <<dumpAge, shareVars, dump, queue, then>>
           /\ duty = "retire" /\ dump \in Vouched /\ then[dump] \in {"old", "expired"}
           /\ duty' \in {"retire", "local"} /\ hostDirs' \subseteq hostDirs
           /\ duty' = "retire" => status' = status
           /\ duty' = "local" => status' = 1 \/ (status' = status /\ hostDirs' = hostDirs \ {dump})
           /\ \A d \in Archives : /\ d # dump => hostFiles'[d] = hostFiles[d] /\ (d \in hostDirs' <=> d \in hostDirs)
                                  /\ hostFiles'[d] # {} => d \in hostDirs'
           /\ Sealed' \in {Sealed, Sealed \ {dump}}
<1> USE DEF Mishap
<1>1. duty = "retire" /\ dump \in Vouched /\ then[dump] \in {"old", "expired"} /\ dump \in Archives
  BY DEF Retiring, RemoveHostFile, RemoveHostDirectory, RetireFailsSafely, DumpInv, DutyRests, Vouched
<1>2. UNCHANGED <<dumpAge, shareVars, dump, queue, then>>
  BY DEF Retiring, RemoveHostFile, RemoveHostDirectory, RetireFailsSafely, dutyVars
<1>3. /\ duty' \in {"retire", "local"} /\ hostDirs' \subseteq hostDirs
      /\ duty' = "retire" => status' = status
      /\ duty' = "local" => status' = 1 \/ (status' = status /\ hostDirs' = hostDirs \ {dump})
  BY <1>1 DEF Retiring, RemoveHostFile, RemoveHostDirectory, RetireFailsSafely, dutyVars
<1>4. hostFiles \in [Archives -> SUBSET DumpFiles] /\ (\A d \in Archives : hostFiles[d] # {} => d \in hostDirs)
  BY DEF DumpInv, DumpTypeOK, DumpsAreKept
<1>5. \A d \in Archives : /\ d # dump => hostFiles'[d] = hostFiles[d] /\ (d \in hostDirs' <=> d \in hostDirs)
                          /\ hostFiles'[d] # {} => d \in hostDirs'
                          /\ hostFiles'[d] \subseteq hostFiles[d]
  <2>1. CASE RemoveHostFile
    BY <1>1, <1>4, <2>1 DEF RemoveHostFile
  <2>2. CASE RemoveHostDirectory
    BY <1>1, <1>4, <2>2 DEF RemoveHostDirectory
  <2>3. CASE RetireFailsSafely
    BY <1>1, <1>4, <2>3 DEF RetireFailsSafely
  <2> QED
    BY <2>1, <2>2, <2>3 DEF Retiring
<1>6. Sealed' \in {Sealed, Sealed \ {dump}}
  <2>1. \A d \in Archives : d # dump => (d \in Sealed' <=> d \in Sealed)
    BY <1>5 DEF Sealed
  <2>2. dump \in Sealed' => dump \in Sealed
    BY <1>1, <1>4, <1>5 DEF Sealed, DumpFiles
  <2>3. Sealed \subseteq Archives /\ Sealed' \subseteq Archives
    BY DEF Sealed
  <2> QED
    BY <2>1, <2>2, <2>3
<1> QED
  BY <1>1, <1>2, <1>3, <1>5, <1>6

LEMMA BesideDumpsKeeps ==
    ASSUME DumpInv, BesideDumps
    PROVE  /\ UNCHANGED <<shareVars, dutyVars, mishaps>>
           /\ Sealed \subseteq Sealed' /\ hostDirs \subseteq hostDirs'
           /\ \A d \in Archives :
                /\ dumpAge[d] # "none" => dumpAge'[d] # "none" /\ (d \in hostDirs' <=> d \in hostDirs)
                /\ dumpAge[d] \in {"old", "expired"} => dumpAge'[d] \in {"old", "expired"}
                /\ dumpAge[d] = "expired" => dumpAge'[d] = "expired"
                /\ hostFiles'[d] # {} => d \in hostDirs'
                /\ dumpAge'[d] = "none" => d \notin hostDirs'
                /\ dumpAge'[d] = "fresh" => d \in Sealed'
                /\ dumpAge'[d] = "old" => d \in Sealed' \cup Vouched
<1> USE DEF DumpInv, DumpTypeOK, DumpsAreKept, Sealed, Ages, DumpFiles
<1>1. CASE SealDump
  BY <1>1 DEF SealDump, NextName
<1>2. CASE DumpsAge
  BY <1>2 DEF DumpsAge, OneOlder, Older
<1> QED
  BY <1>1, <1>2 DEF BesideDumps

LEMMA QuietSteps ==
    ASSUME [DumpNext]_dumpVars, ~OnDump, ~Purging, ~Retiring, ~BesideDumps
    PROVE  UNCHANGED <<keepsVars, shareVars>>
<1> USE DEF Goes, GivesUp
<1>1. CASE StartRun \/ TakeDump \/ SeekComplete \/ SeekMissing \/ ReadBackDiffers \/ ConfirmMarker
  BY <1>1 DEF StartRun, TakeDump, SeekComplete, SeekMissing, ReadBackDiffers, ConfirmMarker
<1>2. CASE ListShare \/ TakeShared \/ ExamineShared \/ PreserveUnsafe \/ RunEnds \/ RunIsKilled
  BY <1>2 DEF ListShare, TakeShared, ExamineShared, PreserveUnsafe, RunEnds, RunIsKilled
<1>3. CASE UNCHANGED dumpVars
  BY <1>3 DEF dumpVars
<1> QED
  BY <1>1, <1>2, <1>3 DEF DumpNext, OnDump, Purging, Retiring, BesideDumps

LEMMA DumpMarkersKeepVouching ==
    ASSUME DumpInv, [DumpNext]_dumpVars
    PROVE  DumpMarkersVouch'
<1>1. CASE OnDump
  BY <1>1, SendingIsOfOne, ShareOfOneKeeps DEF Sealed
<1>2. CASE Purging
  BY <1>2, PurgingIsOfOne, ShareOfOneKeeps
<1>3. CASE UNCHANGED shareVars
  BY <1>3 DEF shareVars, DumpInv, DumpMarkersVouch
<1> QED
  BY <1>1, <1>2, <1>3, RetiringIsOfOne, BesideDumpsKeeps, QuietSteps

\* What a run takes for the ages is what they are, or nothing.
LEMMA ThenIsKept ==
    ASSUME DumpInv, [DumpNext]_dumpVars
    PROVE  then' = then \/ then' = Unsealed \/ StartRun
<1> USE DEF Goes, GivesUp, dutyVars
<1>1. CASE StartRun \/ TakeDump \/ SeekComplete \/ SeekMissing \/ ReadBackDiffers \/ ConfirmMarker
  BY <1>1 DEF TakeDump, SeekComplete, SeekMissing, ReadBackDiffers, ConfirmMarker
<1>2. CASE ListShare \/ TakeShared \/ ExamineShared \/ PreserveUnsafe \/ RunEnds \/ RunIsKilled
  BY <1>2 DEF ListShare, TakeShared, ExamineShared, PreserveUnsafe, RunEnds, RunIsKilled
<1>3. CASE UNCHANGED dumpVars
  BY <1>3 DEF dumpVars
<1>4. CASE OnDump \/ Purging \/ Retiring \/ BesideDumps
  BY <1>4, SendingIsOfOne, PurgingIsOfOne, RetiringIsOfOne, BesideDumpsKeeps
<1> QED
  BY <1>1, <1>2, <1>3, <1>4 DEF DumpNext, OnDump, Purging, Retiring, BesideDumps

LEMMA DumpsStayKept ==
    ASSUME DumpInv, [DumpNext]_dumpVars
    PROVE  DumpsAreKept'
<1>1. \A d \in Archives :
        /\ dumpAge'[d] = "none" => d \notin hostDirs'
        /\ hostFiles'[d] # {} => d \in hostDirs'
        /\ dumpAge'[d] = "fresh" => d \in Sealed'
        /\ dumpAge'[d] = "old" => d \in Sealed' \cup Vouched'
  <2> USE DEF DumpInv, DumpsAreKept
  <2>1. CASE OnDump
    <3>1. /\ dump \in Archives /\ dump \in Sealed /\ UNCHANGED <<dumpAge, hostDirs, hostFiles>>
          /\ Vouched' \in {Vouched, Vouched \cup {dump}, Vouched \ {dump}}
      BY <2>1, SendingIsOfOne, ShareOfOneKeeps DEF Sealed, keepsVars
    <3> QED
      BY <3>1 DEF Sealed
  <2>2. CASE Purging
    <3>1. /\ dumpAge[dump] = "expired" /\ UNCHANGED <<dumpAge, hostDirs, hostFiles>>
          /\ Vouched' \in {Vouched, Vouched \ {dump}}
      BY <2>2, PurgingIsOfOne, PurgingTakes DEF keepsVars
    <3> QED
      BY <3>1 DEF Sealed
  <2>3. CASE Retiring
    <3>1. /\ dump \in Vouched /\ dumpAge[dump] \in {"old", "expired"} /\ dumpAge' = dumpAge
          /\ Sealed' \in {Sealed, Sealed \ {dump}} /\ hostDirs' \subseteq hostDirs
          /\ \A d \in Archives : hostFiles'[d] # {} => d \in hostDirs'
      BY <2>3, RetiringIsOfOne DEF Vouched
    <3>2. Vouched' = Vouched
      BY <2>3, RetiringIsOfOne DEF shareVars, Vouched, ShareComplete
    <3> QED
      BY <3>1, <3>2
  <2>4. CASE BesideDumps
    <3>1. Vouched' = Vouched
      BY <2>4, BesideDumpsKeeps DEF shareVars, Vouched, ShareComplete
    <3> QED
      BY <2>4, <3>1, BesideDumpsKeeps
  <2>5. CASE UNCHANGED <<keepsVars, shareVars>>
    BY <2>5 DEF keepsVars, shareVars, Sealed, Vouched, ShareComplete
  <2> QED
    BY <2>1, <2>2, <2>3, <2>4, <2>5, QuietSteps
<1>2. \A d \in Archives :
        /\ dumpAge[d] # "none" => dumpAge'[d] # "none"
        /\ dumpAge[d] \in {"old", "expired"} => dumpAge'[d] \in {"old", "expired"}
        /\ dumpAge[d] = "expired" => dumpAge'[d] = "expired"
  BY SendingIsOfOne, PurgingIsOfOne, RetiringIsOfOne, BesideDumpsKeeps, QuietSteps DEF keepsVars
<1>3. \A d \in Archives :
        /\ then'[d] = "fresh" => dumpAge'[d] # "none"
        /\ then'[d] = "old" => dumpAge'[d] \in {"old", "expired"}
        /\ then'[d] = "expired" => dumpAge'[d] = "expired"
  <2>1. CASE then' = then
    BY <1>2, <2>1 DEF DumpInv, DumpsAreKept
  <2>2. CASE then' = Unsealed
    BY <2>2 DEF Unsealed
  <2>3. CASE StartRun
    BY <2>3 DEF StartRun, keepsVars
  <2> QED
    BY <2>1, <2>2, <2>3, ThenIsKept
<1> QED
  BY <1>1, <1>3 DEF DumpsAreKept

\* The next duty rests on what the last one saw.
LEMMA DutiesKeepResting ==
    ASSUME DumpInv, [DumpNext]_dumpVars
    PROVE  DutyRests'
<1> USE DEF DumpInv, DutyRests, Sending
<1>1. CASE OnDump
  BY <1>1, SendingIsOfOne DEF keepsVars, Sealed
<1>2. CASE Purging
  BY <1>2, PurgingIsOfOne
<1>3. CASE Retiring
  <2>1. Vouched' = Vouched
    BY <1>3, RetiringIsOfOne DEF shareVars, Vouched, ShareComplete
  <2> QED
    BY <1>3, <2>1, RetiringIsOfOne
<1>4. CASE BesideDumps
  <2>1. Vouched' = Vouched
    BY <1>4, BesideDumpsKeeps DEF shareVars, Vouched, ShareComplete
  <2> QED
    BY <1>4, <2>1, BesideDumpsKeeps DEF dutyVars, shareVars
<1>5. CASE ~OnDump /\ ~Purging /\ ~Retiring /\ ~BesideDumps
  <2>1. Sealed' = Sealed /\ Vouched' = Vouched /\ differing' = differing
    BY <1>5, QuietSteps DEF keepsVars, shareVars, Sealed, Vouched, ShareComplete
  <2>2. CASE StartRun
    <3>1. duty' = "local" /\ queue' = hostDirs /\ then' = dumpAge
      BY <2>2 DEF StartRun
    <3> QED
      BY <3>1 DEF DumpsAreKept, DumpTypeOK
  <2>3. CASE TakeDump
    <3>1. dump' \in queue /\ queue' \subseteq queue /\ then' = then /\ duty = "local" /\ queue \subseteq Archives
      BY <2>3 DEF TakeDump, IsFirst, DumpTypeOK
    <3>2. (duty' = "seek" /\ hostFiles[dump'] = DumpFiles) \/ duty' = "local"
      BY <2>3 DEF TakeDump
    <3> QED
      BY <2>1, <3>1, <3>2 DEF Sealed
  <2>4. CASE SeekComplete \/ ConfirmMarker
    <3>1. /\ duty' = ToRetire /\ UNCHANGED <<dump, queue, then>> /\ ShareComplete(dump) /\ dump \in Sealed
          /\ then[dump] # "none" /\ \A d \in queue : then[d] # "none"
      BY <2>4 DEF SeekComplete, ConfirmMarker, Goes
    <3>2. dump \in Vouched /\ then[dump] \in Ages
      BY <3>1, VouchedIsComplete DEF Sealed, DumpTypeOK
    <3> QED
      BY <2>1, <3>1, <3>2 DEF ToRetire, Ages
  <2>5. CASE SeekMissing
    BY <2>1, <2>5 DEF SeekMissing
  <2>6. CASE ReadBackDiffers
    BY <2>6 DEF ReadBackDiffers, GivesUp
  <2>7. CASE ListShare \/ RunEnds \/ RunIsKilled \/ PreserveUnsafe
    <3>1. duty' \in {"idle", "local", "share"} /\ (duty' = "local" => UNCHANGED <<queue, then>> /\ duty = "local")
      BY <2>7 DEF ListShare, RunEnds, RunIsKilled, PreserveUnsafe, GivesUp
    <3> QED
      BY <3>1
  <2>8. CASE TakeShared
    <3>1. dump' \in Archives
      BY <2>8 DEF TakeShared, IsFirst, DumpTypeOK
    <3> QED
      BY <2>8, <3>1 DEF TakeShared
  <2>9. CASE ExamineShared
    BY <2>9 DEF ExamineShared, Goes
  <2>10. CASE UNCHANGED dumpVars
    BY <2>1, <2>10 DEF dumpVars, dutyVars
  <2> QED
    BY <1>5, <2>2, <2>3, <2>4, <2>5, <2>6, <2>7, <2>8, <2>9, <2>10 DEF DumpNext, OnDump, Purging, Retiring, BesideDumps
<1> QED
  BY <1>1, <1>2, <1>3, <1>4, <1>5

LEMMA DumpsStayAccounted ==
    ASSUME DumpInv, [DumpNext]_dumpVars
    PROVE  DumpsAccounted'
<1> USE DEF DumpInv, DumpsAccounted, Sending, OverShare
<1>1. CASE OnDump
  <2>1. /\ dump \in Archives /\ UNCHANGED <<keepsVars, queue, then, dump>> /\ duty \in Sending
        /\ duty' \in Sending \cup {"local"} /\ (duty' = "local" => status' = 1) /\ (status' = 0 => status = 0)
        /\ Vouched' \in {Vouched, Vouched \cup {dump}, Vouched \ {dump}}
    BY <1>1, SendingIsOfOne, ShareOfOneKeeps DEF Sealed
  <2>2. \A d \in Archives \ {dump} : HostDone(d) => HostDone(d)'
    BY <2>1 DEF HostDone, keepsVars, Sealed
  <2> QED
    BY <2>1, <2>2
<1>2. CASE Purging
  <2>1. /\ dump \in Archives /\ UNCHANGED <<keepsVars, queue, then, dump>> /\ duty = "purge"
        /\ then[dump] = "expired" /\ shareDirs' \subseteq shareDirs
        /\ duty' \in {"purge", "share"} /\ (duty' = "purge" => status' = status)
        /\ duty' = "share" => status' = 1 \/ (status' = status /\ dump \notin shareDirs')
    BY <1>2, PurgingIsOfOne
  <2>2. \A d \in Archives : HostDone(d) => HostDone(d)'
    BY <1>2, <2>1, PurgingTakes DEF HostDone, keepsVars, Sealed
  <2> QED
    BY <2>1, <2>2
<1>3. CASE Retiring
  <2>1. /\ dump \in Vouched /\ UNCHANGED <<shareVars, queue, then, dump>> /\ duty = "retire"
        /\ then[dump] \in {"old", "expired"} /\ duty' \in {"retire", "local"} /\ hostDirs' \subseteq hostDirs
        /\ duty' = "retire" => status' = status
        /\ duty' = "local" => status' = 1 \/ (status' = status /\ hostDirs' = hostDirs \ {dump})
        /\ Sealed' \in {Sealed, Sealed \ {dump}}
    BY <1>3, RetiringIsOfOne
  <2>2. Vouched' = Vouched
    BY <2>1 DEF shareVars, Vouched, ShareComplete
  <2>3. \A d \in Archives : HostDone(d) => HostDone(d)'
    BY <2>1, <2>2 DEF HostDone
  <2>4. duty' = "local" => status' = 1 \/ (status' = status /\ HostDone(dump)')
    BY <2>1, <2>2 DEF HostDone
  <2> QED
    BY <2>1, <2>3, <2>4
<1>4. CASE BesideDumps
  <2>1. /\ UNCHANGED <<shareVars, dutyVars>> /\ Sealed \subseteq Sealed'
        /\ \A d \in Archives : then[d] # "none" => (d \in hostDirs' <=> d \in hostDirs)
    BY <1>4, BesideDumpsKeeps DEF DumpsAreKept, DumpTypeOK, Ages
  <2>2. Vouched' = Vouched
    BY <2>1 DEF shareVars, Vouched, ShareComplete
  <2>3. \A d \in Archives : HostDone(d) => HostDone(d)'
    BY <2>1, <2>2 DEF HostDone, dutyVars
  <2> QED
    BY <2>1, <2>3 DEF dutyVars, shareVars
<1>5. CASE ~OnDump /\ ~Purging /\ ~Retiring /\ ~BesideDumps
  <2>1. Sealed' = Sealed /\ Vouched' = Vouched /\ UNCHANGED <<hostDirs, shareDirs>>
    BY <1>5, QuietSteps DEF keepsVars, shareVars, Sealed, Vouched, ShareComplete
  <2>2. then' = then => \A d \in Archives : HostDone(d) => HostDone(d)'
    BY <2>1 DEF HostDone
  <2>3. CASE StartRun
    <3>1. duty' = "local" /\ queue' = hostDirs /\ then' = dumpAge
      BY <2>3 DEF StartRun
    <3>2. \A d \in Archives \ hostDirs : HostDone(d)'
      BY <2>1, <3>1 DEF HostDone, DumpsAreKept, Sealed, DumpFiles
    <3> QED
      BY <3>1, <3>2
  <2>4. CASE TakeDump
    <3>1. dump' \in queue /\ queue' = queue \ {dump'} /\ then' = then /\ duty = "local" /\ duty' \in {"local", "seek"}
      BY <2>4 DEF TakeDump, IsFirst
    <3>2. (duty' = "seek" /\ status' = status) \/ status' = 1
      BY <2>4 DEF TakeDump
    <3> QED
      BY <2>2, <3>1, <3>2
  <2>5. CASE SeekComplete \/ ConfirmMarker
    <3>1. /\ duty' = ToRetire /\ UNCHANGED <<dump, queue, then, status>> /\ ShareComplete(dump) /\ dump \in Sealed
          /\ duty \in Sending
      BY <2>5 DEF SeekComplete, ConfirmMarker, Goes, DutyRests
    <3>2. dump \in Vouched
      BY <3>1, VouchedIsComplete DEF Sealed
    <3>3. duty' = "local" => HostDone(dump)'
      BY <2>1, <3>1, <3>2 DEF ToRetire, HostDone
    <3> QED
      BY <2>2, <3>1, <3>3 DEF ToRetire
  <2>6. CASE SeekMissing \/ ReadBackDiffers
    BY <2>2, <2>6 DEF SeekMissing, ReadBackDiffers, GivesUp
  <2>7. CASE ListShare
    BY <2>1, <2>2, <2>7 DEF ListShare
  <2>8. CASE RunEnds \/ RunIsKilled
    BY <2>8 DEF RunEnds, RunIsKilled
  <2>9. CASE PreserveUnsafe
    BY <2>2, <2>9 DEF PreserveUnsafe, GivesUp
  <2>10. CASE TakeShared
    BY <2>1, <2>2, <2>10 DEF TakeShared, IsFirst
  <2>11. CASE ExamineShared
    BY <2>1, <2>2, <2>11 DEF ExamineShared, Goes
  <2>12. CASE UNCHANGED dumpVars
    BY <2>1, <2>2, <2>12 DEF dumpVars, dutyVars
  <2> QED
    BY <1>5, <2>3, <2>4, <2>5, <2>6, <2>7, <2>8, <2>9, <2>10, <2>11, <2>12
       DEF DumpNext, OnDump, Purging, Retiring, BesideDumps
<1> QED
  BY <1>1, <1>2, <1>3, <1>4, <1>5

LEMMA DumpsStart == DumpInit => DumpInv
<1> SUFFICES ASSUME DumpInit PROVE DumpInv
  OBVIOUS
<1> USE DEF DumpInit, Unsealed
<1>1. DumpTypeOK
  BY ArchivesConstant, DumpConstants DEF DumpTypeOK, Ages
<1>2. DumpMarkersVouch /\ DutyRests /\ DumpsAccounted
  BY DEF DumpMarkersVouch, DutyRests, DumpsAccounted, Sending, OverShare
<1>3. DumpsAreKept
  BY DEF DumpsAreKept
<1> QED
  BY <1>1, <1>2, <1>3 DEF DumpInv

LEMMA DumpsKeep == ASSUME DumpInv, [DumpNext]_dumpVars PROVE DumpInv'
BY DumpTyping, DumpMarkersKeepVouching, DumpsStayKept, DutiesKeepResting, DumpsStayAccounted DEF DumpInv

\* A run that ends without errors left every dump where its age wants it.
LEMMA ExitsAreHonest == DumpInv => ExitIsHonest
BY DEF DumpInv, DumpTypeOK, DumpsAccounted, OverShare, HostDone, ExitIsHonest

\* The promise, for the dumps.
Dumps == INSTANCE ArchivePromise WITH age <- dumpAge, here <- Sealed, there <- Vouched, kept <- {}

LEMMA DumpStepKeepsPromise ==
    ASSUME DumpInv, [DumpNext]_dumpVars
    PROVE  [Dumps!Next]_Dumps!archives
<1> USE DEF DumpInv, Dumps!archives
<1>1. ASSUME NEW a \in Archives,
             \/ Dumps!Seal(a) \/ Dumps!GrowOld(a) \/ Dumps!Deliver(a) \/ Dumps!WriteAgain(a)
             \/ Dumps!DropHere(a) \/ Dumps!DropThere(a)
      PROVE  Dumps!Next
  BY <1>1 DEF Dumps!Next
<1>2. CASE OnDump
  <2>1. /\ dump \in Archives /\ dump \in Sealed /\ UNCHANGED <<dumpAge, Sealed>>
        /\ Vouched' \in {Vouched, Vouched \cup {dump}, Vouched \ {dump}}
    BY <1>2, SendingIsOfOne, ShareOfOneKeeps DEF Sealed, keepsVars
  <2> QED
    BY <1>1, <2>1 DEF Dumps!Deliver, Dumps!WriteAgain
<1>3. CASE Purging
  <2>1. /\ dump \in Archives /\ dump \notin Sealed /\ dumpAge[dump] = "expired" /\ UNCHANGED <<dumpAge, Sealed>>
        /\ Vouched' \in {Vouched, Vouched \ {dump}}
    <3>1. dump \in Archives /\ then[dump] = "expired" /\ duty = "purge" /\ UNCHANGED <<dumpAge, hostFiles>>
      BY <1>3, PurgingIsOfOne DEF keepsVars
    <3>2. dump \notin hostDirs
      BY <3>1 DEF DumpsAccounted, OverShare, HostDone
    <3> QED
      BY <1>3, <3>1, <3>2, PurgingTakes DEF DumpsAreKept, Sealed, DumpFiles
  <2> QED
    BY <1>1, <2>1 DEF Dumps!DropThere
<1>4. CASE Retiring
  <2>1. /\ dump \in Vouched /\ dump \in Archives /\ dumpAge[dump] # "fresh" /\ dumpAge' = dumpAge
        /\ Sealed' \in {Sealed, Sealed \ {dump}}
    BY <1>4, RetiringIsOfOne DEF Vouched, DumpsAreKept
  <2>2. Vouched' = Vouched
    BY <1>4, RetiringIsOfOne DEF shareVars, Vouched, ShareComplete
  <2> QED
    BY <1>1, <2>1, <2>2 DEF Dumps!DropHere
<1>5. CASE SealDump
  <2>1. PICK a \in Archives :
          /\ dumpAge[a] = "none" /\ dumpAge' = [dumpAge EXCEPT ![a] = "fresh"]
          /\ hostFiles' = [hostFiles EXCEPT ![a] = DumpFiles] /\ UNCHANGED shareVars
    BY <1>5 DEF SealDump, NextName
  <2>2. Sealed' = Sealed \cup {a}
    BY <2>1 DEF Sealed, DumpTypeOK
  <2>3. Vouched' = Vouched
    BY <2>1 DEF shareVars, Vouched, ShareComplete
  <2> QED
    BY <1>1, <2>1, <2>2, <2>3 DEF Dumps!Seal
<1>6. CASE DumpsAge
  <2>1. UNCHANGED <<Sealed, Vouched>>
    BY <1>6 DEF DumpsAge, shareVars, Sealed, Vouched, ShareComplete
  <2>2. PICK a \in Archives :
          dumpAge[a] \in {"fresh", "old"} /\ dumpAge' = [dumpAge EXCEPT ![a] = Older[dumpAge[a]]]
    BY <1>6 DEF DumpsAge, OneOlder
  <2>3. Older["fresh"] = "old" /\ Older["old"] = "expired"
    BY DEF Older
  <2>4. CASE dumpAge[a] = "fresh"
    BY <1>1, <2>1, <2>2, <2>3, <2>4 DEF Dumps!GrowOld
  <2>5. CASE dumpAge[a] = "old"
    BY <1>1, <2>1, <2>2, <2>3, <2>5 DEF Dumps!GrowOld
  <2> QED
    BY <2>2, <2>4, <2>5
<1>7. CASE UNCHANGED <<keepsVars, shareVars>>
  BY <1>7 DEF keepsVars, shareVars, Sealed, Vouched, ShareComplete
<1> QED
  BY <1>2, <1>3, <1>4, <1>5, <1>6, <1>7, QuietSteps DEF BesideDumps

-----------------------------------------------------------------------------
(* An attempt at a renewal reads a pair at rest and reports what it did.    *)

\* What is served and what awaits its recovery are whole pairs.
PairsAreWhole ==
    /\ live # NoPair => IsPair(live)
    /\ retained # NoPair => IsPair(retained)
    /\ previous # NoPair => IsPair(previous)

\* While the files are read no issuer is at work: only a start makes one work again.
ReadsAtRest ==
    /\ attempt \in {"certificate", "key", "publish"} => ~Active
    /\ attempt = "key" => taken = [crt |-> output.crt, key |-> 0]
    /\ attempt = "publish" => taken = output

\* What an attempt has found, by where it is.
PhasesFollow ==
    /\ attempt # "idle" => report.attempt = "in_progress"
    /\ attempt = "preflight" => phases.attempt = "in_progress" /\ phases.issuance = "not_run"
    /\ attempt = "recover" => phases.issuance = "not_run" /\ phases.publication = "failed"
    /\ attempt \in {"start", "await", "stop", "look", "certificate", "key", "publish"} =>
         phases.publication = "failed" /\ retained = NoPair

\* What a status without a failure says of what is served.
Vouches(status_) ==
    /\ IsPair(live) /\ retained = NoPair
    /\ status_.issuance = "ok" => live = output /\ ~Active

ConclusionsAreTrue ==
    /\ attempt = "conclude" /\ ~Failed => Vouches(phases)
    /\ attempt = "idle" /\ report.attempt = "completed" => Vouches(report)

RenewalInv == RenewalTypeOK /\ PairsAreWhole /\ ReadsAtRest /\ PhasesFollow /\ ConclusionsAreTrue

-----------------------------------------------------------------------------
(* Provisioning *)

\* The bundle that is about to be selected is published.
ReleaseIsPublished == setup = "launchers" => release \in bundles

\* No run that is at the account comes to it with the marker set.
Unmanaged == setup \in {"create", "save", "ask", "reset", "confirm", "mark"} => ~managed

\* The account of the playbook is an administrator's, and one that people administer has a
\* password of their own, which no run holds.
PeopleHoldTheirs ==
    /\ account.of = "playbook" => account.admin
    /\ account.of = "people" /\ account.admin => account.password = Private
    /\ Private \notin {saved, initial}
    /\ \A request \in underway : request[2] # Private

\* Where the marker is written the account has the declared password already.
MarkedIsDeclared ==
    (managed \/ setup = "mark") /\ account.of = "playbook" => account.password[1] = "declared"

\* The passwords there can be after so many revisions and generated ones.
Known(revisions, number) ==
    {NoPassword, Private} \cup {Declared(r) : r \in 1..revisions} \cup {Generated(n) : n \in 1..number}

PeopleTypeOK ==
    /\ declared \in Nat \ {0} /\ generations \in Nat /\ managed \in BOOLEAN
    /\ account \in [of : {"nobody", "playbook", "people"}, password : Known(declared, generations), admin : BOOLEAN]
    /\ saved \in Known(declared, generations) /\ initial \in Known(declared, generations)
    /\ underway \subseteq (1..declared) \X Known(declared, generations)

Places == {"idle", "stop", "launchers", "restart", "giveup", "role", "database", "admin", "create",
           "save", "ask", "reset", "confirm", "mark", "forget", "timers"}

HelperTypeOK ==
    /\ setup \in Places
    /\ release \in 1..MaxReleases /\ bundles \subseteq 1..release /\ launchers \subseteq Helpers
    /\ selected \in 0..release /\ timers \subseteq Timers /\ stopped \subseteq Timers
    /\ role \in BOOLEAN /\ database \in BOOLEAN

SetupInv ==
    /\ HelperTypeOK /\ PeopleTypeOK /\ HelpersStart /\ ReleaseIsPublished
    /\ Unmanaged /\ PeopleHoldTheirs /\ MarkedIsDeclared


LEMMA RenewalStarts == RenewalInit => RenewalInv
BY RenewalConstants DEF RenewalInit, RenewalInv, RenewalTypeOK, PairsAreWhole, ReadsAtRest, PhasesFollow, ConclusionsAreTrue,
   Failed, NoPair, NothingRun, Pairs, Statuses

LEMMA RenewalTyping ==
    ASSUME RenewalTypeOK, [RenewalNext]_renewalVars
    PROVE  RenewalTypeOK'
<1> USE RenewalConstants
<1> USE DEF RenewalTypeOK, Pairs, Statuses, NoPair, NothingRun, Moves, RenewalFault, issuerVars, servedVars
<1>1. CASE IssuerObtains
  BY <1>1 DEF IssuerObtains
<1>2. CASE IssuerCompletes
  BY <1>2 DEF IssuerCompletes
<1>3. CASE IssuerEnds \/ IssuerFails
  BY <1>3 DEF IssuerEnds, IssuerFails
<1>4. CASE AttemptStarts
  BY <1>4 DEF AttemptStarts
<1>5. CASE PreflightPasses
  BY <1>5 DEF PreflightPasses
<1>6. CASE RefusedByPreflight
  <2>1. report' = [phases EXCEPT !.attempt = "failed", !.preflight = "failed"]
    BY <1>6 DEF RefusedByPreflight
  <2>2. report' \in Statuses
    BY <2>1
  <2> QED
    BY <1>6, <2>2 DEF RefusedByPreflight
<1>7. CASE NothingToRecover
  BY <1>7 DEF NothingToRecover
<1>8. CASE RetriesCandidate
  BY <1>8 DEF RetriesCandidate, Settled
<1>9. CASE RestoresPrevious \/ RecoveryFails
  BY <1>9 DEF RestoresPrevious, RecoveryFails, Settled
<1>10. CASE StartsIssuer \/ IssuerAwaited \/ StartTimesOut \/ LooksAtIssuer
  BY <1>10 DEF StartsIssuer, IssuerAwaited, StartTimesOut, LooksAtIssuer
<1>11. CASE StopsIssuer \/ StopFails
  BY <1>11 DEF StopsIssuer, StopFails, IssuanceFailed
<1>12. CASE ReadsCertificate \/ ReadsKey
  BY <1>12 DEF ReadsCertificate, ReadsKey
<1>13. CASE Publishes
  BY <1>13 DEF Publishes
<1>14. CASE RejectsPair \/ PublicationFails
  BY <1>14 DEF RejectsPair, PublicationFails, Unfinished
<1>15. CASE AttemptConcludes
  BY <1>15 DEF AttemptConcludes
<1>16. CASE AttemptDies
  BY <1>16 DEF AttemptDies, Unfinished
<1>17. CASE UNCHANGED renewalVars
  BY <1>17 DEF renewalVars
<1> QED
  BY <1>1, <1>2, <1>3, <1>4, <1>5, <1>6, <1>7, <1>8, <1>9, <1>10, <1>11, <1>12, <1>13, <1>14, <1>15, <1>16, <1>17
     DEF RenewalNext

LEMMA RenewalKeeps ==
    ASSUME RenewalInv, [RenewalNext]_renewalVars
    PROVE  RenewalInv'
<1>1. RenewalTypeOK'
  BY RenewalTyping DEF RenewalInv
<1> SUFFICES (PairsAreWhole /\ ReadsAtRest /\ PhasesFollow /\ ConclusionsAreTrue)'
  BY <1>1 DEF RenewalInv
<1>2. RenewalTypeOK /\ PairsAreWhole /\ ReadsAtRest /\ PhasesFollow /\ ConclusionsAreTrue
  BY DEF RenewalInv
<1>3. /\ report \in Statuses /\ phases \in Statuses
      /\ output \in [crt : Nat, key : Nat] /\ taken \in [crt : Nat, key : Nat]
      /\ live \in [crt : Nat, key : Nat] /\ retained \in [crt : Nat, key : Nat]
      /\ previous \in [crt : Nat, key : Nat]
  BY <1>2, RenewalConstants DEF RenewalTypeOK, Pairs
<1> USE DEF PairsAreWhole, ReadsAtRest, PhasesFollow, ConclusionsAreTrue, Vouches, Failed, Active,
            Moves, issuerVars, servedVars, Statuses
<1>4. CASE IssuerObtains \/ IssuerCompletes \/ IssuerEnds \/ IssuerFails
  BY <1>2, <1>4 DEF IssuerObtains, IssuerCompletes, IssuerEnds, IssuerFails, RenewalFault
<1>5. CASE AttemptStarts
  BY <1>2, <1>5 DEF AttemptStarts, NothingRun
<1>6. CASE PreflightPasses
  BY <1>2, <1>3, <1>6 DEF PreflightPasses
<1>7. CASE RefusedByPreflight
  BY <1>2, <1>3, <1>7 DEF RefusedByPreflight
<1>8. CASE NothingToRecover
  BY <1>2, <1>3, <1>8 DEF NothingToRecover
<1>9. CASE RetriesCandidate
  BY <1>2, <1>3, <1>9 DEF RetriesCandidate, Settled
<1>10. CASE RestoresPrevious \/ RecoveryFails
  BY <1>2, <1>3, <1>10 DEF RestoresPrevious, RecoveryFails, Settled
<1>11. CASE StartsIssuer \/ IssuerAwaited \/ StartTimesOut \/ LooksAtIssuer
  BY <1>2, <1>3, <1>11 DEF StartsIssuer, IssuerAwaited, StartTimesOut, LooksAtIssuer
<1>12. CASE StopsIssuer \/ StopFails
  BY <1>2, <1>3, <1>12 DEF StopsIssuer, StopFails, IssuanceFailed
<1>13. CASE ReadsCertificate \/ ReadsKey
  BY <1>2, <1>3, <1>13 DEF ReadsCertificate, ReadsKey
<1>14. CASE Publishes
  BY <1>2, <1>3, <1>14 DEF Publishes
<1>15. CASE RejectsPair \/ PublicationFails
  BY <1>2, <1>3, <1>15 DEF RejectsPair, PublicationFails, Unfinished
<1>16. CASE AttemptConcludes
  BY <1>2, <1>3, <1>16 DEF AttemptConcludes
<1>17. CASE AttemptDies
  BY <1>2, <1>3, <1>17 DEF AttemptDies, Unfinished
<1>18. CASE UNCHANGED renewalVars
  BY <1>2, <1>18 DEF renewalVars
<1> QED
  BY <1>4, <1>5, <1>6, <1>7, <1>8, <1>9, <1>10, <1>11, <1>12, <1>13, <1>14, <1>15, <1>16, <1>17, <1>18
     DEF RenewalNext

LEMMA AttemptsAreTrue == RenewalInv => SnapshotIsStill /\ StatusIsTrue
BY DEF RenewalInv, PairsAreWhole, ReadsAtRest, PhasesFollow, ConclusionsAreTrue, Vouches, SnapshotIsStill, StatusIsTrue

LEMMA SetupStarts == SetupInit => SetupInv
<1> SUFFICES ASSUME SetupInit PROVE SetupInv
  OBVIOUS
<1>1. HelperTypeOK
  <2>1. release \in 1..MaxReleases /\ selected \in 0..release
    BY SetupConstants DEF SetupInit
  <2>2. /\ setup \in Places /\ bundles \subseteq 1..release /\ launchers \subseteq Helpers
        /\ timers \subseteq Timers /\ stopped \subseteq Timers
    BY DEF SetupInit, Places
  <2>3. role \in BOOLEAN /\ database \in BOOLEAN
    BY DEF SetupInit
  <2> QED
    BY <2>1, <2>2, <2>3 DEF HelperTypeOK
<1>2. NoPassword # Private
  <2>1. NoPassword[1] = "none" /\ Private[1] = "private"
    BY DEF NoPassword, Private
  <2> QED
    BY <2>1
<1>3. PeopleTypeOK
  <2>1. NoPassword \in Known(declared, generations)
    BY DEF Known
  <2>2. account \in [of : {"nobody", "playbook", "people"}, password : Known(declared, generations), admin : BOOLEAN]
    BY <2>1 DEF SetupInit, NoAccount
  <2>3. declared \in Nat \ {0} /\ generations \in Nat
    BY DEF SetupInit
  <2>4. managed \in BOOLEAN
    BY DEF SetupInit
  <2> QED
    BY <2>1, <2>2, <2>3, <2>4 DEF PeopleTypeOK, SetupInit
<1>4. HelpersStart /\ ReleaseIsPublished /\ Unmanaged
  BY DEF HelpersStart, ReleaseIsPublished, Unmanaged, SetupInit
<1>5. PeopleHoldTheirs /\ MarkedIsDeclared
  BY <1>2 DEF PeopleHoldTheirs, MarkedIsDeclared, NoAccount, SetupInit
<1> QED
  BY <1>1, <1>3, <1>4, <1>5 DEF SetupInv

LEMMA SetupTyped == SetupInv => SetupTypeOK
<1> SUFFICES ASSUME SetupInv PROVE SetupTypeOK
  OBVIOUS
<1>1. \A p \in Known(declared, generations) : IsPassword(p)
  BY DEF Known, IsPassword, Declared, Generated, SetupInv, PeopleTypeOK
<1>2. /\ account.of \in {"nobody", "playbook", "people"} /\ account.admin \in BOOLEAN
      /\ account.password \in Known(declared, generations)
      /\ saved \in Known(declared, generations) /\ initial \in Known(declared, generations)
      /\ \A request \in underway : request[1] \in 1..declared /\ request[2] \in Known(declared, generations)
  BY DEF SetupInv, PeopleTypeOK
<1> QED
  BY <1>1, <1>2 DEF SetupInv, PeopleTypeOK, HelperTypeOK, SetupTypeOK, Places

LEMMA MarkersAreTrue == SetupInv => MarkerIsTrue
BY DEF SetupInv, PeopleHoldTheirs, MarkedIsDeclared, MarkerIsTrue

LEMMA HelpersKeep ==
    ASSUME HelperTypeOK, HelpersStart, ReleaseIsPublished, [SetupNext]_setupVars
    PROVE  (HelperTypeOK /\ HelpersStart /\ ReleaseIsPublished)'
<1> USE SetupConstants DEF Places, HelperTypeOK, HelpersStart, ReleaseIsPublished, GoesTo, SetupFault, helperVars, Timers
<1>1. CASE InstallStarts \/ StopsTimer \/ StartsTimer \/ TimersRestarted \/ InstallFails \/ ArmsTimers
  BY <1>1 DEF InstallStarts, StopsTimer, StartsTimer, TimersRestarted, InstallFails, ArmsTimers
<1>2. CASE PublishesBundle
  BY <1>2 DEF PublishesBundle
<1>3. CASE WritesLauncher
  BY <1>3 DEF WritesLauncher
<1>4. CASE SelectsBundle
  BY <1>4 DEF SelectsBundle
<1>5. CASE Releases
  <2>1. release \in 1..MaxReleases /\ release' = release + 1 /\ release' \in 1..MaxReleases
    BY <1>5 DEF Releases
  <2>2. bundles' \subseteq 1..release' /\ selected' \in 0..release'
    BY <1>5, <2>1 DEF Releases
  <2> QED
    BY <1>5, <2>1, <2>2 DEF Releases
<1>6. CASE CreatesRole \/ CreatesDatabase
  BY <1>6 DEF CreatesRole, CreatesDatabase
<1>7. CASE AlreadyManaged \/ TakesSaved \/ FindsNobody \/ FindsAccount \/ SavesPassword \/ MarksManaged \/ ForgetsPassword
  BY <1>7 DEF AlreadyManaged, TakesSaved, FindsNobody, FindsAccount, SavesPassword, MarksManaged, ForgetsPassword, SameAccount
<1>8. CASE CreatesAccount \/ CreateAnswerLost
  BY <1>8 DEF CreatesAccount, CreateAnswerLost
<1>9. CASE AsksWhoItIs
  BY <1>9 DEF AsksWhoItIs, SameAccount
<1>10. CASE ResetsPassword \/ ResetTimesOut
  BY <1>10 DEF ResetsPassword, ResetTimesOut
<1>11. CASE LateReset
  BY <1>11 DEF LateReset
<1>12. CASE SetupEnds
  BY <1>12 DEF SetupEnds
<1>13. CASE Redeclares \/ PeopleAct
  BY <1>13 DEF Redeclares, PeopleAct
<1>14. CASE UNCHANGED setupVars
  BY <1>14 DEF setupVars
<1> QED
  BY <1>1, <1>2, <1>3, <1>4, <1>5, <1>6, <1>7, <1>8, <1>9, <1>10, <1>11, <1>12, <1>13, <1>14 DEF SetupNext

LEMMA KnownGrows ==
    ASSUME NEW d \in Nat, NEW e \in Nat, NEW g \in Nat, NEW h \in Nat, d <= e, g <= h
    PROVE  Known(d, g) \subseteq Known(e, h)
BY DEF Known

LEMMA PeopleTyping ==
    ASSUME PeopleTypeOK, [SetupNext]_setupVars
    PROVE  PeopleTypeOK'
<1> DEFINE Accounts(known) == [of : {"nobody", "playbook", "people"}, password : known, admin : BOOLEAN]
<1>1. SUFFICES
        /\ declared' \in Nat \ {0} /\ generations' \in Nat /\ managed' \in BOOLEAN
        /\ declared <= declared' /\ generations <= generations'
        /\ \/ UNCHANGED account
           \/ account' \in Accounts(Known(declared', generations'))
        /\ saved' \in {saved, initial, NoPassword}
        /\ \/ initial' \in {saved, initial, NoPassword}
           \/ generations' # 0 /\ initial' = Generated(generations')
        /\ underway' \subseteq underway \cup {<<declared, initial>>}
  <2>1. Known(declared, generations) \subseteq Known(declared', generations')
    BY <1>1, KnownGrows DEF PeopleTypeOK
  <2>2. NoPassword \in Known(declared', generations')
    BY DEF Known
  <2>3. generations' # 0 => Generated(generations') \in Known(declared', generations')
    BY <1>1 DEF Known
  <2>4. account' \in Accounts(Known(declared', generations'))
    BY <1>1, <2>1 DEF PeopleTypeOK
  <2>5. saved' \in Known(declared', generations') /\ initial' \in Known(declared', generations')
    BY <1>1, <2>1, <2>2, <2>3 DEF PeopleTypeOK
  <2>6. underway' \subseteq (1..declared') \X Known(declared', generations')
    BY <1>1, <2>1 DEF PeopleTypeOK
  <2> QED
    BY <1>1, <2>4, <2>5, <2>6 DEF PeopleTypeOK
<1>2. account \in Accounts(Known(declared, generations))
  BY DEF PeopleTypeOK
<1> USE DEF GoesTo, SetupFault, accountVars
<1>3. CASE UNCHANGED accountVars
  BY <1>3 DEF PeopleTypeOK
<1>4. CASE TakesSaved \/ SavesPassword \/ MarksManaged \/ ForgetsPassword \/ SetupEnds \/ Redeclares
  <2>1. CASE TakesSaved \/ SavesPassword \/ ForgetsPassword
    BY <2>1 DEF TakesSaved, SavesPassword, ForgetsPassword, SameAccount, PeopleTypeOK
  <2>2. CASE MarksManaged
    <3>1. managed' \in BOOLEAN
      BY <2>2 DEF MarksManaged
    <3> QED
      BY <2>2, <3>1 DEF MarksManaged, SameAccount, PeopleTypeOK
  <2>3. CASE SetupEnds
    BY <2>3 DEF SetupEnds, PeopleTypeOK
  <2>4. CASE Redeclares
    BY <2>4 DEF Redeclares, PeopleTypeOK
  <2> QED
    BY <1>4, <2>1, <2>2, <2>3, <2>4
<1>5. CASE CreatesAccount \/ CreateAnswerLost
  <2>1. CASE UNCHANGED accountVars
    BY <1>3, <2>1
  <2>2. CASE Created
    <3>1. generations' = generations + 1 /\ generations' \in Nat \ {0} /\ declared' = declared
      BY <1>5, <2>2 DEF Created, CreatesAccount, CreateAnswerLost, PeopleTypeOK
    <3>2. account' \in Accounts(Known(declared', generations'))
      BY <2>2, <3>1 DEF Created, PlaybookAccount, Known
    <3> QED
      BY <1>5, <3>1, <3>2 DEF CreatesAccount, CreateAnswerLost, PeopleTypeOK
  <2> QED
    BY <1>5, <2>1, <2>2 DEF CreatesAccount, CreateAnswerLost
<1>6. CASE ResetsPassword \/ ResetTimesOut \/ LateReset
  <2>1. \A r \in 1..declared : Reset(r) => account' \in Accounts(Known(declared, generations))
    BY <1>2 DEF Reset, Known
  <2>2. \A request \in underway : request[1] \in 1..declared
    BY DEF PeopleTypeOK
  <2> QED
    BY <1>6, <2>1, <2>2 DEF ResetsPassword, ResetTimesOut, LateReset, PeopleTypeOK
<1>7. CASE PeopleAct
  <2>1. NoPassword \in Known(declared, generations) /\ Private \in Known(declared, generations)
    BY DEF Known
  <2>2. CASE account' = NoAccount
    <3>1. account' \in Accounts(Known(declared, generations))
      BY <2>1, <2>2 DEF NoAccount
    <3> QED
      BY <1>7, <3>1 DEF PeopleAct, PeopleTypeOK
  <2>3. CASE \/ account' = [account EXCEPT !.of = "people", !.password = Private]
             \/ account' = [account EXCEPT !.of = "people", !.admin = FALSE]
    <3>1. \/ account' = [of |-> "people", password |-> Private, admin |-> account.admin]
          \/ account' = [of |-> "people", password |-> account.password, admin |-> FALSE]
      BY <1>2, <2>3
    <3>2. account.admin \in BOOLEAN /\ account.password \in Known(declared, generations)
      BY <1>2
    <3>3. ASSUME NEW admin \in BOOLEAN, NEW password \in Known(declared, generations),
                 account' = [of |-> "people", password |-> password, admin |-> admin]
          PROVE  account' \in Accounts(Known(declared, generations))
      BY <3>3
    <3>4. account' \in Accounts(Known(declared, generations))
      BY <2>1, <3>1, <3>2, <3>3
    <3> QED
      BY <1>7, <3>4 DEF PeopleAct, PeopleTypeOK
  <2>4. ASSUME NEW admin \in BOOLEAN, account' = [of |-> "people", password |-> Private, admin |-> admin]
        PROVE  account' \in Accounts(Known(declared, generations))
    BY <2>1, <2>4
  <2> QED
    BY <1>7, <2>2, <2>3, <2>4 DEF PeopleAct, PeopleTypeOK
<1> QED
  <2>1. CASE InstallStarts \/ StopsTimer \/ PublishesBundle \/ WritesLauncher \/ SelectsBundle
             \/ StartsTimer \/ TimersRestarted \/ InstallFails \/ CreatesRole \/ CreatesDatabase \/ ArmsTimers \/ Releases
    BY <1>3, <2>1 DEF InstallStarts, StopsTimer, PublishesBundle, WritesLauncher, SelectsBundle,
         StartsTimer, TimersRestarted, InstallFails, CreatesRole, CreatesDatabase, ArmsTimers, Releases
  <2>2. CASE AlreadyManaged \/ FindsNobody \/ FindsAccount \/ AsksWhoItIs
    BY <1>3, <2>2 DEF AlreadyManaged, FindsNobody, FindsAccount, AsksWhoItIs, SameAccount
  <2> QED
    BY <1>3, <1>4, <1>5, <1>6, <1>7, <2>1, <2>2 DEF SetupNext, setupVars

LEMMA PasswordsDiffer ==
    /\ NoPassword # Private
    /\ \A n : Declared(n) # Private /\ Generated(n) # Private /\ Declared(n)[1] = "declared"
<1>1. /\ NoPassword[1] = "none" /\ Private[1] = "private"
      /\ \A n : Declared(n)[1] = "declared" /\ Generated(n)[1] = "generated"
  BY DEF NoPassword, Private, Declared, Generated
<1> QED
  BY <1>1

LEMMA PeopleKeep ==
    ASSUME PeopleTypeOK, Unmanaged, PeopleHoldTheirs, MarkedIsDeclared, [SetupNext]_setupVars
    PROVE  /\ (Unmanaged /\ PeopleHoldTheirs /\ MarkedIsDeclared)'
           /\ setup' # setup /\ (managed \/ account.of = "people") => account' = account
<1>1. /\ DOMAIN account = {"of", "password", "admin"} /\ account.admin \in BOOLEAN /\ managed \in BOOLEAN
      /\ account = [of |-> account.of, password |-> account.password, admin |-> account.admin]
  BY DEF PeopleTypeOK
<1> USE DEF Unmanaged, PeopleHoldTheirs, MarkedIsDeclared, GoesTo, SetupFault, accountVars
<1>2. CASE UNCHANGED accountVars /\ setup' \notin {"create", "save", "ask", "reset", "confirm", "mark"}
  BY <1>2
<1>3. CASE InstallStarts \/ StopsTimer \/ PublishesBundle \/ WritesLauncher \/ SelectsBundle
           \/ StartsTimer \/ TimersRestarted \/ InstallFails \/ CreatesRole \/ CreatesDatabase \/ ArmsTimers \/ Releases
           \/ AlreadyManaged \/ FindsAccount
  BY <1>2, <1>3 DEF InstallStarts, StopsTimer, PublishesBundle, WritesLauncher, SelectsBundle,
     StartsTimer, TimersRestarted, InstallFails, CreatesRole, CreatesDatabase, ArmsTimers, Releases,
     AlreadyManaged, FindsAccount, SameAccount
<1>4. CASE TakesSaved \/ FindsNobody \/ SavesPassword \/ ForgetsPassword
  BY <1>4, PasswordsDiffer DEF TakesSaved, FindsNobody, SavesPassword, ForgetsPassword, SameAccount
<1>5. CASE AsksWhoItIs
  BY <1>5, PasswordsDiffer DEF AsksWhoItIs, SameAccount, Opens
<1>6. CASE MarksManaged
  BY <1>6 DEF MarksManaged, SameAccount
<1>7. CASE SetupEnds \/ Redeclares
  BY <1>7, PasswordsDiffer DEF SetupEnds, Redeclares
<1>8. CASE CreatesAccount \/ CreateAnswerLost
  <2>1. CASE UNCHANGED accountVars /\ setup' = "idle"
    BY <2>1
  <2>2. CASE Created
    <3>1. /\ account'.of = "playbook" /\ account'.admin /\ account.of = "nobody"
          /\ initial' # Private
      BY <1>8, <2>2, PasswordsDiffer DEF Created, PlaybookAccount, NoAccount, CreatesAccount, CreateAnswerLost
    <3> QED
      BY <1>8, <2>2, <3>1 DEF CreatesAccount, CreateAnswerLost
  <2> QED
    BY <1>8, <2>1, <2>2 DEF CreatesAccount, CreateAnswerLost
<1>9. CASE ResetsPassword \/ ResetTimesOut \/ LateReset
  <2>1. \A password \in {initial} \cup {request[2] : request \in underway} :
           MayReset(password) => account.of # "people" /\ account.admin
    BY DEF MayReset, Opens
  <2>2. \A r : Reset(r) => /\ account'.of = account.of /\ account'.admin = account.admin
                           /\ account'.password[1] = "declared" /\ account'.password # Private
    BY <1>1, PasswordsDiffer DEF Reset
  <2>3. CASE ResetsPassword
    BY <2>1, <2>2, <2>3 DEF ResetsPassword
  <2>4. CASE ResetTimesOut
    BY <2>4 DEF ResetTimesOut
  <2>5. CASE LateReset
    BY <2>1, <2>2, <2>5 DEF LateReset
  <2> QED
    BY <1>9, <2>3, <2>4, <2>5
<1>10. CASE PeopleAct
  <2>1. \/ account' = NoAccount
        \/ account'.of = "people" /\ (account'.admin => account'.password = Private)
    <3>1. CASE account' = [account EXCEPT !.of = "people", !.password = Private]
      BY <1>1, <3>1
    <3>2. CASE account' = [account EXCEPT !.of = "people", !.admin = FALSE]
      BY <1>1, <3>2
    <3> QED
      BY <1>10, <3>1, <3>2 DEF PeopleAct
  <2> QED
    BY <1>10, <2>1 DEF PeopleAct, NoAccount
<1>11. CASE UNCHANGED setupVars
  BY <1>11 DEF setupVars
<1> QED
  BY <1>3, <1>4, <1>5, <1>6, <1>7, <1>8, <1>9, <1>10, <1>11 DEF SetupNext

LEMMA SetupKeeps ==
    ASSUME SetupInv, [SetupNext]_setupVars
    PROVE  SetupInv' /\ (setup' # setup /\ (managed \/ account.of = "people") => account' = account)
BY HelpersKeep, PeopleTyping, PeopleKeep DEF SetupInv

-----------------------------------------------------------------------------
(* The jobs beside each other.                                             *)

\* A step of the upkeep is a step of each job or leaves its state alone.
LEMMA StepsApart ==
    ASSUME [Next]_upkeepVars
    PROVE  /\ chore' = chore
           /\ [DrillNext]_drillVars /\ [HostNext]_hostVars /\ [ArchiveNext]_archiveVars
           /\ [DumpNext]_dumpVars /\ [RenewalNext]_renewalVars /\ [SetupNext]_setupVars
           /\ chore # "archives" => UNCHANGED archiveVars
           /\ chore # "dumps" => UNCHANGED dumpVars
<1> USE DEF Next, upkeepVars, experimentVars, transferVars, serviceVars
<1>1. chore' = chore
  OBVIOUS
<1>2. [DrillNext]_drillVars
  OBVIOUS
<1>3. [HostNext]_hostVars
  OBVIOUS
<1>4. [ArchiveNext]_archiveVars /\ (chore # "archives" => UNCHANGED archiveVars)
  OBVIOUS
<1>5. [DumpNext]_dumpVars /\ (chore # "dumps" => UNCHANGED dumpVars)
  OBVIOUS
<1>6. [RenewalNext]_renewalVars
  OBVIOUS
<1>7. [SetupNext]_setupVars
  OBVIOUS
<1> QED
  BY <1>1, <1>2, <1>3, <1>4, <1>5, <1>6, <1>7

TransferInv == ArchiveInv /\ DumpInv /\ (chore # "archives" => pinned = {})

LEMMA TransfersKeep ==
    ASSUME TransferInv, [Next]_upkeepVars
    PROVE  TransferInv' /\ [Transfer!Next]_Transfer!archives
<1>1. TransferInv'
  BY StepsApart, ArchiveKeeps, DumpsKeep DEF TransferInv, archiveVars, stores
<1> SUFFICES [Transfer!Next]_Transfer!archives
  BY <1>1
<1>2. CASE chore = "archives"
  <2>1. [Promise!Next]_Promise!archives
    BY StepsApart, StepKeepsPromise DEF TransferInv
  <2>2. chore' = chore
    BY StepsApart
  <2>3. CASE UNCHANGED Promise!archives
    BY <1>2, <2>2, <2>3 DEF Promise!archives, Transfer!archives
  <2>4. CASE Promise!Next
    BY <1>2, <2>2, <2>4 DEF Promise!Next, Promise!Seal, Promise!Reserve, Promise!SealReserved, Promise!GrowOld,
         Promise!Deliver, Promise!WriteAgain, Promise!DropHere, Promise!DropThere,
         Transfer!Next, Transfer!Seal, Transfer!Reserve, Transfer!SealReserved, Transfer!GrowOld,
         Transfer!Deliver, Transfer!WriteAgain, Transfer!DropHere, Transfer!DropThere
  <2> QED
    BY <2>1, <2>3, <2>4
<1>3. CASE chore = "dumps"
  <2>1. [Dumps!Next]_Dumps!archives
    BY StepsApart, DumpStepKeepsPromise DEF TransferInv
  <2>2. chore' = chore /\ pinned = {} /\ pinned' = {}
    BY <1>1, <1>3, StepsApart DEF TransferInv
  <2>3. CASE UNCHANGED Dumps!archives
    BY <1>3, <2>2, <2>3 DEF Dumps!archives, Transfer!archives
  <2>4. CASE Dumps!Next
    <3>1. \A a \in Archives : ~Dumps!Reserve(a) /\ ~Dumps!SealReserved(a)
      BY DEF Dumps!Reserve, Dumps!SealReserved
    <3> QED
      BY <1>3, <2>2, <2>4, <3>1 DEF Dumps!Next, Dumps!Seal, Dumps!GrowOld,
         Dumps!Deliver, Dumps!WriteAgain, Dumps!DropHere, Dumps!DropThere,
         Transfer!Next, Transfer!Seal, Transfer!GrowOld,
         Transfer!Deliver, Transfer!WriteAgain, Transfer!DropHere, Transfer!DropThere
  <2> QED
    BY <2>1, <2>3, <2>4
<1>4. CASE chore \notin {"archives", "dumps"}
  <2>1. UNCHANGED <<archiveVars, dumpVars, chore>>
    BY <1>4, StepsApart
  <2> QED
    BY <1>4, <2>1 DEF Transfer!archives, archiveVars, stores, dumpVars, keepsVars
<1> QED
  BY <1>1, <1>2, <1>3, <1>4

LEMMA TransfersStart == Init => TransferInv /\ Transfer!Init
<1> SUFFICES ASSUME Init PROVE TransferInv /\ Transfer!Init
  OBVIOUS
<1>1. ArchiveInit /\ DumpInit
  BY DEF Init
<1>2. TransferInv
  BY <1>1, ArchiveStarts, DumpsStart DEF TransferInv, ArchiveInit
<1>3. Promise!Init
  BY <1>1, StartsAsPromised
<1>4. dumpAge = Unsealed /\ Sealed = {} /\ Vouched = {}
  BY <1>1 DEF DumpInit, Sealed, Vouched, ShareComplete, DumpFiles, Exact
<1> QED
  BY <1>2, <1>3, <1>4 DEF Promise!Init, Transfer!Init, Unsealed

\* Both transfers keep every archive whole on the host or verified on the share until it
\* expires, and the pinned ones beyond that, for any number of archives, faults and kills.
THEOREM ArchivesKept == Spec => ArchivesAreKept
<1>1. Init => TransferInv /\ Transfer!Init
  BY TransfersStart
<1>2. TransferInv /\ [Next]_upkeepVars => TransferInv' /\ [Transfer!Next]_Transfer!archives
  BY TransfersKeep
<1> QED
  BY <1>1, <1>2, PTL DEF Spec, ArchivesAreKept, Transfer!Spec

-----------------------------------------------------------------------------
(* What every job leaves true                                              *)

UpkeepInv == HonestInv /\ DumpInv /\ DrillInv /\ HostInv /\ RenewalInv /\ SetupInv

LEMMA JobsStart == Init => UpkeepInv
BY HonestStarts, DumpsStart, DrillStarts, HostStarts, RenewalStarts, SetupStarts DEF Init, UpkeepInv

LEMMA JobsKeep ==
    ASSUME UpkeepInv, [Next]_upkeepVars
    PROVE  UpkeepInv'
<1> USE StepsApart DEF UpkeepInv
<1>1. HonestInv'
  BY HonestKeeps
<1>2. DumpInv'
  BY DumpsKeep
<1>3. DrillInv'
  BY DrillKeeps
<1>4. HostInv'
  BY HostKeeps
<1>5. RenewalInv'
  BY RenewalKeeps
<1>6. SetupInv'
  BY SetupKeeps
<1> QED
  BY <1>1, <1>2, <1>3, <1>4, <1>5, <1>6

\* What each job rests on holds in every order of its steps, failures and kills.
THEOREM JobsHold == Spec => []UpkeepInv
BY JobsStart, JobsKeep, PTL DEF Spec

\* The state of every job keeps its shape, whatever fails, whatever is killed, and for any
\* numbers of archives, faults, attempts and releases.
THEOREM UpkeepTyped == Spec => []TypeOK
<1>1. UpkeepInv => TypeOK
  BY DrillTyped, HostTypes, SetupTyped
     DEF UpkeepInv, TypeOK, HonestInv, ArchiveInv, DumpInv, RenewalInv
<1> QED
  BY <1>1, JobsHold, PTL

\* No job claims more than it did, for any numbers: neither experiment, neither transfer, no
\* renewal and no marker of the administrator.
THEOREM ReportsHonest == Spec => []ReportsAreHonest
<1>1. UpkeepInv => ReportsAreHonest
  BY DrillReports, AnswersHold, AccountsAreHonest, ExitsAreHonest, AttemptsAreTrue, MarkersAreTrue
     DEF UpkeepInv, ReportsAreHonest
<1> QED
  BY <1>1, JobsHold, PTL

\* Nothing is used while it is half made, for any numbers: no restored application, no pair of
\* a certificate and its key, no generation of helpers.
THEOREM NothingHalfMade == Spec => []NothingHalfMadeIsUsed
<1>1. UpkeepInv => NothingHalfMadeIsUsed
  BY AttemptsAreTrue DEF UpkeepInv, NothingHalfMadeIsUsed, DrillInv, SetupInv
<1> QED
  BY <1>1, JobsHold, PTL

\* What others have under the same names survives both experiments, an image goes only when
\* nothing uses it, and provisioning resets nobody else's password: for any numbers of
\* attempts, strangers and events.
THEOREM OthersKept == Spec => OthersAreKept
<1>1. UpkeepInv /\ [Next]_upkeepVars => [others \subseteq others']_drillVars
  BY StepsApart, StrangersStay
<1>2. UpkeepInv /\ [Next]_upkeepVars =>
        [\A p \in Attempts : (maker["image"] = p /\ maker'["image"] = Nobody) =>
            unit.whose # p /\ p \notin procs \cup helper \cup escaped \cup attached]_hostVars
  BY StepsApart, HostStepIsOwn DEF UpkeepInv
<1>3. UpkeepInv /\ [Next]_upkeepVars =>
        [/\ \A f \in FileNames : maker[f] = Other => maker'[f] = Other
         /\ unit.whose = Other => unit' = unit
         /\ \A p, q \in Attempts : p # q /\ <<pc[p], entries[p]>>' # <<pc[p], entries[p]>> =>
              /\ \A f \in FileNames : maker[f] = q => maker'[f] = q
              /\ unit.whose = q => unit' = unit]_hostVars
  <2> SUFFICES ASSUME UpkeepInv, [Next]_upkeepVars
               PROVE  /\ \A f \in FileNames : maker[f] = Other => maker'[f] = Other
                      /\ unit.whose = Other => unit' = unit
                      /\ \A p, q \in Attempts : p # q /\ <<pc[p], entries[p]>>' # <<pc[p], entries[p]>> =>
                           /\ \A f \in FileNames : maker[f] = q => maker'[f] = q
                           /\ unit.whose = q => unit' = unit
    OBVIOUS
  <2> QED
    BY StepsApart, HostStepIsOwn DEF UpkeepInv
<1>4. UpkeepInv /\ [Next]_upkeepVars =>
        [setup' # setup /\ (managed \/ account.of = "people") => account' = account]_setupVars
  BY StepsApart, SetupKeeps DEF UpkeepInv
<1> QED
  BY <1>1, <1>2, <1>3, <1>4, JobsHold, PTL
     DEF Spec, OthersAreKept, StrangersAreKept, RemovedWhenQuiet, OwnIsTouched, NobodyIsReset
=============================================================================
