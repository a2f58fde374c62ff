--------------------------- MODULE MetadataMirrorProofs ---------------------------
(***************************************************************************)
(* Proofs about MetadataMirror, for any mappings and numbers of versions,  *)
(* shadows, edits and failures.                                            *)
(***************************************************************************)
EXTENDS MetadataMirror, FiniteSetTheorems, TLAPS

\* The steps that rest on a discovery of the mapping, and those at one object.
AtObject == {"intend", "post", "seek", "record", "verify", "renew", "patch"}
Discovered == {"retire", "object"} \cup AtObject

RunType ==
    [step : Steps, mapping : 0 .. Len(Enrolled) + 1, left : 0 .. WriteBudget, want : [Keys -> Versions],
     mine : [Keys -> [id : 0 .. Len(shadows), content : Versions]], view : SUBSET Made, todo : Seq(Keys),
     made : 0 .. Len(shadows), content : Versions, backlog : BOOLEAN, errs : SUBSET Errors,
     all : SUBSET (Errors \cup {"backlog"}), clean : SUBSET MappingIds, touched : SUBSET Keys]

MirrorTyped ==
    /\ source \in [Keys -> Versions] /\ shadows \in Seq(Shadow) /\ Len(shadows) <= MaxShadows
    /\ inflight \subseteq Keys /\ occupied \subseteq Labels /\ deferred \subseteq MappingIds
    /\ edits \in 0 .. MaxEdits /\ faults \in 0 .. MaxFaults
    /\ journal \in [ready : BOOLEAN, pending : SUBSET Keys, owner : [Keys -> 0 .. Len(shadows)]]
    /\ run \in RunType
    /\ status \in [outcome : {"none", "converged", "deferred", "attention"}, clean : SUBSET MappingIds]

\* What a run has in hand, by where it is.
HandFits ==
    /\ run.step \in Discovered \cup {"source", "discover", "end"} => run.mapping \in MappingIds
    /\ run.step = "next" => run.mapping # 0
    /\ run.step \in {"object"} \cup AtObject => run.todo \in Seq(KeysOf(run.mapping))
    /\ run.step \in AtObject \cup {"resolve", "settle", "adopt", "note"} => run.todo # << >>
    /\ run.step \in {"seek", "record", "verify", "patch"} => run.made # 0 /\ shadows[run.made].key = Current
    /\ run.step = "note" => run.made # 0
    /\ run.step \in {"intend", "post", "renew", "patch"} => run.left > 0
    /\ \A k \in Keys : run.mine[k].id # 0 => shadows[run.mine[k].id].key = k

\* Only a bootstrap runs without a journal.
JournalServes == run.step \notin {"idle", "bootstrap"} => journal.ready

\* A create that may still be carried out is on record as pending, its key has no shadow
\* on record, and no other create of that key has been or can be sent.
CreatesAreClaimed ==
    \A k \in Keys :
        /\ k \in inflight => journal.owner[k] = 0 /\ Copies(k) = {} /\ (journal.ready => k \in journal.pending)
        /\ \A i, j \in Copies(k) : i = j

\* A shadow that no pending create accounts for is on record or is seen by every read.
ShadowsAreSeen ==
    journal.ready =>
        \A k \in Keys \ journal.pending : \A i \in Copies(k) :
            \/ journal.owner[k] # 0
            \/ /\ shadows[i].listed
               /\ Merged(i) /\ run.step \in Discovered /\ k \in KeysOf(run.mapping) => i \in run.view

\* What a read adds to is on record.
ViewIsRecorded ==
    /\ \A i \in run.view : Merged(i) => journal.owner[shadows[i].key] # 0
    /\ run.step = "idle" => run.view = {}

\* What a run relies on at the object it is at.
ObjectRests ==
    LET k == Current IN
    /\ run.step = "intend" => journal.owner[k] = 0 /\ (k \in journal.pending \/ Copies(k) = {})
    /\ run.step = "post" =>
         journal.owner[k] = 0 /\ k \in journal.pending \ inflight /\ Copies(k) = {}
    /\ run.step \in {"seek", "record"} =>
         k \in journal.pending \ inflight /\ Copies(k) \subseteq {run.made}
    /\ run.step = "record" => IF Kind[k] \in Recorded THEN journal.owner[k] # 0 ELSE shadows[run.made].listed
    /\ run.step = "note" => k \notin journal.pending

\* What was found of a pending create is all there is of it.
FoundIsAll ==
    run.step = "retire" =>
        \A k \in journal.pending : LET i == run.mine[k].id IN
            i # 0 => /\ k \notin inflight /\ Copies(k) \subseteq {i}
                     /\ IF Kind[k] \in Recorded THEN journal.owner[k] # 0 ELSE shadows[i].listed

\* What an operator asserted of the outcomes stays true.
AssertionsHold ==
    /\ run.step \in {"resolve", "settle"} => Current \in journal.pending /\ OutcomeKnown(Current)
    /\ run.step \in {"bootstrap", "reown"} => \A k \in Keys : OutcomeKnown(k)

MirrorInv ==
    /\ MirrorTyped /\ HandFits /\ JournalServes /\ CreatesAreClaimed /\ ShadowsAreSeen
    /\ ViewIsRecorded /\ ObjectRests /\ FoundIsAll /\ AssertionsHold

-----------------------------------------------------------------------------
(* Shapes *)

LEMMA Enrollment ==
    /\ \A m \in MappingIds : KeysOf(m) \subseteq Keys /\ Enrolled[m] \in Seq(KeysOf(m))
    /\ Labels \subseteq Keys /\ Len(Enrolled) \in Nat
    /\ Kind \in [Keys -> Kinds] /\ Needs \in [Keys -> SUBSET Keys]
    /\ MaxVersion \in Nat /\ MaxShadows \in Nat /\ MaxEdits \in Nat /\ MaxFaults \in Nat
    /\ WriteBudget \in Nat \ {0}
<1>1. Enrolled \in Seq(Seq(Keys)) /\ Len(Enrolled) \in Nat
  BY MirrorAssumption
<1>2. ASSUME NEW m \in MappingIds PROVE KeysOf(m) \subseteq Keys /\ Enrolled[m] \in Seq(KeysOf(m))
  <2>1. Enrolled[m] \in Seq(Keys)
    BY <1>1, <1>2 DEF MappingIds
  <2>2. \A i \in 1 .. Len(Enrolled[m]) : Enrolled[m][i] \in KeysOf(m)
    BY DEF KeysOf
  <2>3. Enrolled[m] \in Seq(KeysOf(m))
    BY <2>1, <2>2
  <2> QED
    BY <2>3 DEF Keys
<1> QED
  BY <1>1, <1>2, MirrorAssumption, BudgetAssumption DEF Labels

LEMMA MadeTyped ==
    ASSUME MirrorTyped
    PROVE  /\ Len(shadows) \in Nat /\ Made = DOMAIN shadows /\ \A i \in Made : i # 0 /\ i <= Len(shadows)
           /\ \A i \in Made : shadows[i] \in Shadow
BY DEF MirrorTyped, Made

\* What a read finds of a key.
LEMMA Finding ==
    ASSUME NEW k, NEW ids \in SUBSET Made
    PROVE  /\ Has(k, ids) => OwnedBy(k, ids) \in ids /\ shadows[OwnedBy(k, ids)].key = k /\ OwnedBy(k, ids) # 0
           /\ ~Has(k, ids) => OwnedBy(k, ids) = 0
<1>1. CASE Has(k, ids)
  <2>1. OwnedBy(k, ids) = CHOOSE i \in ids : shadows[i].key = k
    BY <1>1 DEF OwnedBy
  <2>2. OwnedBy(k, ids) \in ids /\ shadows[OwnedBy(k, ids)].key = k
    BY <1>1, <2>1, Zenon DEF Has
  <2>3. 0 \notin Made
    BY DEF Made
  <2> QED
    BY <1>1, <2>2, <2>3
<1> QED
  BY <1>1 DEF OwnedBy

LEMMA ReadsAreMade ==
    ASSUME MirrorTyped, NEW m, NEW ids \in Reads(m)
    PROVE  /\ ids \in SUBSET Made
           /\ \A i \in ids : (i \in run.view /\ Merged(i)) \/ i \in Listing(m)
           /\ \A i \in run.view : Merged(i) => i \in ids
           /\ \A i \in Listing(m) : ~Merged(i) => i \in ids
<1>1. run.view \in SUBSET Made
  BY DEF MirrorTyped, RunType
<1>2. PICK changed \in SUBSET {i \in Listing(m) \ run.view : Merged(i)} :
        ids = {i \in run.view : Merged(i)} \cup {i \in Listing(m) : ~Merged(i)} \cup changed
  BY DEF Reads
<1>3. Listing(m) \in SUBSET Made
  BY DEF Listing
<1> QED
  BY <1>1, <1>2, <1>3

\* Every shadow keeps its key, what was removed stays away, what was seen stays visible.
ShadowsKeep ==
    /\ Len(shadows) <= Len(shadows') /\ Len(shadows') <= MaxShadows
    /\ \A i \in Made : /\ shadows'[i].key = shadows[i].key
                       /\ shadows'[i].live => shadows[i].live
                       /\ shadows[i].listed => shadows'[i].listed

ShadowsAge == ShadowsKeep /\ Len(shadows') = Len(shadows)

LEMMA Appending ==
    ASSUME MirrorTyped, NEW s \in Shadow, shadows' = Append(shadows, s), Len(shadows) < MaxShadows
    PROVE  /\ shadows' \in Seq(Shadow) /\ ShadowsKeep
           /\ Len(shadows') = Len(shadows) + 1 /\ shadows'[Len(shadows) + 1] = s
           /\ \A i \in Made : shadows'[i] = shadows[i]
<1>1. shadows \in Seq(Shadow) /\ Len(shadows) \in Nat /\ MaxShadows \in Nat
  BY Enrollment DEF MirrorTyped
<1>2. /\ shadows' \in Seq(Shadow) /\ Len(shadows') = Len(shadows) + 1
      /\ shadows'[Len(shadows) + 1] = s /\ \A i \in 1 .. Len(shadows) : shadows'[i] = shadows[i]
  BY <1>1
<1> QED
  BY <1>1, <1>2 DEF ShadowsKeep, Made

LEMMA Creating ==
    ASSUME MirrorTyped, NEW k \in Keys, NEW v \in Versions, Creates(k, v)
    PROVE  \E s \in Shadow : s.key = k /\ s.live /\ shadows' = Append(shadows, s) /\ Len(shadows) < MaxShadows
<1>1. PICK c \in {v} \cup {w \in {0} : Kind[k] = "issue"} :
        shadows' = Append(shadows, [key |-> k, content |-> c, listed |-> FALSE, live |-> TRUE])
  BY DEF Creates
<1>2. [key |-> k, content |-> c, listed |-> FALSE, live |-> TRUE] \in Shadow
  BY Enrollment DEF Shadow, Versions
<1> QED
  BY <1>1, <1>2 DEF Creates

\* A change of the shadows one by one.
LEMMA Changing ==
    ASSUME MirrorTyped, shadows' \in [Made -> Shadow],
           \A i \in Made : /\ shadows'[i].key = shadows[i].key
                           /\ shadows'[i].live => shadows[i].live
                           /\ shadows[i].listed => shadows'[i].listed
    PROVE  shadows' \in Seq(Shadow) /\ ShadowsAge
<1>1. Len(shadows) \in Nat /\ Made = 1 .. Len(shadows) /\ Len(shadows) <= MaxShadows
  BY DEF MirrorTyped, Made
<1>2. shadows' \in Seq(Shadow)
  BY <1>1
<1>3. Len(shadows') = Len(shadows)
  BY <1>1
<1> QED
  BY <1>1, <1>2, <1>3 DEF ShadowsAge, ShadowsKeep

LEMMA Showing ==
    ASSUME MirrorTyped, NEW i \in Made, NEW v \in Versions, ShowsVersion(i, v)
    PROVE  /\ shadows' \in Seq(Shadow) /\ ShadowsAge
           /\ \A j \in Made : j # i => shadows'[j] = shadows[j]
           /\ shadows'[i].content = v /\ shadows'[i].live = shadows[i].live
<1>1. shadows \in [Made -> Shadow] /\ shadows' = [shadows EXCEPT ![i] = [shadows[i] EXCEPT !.content = v]]
  BY DEF ShowsVersion, MirrorTyped, Made
<1>2. [shadows[i] EXCEPT !.content = v] \in Shadow
  BY <1>1 DEF Shadow
<1>3. /\ shadows' \in [Made -> Shadow] /\ \A j \in Made : j # i => shadows'[j] = shadows[j]
      /\ shadows'[i] = [shadows[i] EXCEPT !.content = v]
  BY <1>1, <1>2
<1>4. /\ shadows'[i].key = shadows[i].key /\ shadows'[i].live = shadows[i].live
      /\ shadows'[i].listed = shadows[i].listed /\ shadows'[i].content = v
  BY <1>1, <1>3 DEF Shadow
<1> QED
  BY <1>3, <1>4, Changing

LEMMA Removing ==
    ASSUME MirrorTyped, NEW i \in Made, Remove(i)
    PROVE  /\ shadows' \in Seq(Shadow) /\ ShadowsAge
           /\ \A j \in Made \ Deleted(i) : shadows'[j] = shadows[j]
<1>1. shadows' = [j \in Made |-> [shadows[j] EXCEPT !.live = @ /\ j \notin Deleted(i)]]
  BY DEF Remove
<1>2. ASSUME NEW j \in Made
      PROVE  /\ shadows'[j] \in Shadow /\ shadows'[j].key = shadows[j].key
             /\ shadows'[j].live => shadows[j].live
             /\ shadows[j].listed => shadows'[j].listed
             /\ j \notin Deleted(i) => shadows'[j] = shadows[j]
  <2>1. PICK b \in BOOLEAN : b = (shadows[j].live /\ j \notin Deleted(i))
    OBVIOUS
  <2>2. shadows'[j] = [shadows[j] EXCEPT !.live = b] /\ shadows[j] \in Shadow
    BY <1>1, <2>1, MadeTyped
  <2>3. b => shadows[j].live
    BY <2>1
  <2>4. j \notin Deleted(i) => b = shadows[j].live
    <3> SUFFICES ASSUME j \notin Deleted(i) PROVE b = shadows[j].live
      OBVIOUS
    <3>1. shadows[j].live \in BOOLEAN
      BY <2>2 DEF Shadow
    <3> QED
      BY <2>1, <3>1
  <2>5. b = shadows[j].live => shadows'[j] = shadows[j]
    BY <2>2 DEF Shadow
  <2> QED
    BY <2>2, <2>3, <2>4, <2>5 DEF Shadow
<1>3. shadows' \in [Made -> Shadow]
  BY <1>1, <1>2
<1> QED
  BY <1>2, <1>3, Changing

LEMMA Appearing ==
    ASSUME MirrorTyped, NEW i \in Made, Appear(i)
    PROVE  /\ shadows' \in Seq(Shadow) /\ ShadowsAge
           /\ \A j \in Made : /\ shadows'[j].content = shadows[j].content
                              /\ shadows'[j].live = shadows[j].live
<1>1. shadows \in [Made -> Shadow] /\ shadows' = [shadows EXCEPT ![i] = [shadows[i] EXCEPT !.listed = TRUE]]
  BY DEF Appear, MirrorTyped, Made
<1>2. [shadows[i] EXCEPT !.listed = TRUE] \in Shadow
  BY <1>1 DEF Shadow
<1>3. /\ shadows' \in [Made -> Shadow] /\ \A j \in Made : j # i => shadows'[j] = shadows[j]
      /\ shadows'[i] = [shadows[i] EXCEPT !.listed = TRUE]
  BY <1>1, <1>2
<1>4. /\ shadows'[i].key = shadows[i].key /\ shadows'[i].live = shadows[i].live
      /\ shadows'[i].listed = TRUE /\ shadows'[i].content = shadows[i].content
  BY <1>1, <1>3 DEF Shadow
<1> QED
  BY <1>3, <1>4, Changing

-----------------------------------------------------------------------------
(* The run *)

LEMMA RunTypeGrows ==
    ASSUME MirrorTyped, ShadowsKeep, shadows' \in Seq(Shadow)
    PROVE  RunType \subseteq RunType' /\ 0 .. Len(shadows) \subseteq 0 .. Len(shadows')
<1>1. Len(shadows) \in Nat /\ Len(shadows') \in Nat /\ Len(shadows) <= Len(shadows')
  BY DEF MirrorTyped, ShadowsKeep
<1>2. 0 .. Len(shadows) \subseteq 0 .. Len(shadows') /\ Made \subseteq Made'
  BY <1>1 DEF Made
<1>3. [id : 0 .. Len(shadows), content : Versions] \subseteq [id : 0 .. Len(shadows'), content : Versions]
  BY <1>2
<1>4. [Keys -> [id : 0 .. Len(shadows), content : Versions]] \subseteq [Keys -> [id : 0 .. Len(shadows'), content : Versions]]
  BY <1>3
<1>5. SUBSET Made \subseteq SUBSET (Made')
  BY <1>2
<1> QED
  BY <1>2, <1>4, <1>5 DEF RunType

\* What does not depend on the shadows made since keeps fitting.
HandOf(r) ==
    /\ r.step \in Discovered \cup {"source", "discover", "end"} => r.mapping \in MappingIds
    /\ r.step = "next" => r.mapping # 0
    /\ r.step \in {"object"} \cup AtObject => r.todo \in Seq(KeysOf(r.mapping))
    /\ r.step \in AtObject \cup {"resolve", "settle", "adopt", "note"} => r.todo # << >>
    /\ r.step \in {"seek", "record", "verify", "patch"} => r.made # 0 /\ shadows[r.made].key = Head(r.todo)
    /\ r.step = "note" => r.made # 0
    /\ r.step \in {"intend", "post", "renew", "patch"} => r.left > 0
    /\ \A k \in Keys : r.mine[k].id # 0 => shadows[r.mine[k].id].key = k

LEMMA HandStays ==
    ASSUME MirrorTyped, ShadowsKeep, shadows' \in Seq(Shadow), run' \in RunType, HandOf(run')
    PROVE  run' \in RunType' /\ HandFits'
<1>1. run' \in RunType'
  BY RunTypeGrows
<1>2. \A i \in 0 .. Len(shadows) : i # 0 => shadows'[i].key = shadows[i].key
  <2> Len(shadows) \in Nat
    BY MadeTyped
  <2> QED
    BY DEF ShadowsKeep, Made
<1>3. run'.made \in 0 .. Len(shadows) /\ \A k \in Keys : run'.mine[k].id \in 0 .. Len(shadows)
  BY DEF RunType
<1> QED
  BY <1>1, <1>2, <1>3 DEF HandFits, HandOf, Current

LEMMA IdleFits == MirrorTyped => Idle \in RunType /\ HandOf(Idle)
<1> SUFFICES ASSUME MirrorTyped PROVE Idle \in RunType /\ HandOf(Idle)
  OBVIOUS
<1>1. Len(shadows) \in Nat /\ Len(Enrolled) \in Nat /\ WriteBudget \in Nat /\ 0 \in Versions
  BY Enrollment DEF MirrorTyped, Versions
<1>2. Nothing \in [Keys -> Versions] /\ Unseen \in [Keys -> [id : 0 .. Len(shadows), content : Versions]]
  BY <1>1 DEF Nothing, Unseen
<1>3. \A k \in Keys : Idle.mine[k].id = 0
  BY DEF Idle, Unseen
<1>4. Idle \in RunType
  BY <1>1, <1>2 DEF Idle, RunType, Steps
<1>5. Idle.step = "idle"
  BY DEF Idle
<1> QED
  BY <1>3, <1>4, <1>5 DEF HandOf, Discovered, AtObject

\* The head and the tail of what a run has to do.
LEMMA TheWork ==
    ASSUME MirrorTyped, HandFits
    PROVE  /\ run.todo # << >> => Current \in Keys /\ Tail(run.todo) \in Seq(Keys)
           /\ run.step \in AtObject \/ Working => /\ Current \in KeysOf(run.mapping)
                                                  /\ Tail(run.todo) \in Seq(KeysOf(run.mapping))
                                                  /\ run.mapping \in MappingIds
           /\ run.step = "object" => run.mapping \in MappingIds
<1>1. run.todo \in Seq(Keys)
  BY DEF MirrorTyped, RunType
<1>2. run.todo # << >> => Current \in Keys /\ Tail(run.todo) \in Seq(Keys)
  BY <1>1 DEF Current
<1>3. run.step \in AtObject \/ Working => run.todo \in Seq(KeysOf(run.mapping)) /\ run.todo # << >> /\ run.mapping \in MappingIds
  BY DEF HandFits, Working, At, Discovered
<1>4. ASSUME NEW S, run.todo \in Seq(S), run.todo # << >>
      PROVE  Current \in S /\ Tail(run.todo) \in Seq(S)
  BY <1>4 DEF Current
<1> QED
  BY <1>2, <1>3, <1>4 DEF HandFits, Discovered

\* The ways in which a run goes on.
LEMMA Stopping ==
    ASSUME MirrorTyped, HandFits, NEW e \in Errors, Stops(e),
           run.step \in Discovered \cup {"source", "discover"}
    PROVE  run' \in RunType /\ HandOf(run')
<1>1. run \in RunType /\ run' = [run EXCEPT !.step = "end", !.errs = @ \cup {e}]
  BY DEF MirrorTyped, Stops, Goes
<1>2. run.errs \cup {e} \in SUBSET Errors
  BY <1>1 DEF RunType
<1>3. run' \in RunType
  BY <1>1, <1>2 DEF RunType, Steps
<1>4. run'.step = "end" /\ run'.mapping = run.mapping /\ run'.mine = run.mine
  BY <1>1 DEF RunType
<1>5. HandOf(run) /\ run.mapping \in MappingIds
  BY DEF HandFits, HandOf, Current
<1> QED
  BY <1>3, <1>4, <1>5 DEF HandOf, Discovered, AtObject

LEMMA Passing ==
    ASSUME MirrorTyped, HandFits, NEW e \in SUBSET Errors, Passes(e), run.step \in AtObject \/ Working
    PROVE  run' \in RunType /\ HandOf(run')
<1> USE TheWork DEF MirrorTyped, HandFits, Passes, Goes, RunType, HandOf, Steps, Discovered, AtObject
<1>1. run' \in RunType
  BY DEF Working
<1>2. run'.step = "object" /\ run'.todo = Tail(run.todo) /\ run'.mapping = run.mapping /\ run'.mine = run.mine
  OBVIOUS
<1> QED
  BY <1>1, <1>2

LEMMA Waiting ==
    ASSUME MirrorTyped, HandFits, Waits, Working
    PROVE  run' \in RunType /\ HandOf(run')
<1> USE TheWork DEF MirrorTyped, HandFits, Waits, Goes, RunType, HandOf, Steps, Discovered, AtObject, Working
<1>1. run' \in RunType
  OBVIOUS
<1>2. run'.step = "object" /\ run'.todo = Tail(run.todo) /\ run'.mapping = run.mapping /\ run'.mine = run.mine
  OBVIOUS
<1> QED
  BY <1>1, <1>2

LEMMA Holding ==
    ASSUME MirrorTyped, HandFits, run.step \in AtObject, NEW id \in 0 .. Len(shadows), NEW content \in Versions,
           id # 0 => shadows[id].key = Current
    PROVE  Holds(id, content) \in RunType /\ HandOf(Holds(id, content))
<1> DEFINE r == Holds(id, content)
           m == [run.mine EXCEPT ![Current] = [id |-> id, content |-> content]]
<1>1. Current \in Keys /\ run \in RunType
  BY TheWork DEF MirrorTyped, HandFits
<1>2. m \in [Keys -> [id : 0 .. Len(shadows), content : Versions]]
  BY <1>1 DEF RunType
<1>3. \A k \in Keys : m[k].id # 0 => shadows[m[k].id].key = k
  BY <1>1 DEF HandFits, RunType
<1>4. r = [run EXCEPT !.step = "object", !.todo = Tail(run.todo), !.mine = m]
  BY DEF Holds
<1> HIDE DEF m
<1>5. r \in RunType
  <2>1. Tail(run.todo) \in Seq(Keys)
    BY TheWork DEF HandFits
  <2> QED
    BY <1>1, <1>2, <1>4, <2>1 DEF RunType, Steps
<1>6. r.step = "object" /\ r.todo = Tail(run.todo) /\ r.mapping = run.mapping /\ r.mine = m
  BY <1>1, <1>4 DEF RunType
<1> HIDE DEF r
<1>7. HandOf(r)
  BY <1>3, <1>6, TheWork DEF HandOf, Discovered, AtObject
<1> QED
  BY <1>5, <1>7 DEF r

LEMMA FindsTyped ==
    ASSUME MirrorTyped, NEW ids \in SUBSET Made
    PROVE  /\ \A m : /\ Finds(m, ids) \in [Keys -> [id : 0 .. Len(shadows), content : Versions]]
                     /\ \A k \in Keys : Finds(m, ids)[k].id # 0 =>
                          k \in KeysOf(m) /\ Finds(m, ids)[k].id \in ids /\ shadows[Finds(m, ids)[k].id].key = k
           /\ [k \in Keys |-> [id |-> OwnedBy(k, ids), content |-> 0]]
                \in [Keys -> [id : 0 .. Len(shadows), content : Versions]]
<1>1. Len(shadows) \in Nat /\ 0 \in Versions /\ Made = 1 .. Len(shadows)
  BY MadeTyped, Enrollment DEF Versions, Made
<1>2. ASSUME NEW k PROVE OwnedBy(k, ids) \in 0 .. Len(shadows)
  <2>1. OwnedBy(k, ids) = 0 \/ OwnedBy(k, ids) \in ids
    BY Finding
  <2>2. \A i \in Made : i \in 0 .. Len(shadows)
    BY <1>1
  <2>3. 0 \in 0 .. Len(shadows)
    BY <1>1
  <2> QED
    BY <2>1, <2>2, <2>3
<1>3. \A k : OwnedBy(k, ids) # 0 => OwnedBy(k, ids) \in ids /\ shadows[OwnedBy(k, ids)].key = k
  BY Finding
<1>4. \A i \in ids : shadows[i].content \in Versions
  BY MadeTyped DEF Shadow
<1>5. ASSUME NEW m, NEW k \in Keys
      PROVE  /\ Finds(m, ids)[k] \in [id : 0 .. Len(shadows), content : Versions]
             /\ Finds(m, ids)[k].id # 0 =>
                  k \in KeysOf(m) /\ Finds(m, ids)[k].id \in ids /\ shadows[Finds(m, ids)[k].id].key = k
  <2>1. PICK i \in 0 .. Len(shadows) : i = OwnedBy(k, ids)
    BY <1>2
  <2>2. Finds(m, ids)[k] = IF k \in KeysOf(m) /\ i # 0 THEN [id |-> i, content |-> shadows[i].content]
                           ELSE [id |-> 0, content |-> 0]
    BY <2>1 DEF Finds
  <2>3. CASE k \in KeysOf(m) /\ i # 0
    BY <1>1, <1>3, <1>4, <2>1, <2>2, <2>3
  <2>4. CASE ~(k \in KeysOf(m) /\ i # 0)
    BY <1>1, <2>1, <2>2, <2>4
  <2> QED
    BY <2>3, <2>4
<1>6. \A m : Finds(m, ids) \in [Keys -> [id : 0 .. Len(shadows), content : Versions]]
  <2> TAKE m
  <2>1. DOMAIN Finds(m, ids) = Keys /\ Finds(m, ids) = [k \in Keys |-> Finds(m, ids)[k]]
    BY DEF Finds
  <2> QED
    BY <1>5, <2>1
<1>7. [k \in Keys |-> [id |-> OwnedBy(k, ids), content |-> 0]] \in [Keys -> [id : 0 .. Len(shadows), content : Versions]]
  BY <1>1, <1>2
<1> QED
  BY <1>5, <1>6, <1>7

\* The steps of a run outside of objects.
LEMMA PassTyping ==
    ASSUME MirrorTyped, HandFits,
           \/ StartApply \/ EnterMapping \/ ReadSource \/ Discover \/ Enumerate \/ MappingEnds \/ Finish
           \/ \E k \in Keys : Retire(k)
    PROVE  run' \in RunType /\ HandOf(run')
<1> USE DEF At, Goes, Moves
<1>1. run \in RunType /\ HandOf(run) /\ MappingIds = 1 .. Len(Enrolled)
  BY DEF MirrorTyped, HandFits, HandOf, Current, MappingIds
<1>2. Len(Enrolled) \in Nat /\ WriteBudget \in Nat \ {0}
  BY Enrollment
<1>3. Idle \in RunType /\ HandOf(Idle)
  BY IdleFits
<1>4. CASE StartApply
  <2>1. run' = [Idle EXCEPT !.step = "next", !.mapping = 1, !.left = WriteBudget]
    BY <1>4 DEF StartApply
  <2>2. 1 \in 0 .. Len(Enrolled) + 1 /\ WriteBudget \in 0 .. WriteBudget
    BY <1>2
  <2>3. run' \in RunType
    BY <1>3, <2>1, <2>2 DEF RunType, Steps
  <2>4. run'.step = "next" /\ run'.mine = Idle.mine /\ run'.mapping # 0
    BY <1>3, <2>1 DEF RunType
  <2> QED
    BY <1>3, <2>3, <2>4 DEF HandOf, Discovered, AtObject
<1>5. CASE EnterMapping
  <2>1. Refusal \subseteq Errors
    BY DEF Refusal, Errors, Resumable
  <2>2. run.step = "next" /\ run.mapping # 0 /\ run.mapping <= Len(Enrolled) /\ run.mapping \in 0 .. Len(Enrolled) + 1
    BY <1>1, <1>5 DEF EnterMapping, RunType, HandOf
  <2>3. CASE Refusal = {}
    <3>1. run' = [run EXCEPT !.step = "source"]
      BY <1>5, <2>3 DEF EnterMapping
    <3>2. run' \in RunType /\ run'.step = "source" /\ run'.mapping = run.mapping /\ run'.mine = run.mine
      BY <1>1, <3>1 DEF RunType, Steps
    <3>3. run.mapping \in MappingIds
      BY <1>1, <2>2 DEF HandOf
    <3> QED
      BY <1>1, <3>2, <3>3 DEF HandOf, Discovered, AtObject
  <2>4. CASE Refusal # {}
    <3>1. run' = [run EXCEPT !.mapping = run.mapping + 1, !.all = run.all \cup Refusal]
      BY <1>5, <2>4 DEF EnterMapping
    <3>2. run.mapping + 1 \in 0 .. Len(Enrolled) + 1
      BY <1>2, <2>2
    <3>3. run.all \cup Refusal \subseteq Errors \cup {"backlog"}
      BY <1>1, <2>1 DEF RunType
    <3>4. run' \in RunType
      BY <1>1, <2>2, <3>1, <3>2, <3>3 DEF RunType
    <3>5. run'.step = "next" /\ run'.mine = run.mine /\ run'.mapping = run.mapping + 1
      BY <1>1, <2>2, <3>1 DEF RunType
    <3>6. run'.mapping # 0
      BY <1>2, <2>2, <3>5
    <3> QED
      BY <1>1, <3>4, <3>5, <3>6 DEF HandOf, Discovered, AtObject
  <2> QED
    BY <2>3, <2>4
<1>6. CASE ReadSource
  <2>1. [k \in Keys |-> IF k \in KeysOf(run.mapping) THEN source[k] ELSE 0] \in [Keys -> Versions]
    BY Enrollment DEF MirrorTyped, Versions
  <2>2. PICK w \in [Keys -> Versions] : run.step = "source" /\ run' = [run EXCEPT !.step = "discover", !.want = w]
    BY <1>6, <2>1 DEF ReadSource
  <2>3. run' \in RunType
    BY <1>1, <2>2 DEF RunType, Steps
  <2>4. run'.step = "discover" /\ run'.mapping = run.mapping /\ run'.mine = run.mine
    BY <1>1, <2>2 DEF RunType
  <2> QED
    BY <1>1, <2>2, <2>3, <2>4 DEF HandOf, Discovered, AtObject
<1>7. CASE Discover
  <2>1. CASE Stops("conflict") \/ Stops("collision")
    BY <1>7, <2>1, Stopping DEF Discover, Errors
  <2>2. CASE run' = [run EXCEPT !.step = "retire", !.view = Listing(run.mapping), !.mine = Finds(run.mapping, Listing(run.mapping))]
    <3>1. Listing(run.mapping) \in SUBSET Made
      BY DEF Listing
    <3>2. PICK f \in [Keys -> [id : 0 .. Len(shadows), content : Versions]] :
            /\ f = Finds(run.mapping, Listing(run.mapping))
            /\ \A k \in Keys : f[k].id # 0 => shadows[f[k].id].key = k
      BY <3>1, FindsTyped
    <3>3. run.step = "discover" /\ run' = [run EXCEPT !.step = "retire", !.view = Listing(run.mapping), !.mine = f]
      BY <1>7, <2>2, <3>2 DEF Discover
    <3>4. run' \in RunType
      BY <1>1, <3>1, <3>3 DEF RunType, Steps
    <3>5. run'.step = "retire" /\ run'.mapping = run.mapping /\ run'.mine = f
      BY <1>1, <3>3 DEF RunType
    <3> QED
      BY <1>1, <3>2, <3>3, <3>4, <3>5 DEF HandOf, Discovered, AtObject
  <2> QED
    BY <1>7, <2>1, <2>2 DEF Discover
<1>8. CASE Enumerate
  <2>1. run.mapping \in MappingIds
    BY <1>1, <1>8 DEF Enumerate, HandOf, Discovered
  <2>2. PICK todo \in Seq(KeysOf(run.mapping)) : todo = Enrolled[run.mapping]
    BY <2>1, Enrollment
  <2>3. Enrolled[run.mapping] \in Seq(Keys)
    BY <2>1, MirrorAssumption DEF MappingIds
  <2> QED
    <3>1. run.step = "retire" /\ run' = [run EXCEPT !.step = "object", !.todo = Enrolled[run.mapping]]
      BY <1>8 DEF Enumerate
    <3>2. run' \in RunType
      BY <1>1, <2>3, <3>1 DEF RunType, Steps
    <3>3. /\ run'.step = "object" /\ run'.mapping = run.mapping /\ run'.mine = run.mine
          /\ run'.todo = Enrolled[run.mapping]
      BY <1>1, <3>1 DEF RunType
    <3> QED
      BY <1>1, <2>1, <2>2, <3>2, <3>3 DEF HandOf, Discovered, AtObject
<1>9. CASE MappingEnds
  <2>1. run.mapping \in 1 .. Len(Enrolled)
    BY <1>1, <1>9 DEF MappingEnds, HandOf, Discovered
  <2>2. MappingErrors \subseteq Errors /\ run.all \subseteq Errors \cup {"backlog"}
    BY <1>1 DEF MappingErrors, RunType, Errors
  <2>3. PICK all \in SUBSET (Errors \cup {"backlog"}) :
          all = run.all \cup MappingErrors \cup {e \in {"backlog"} : run.backlog}
    BY <2>2
  <2>4. PICK clean \in SUBSET MappingIds :
          clean = run.clean \cup {m \in {run.mapping} : MappingErrors = {} /\ ~run.backlog}
    BY <1>1, <2>1 DEF RunType
  <2>5. run' = [Idle EXCEPT !.step = "next", !.mapping = run.mapping + 1, !.left = run.left, !.all = all, !.clean = clean]
    BY <1>9, <2>3, <2>4 DEF MappingEnds
  <2>6. run.mapping + 1 \in 0 .. Len(Enrolled) + 1 /\ run.left \in 0 .. WriteBudget
    BY <1>1, <1>2, <2>1 DEF RunType
  <2>7. run' \in RunType
    BY <1>3, <2>5, <2>6 DEF RunType, Steps
  <2>8. run'.step = "next" /\ run'.mine = Idle.mine /\ run'.mapping = run.mapping + 1
    BY <1>3, <2>5 DEF RunType
  <2>9. run'.mapping # 0
    BY <1>2, <2>1, <2>8
  <2> QED
    BY <1>3, <2>7, <2>8, <2>9 DEF HandOf, Discovered, AtObject
<1>10. CASE Finish
  BY <1>3, <1>10 DEF Finish
<1>11. CASE \E k \in Keys : Retire(k)
  BY <1>1, <1>11 DEF Retire
<1> QED
  BY <1>4, <1>5, <1>6, <1>7, <1>8, <1>9, <1>10, <1>11

\* The steps of attended requests.
LEMMA AttendedTyping ==
    ASSUME MirrorTyped, HandFits,
           \/ RequestBootstrap \/ Resolve \/ Settle \/ Bootstrap \/ Reowned \/ Note \/ JournalLost
           \/ \E k \in Keys : RequestResolve(k) \/ RequestAdopt(k) \/ Reown(k)
    PROVE  run' \in RunType /\ HandOf(run')
<1> USE DEF At, Goes, Moves
<1>1. run \in RunType /\ HandOf(run)
  BY DEF MirrorTyped, HandFits, HandOf, Current
<1>2. Idle \in RunType /\ HandOf(Idle) /\ Idle.todo = << >>
  BY IdleFits DEF Idle
<1>3. ASSUME NEW step \in {"bootstrap", "resolve", "adopt"}, NEW todo \in Seq(Keys), Attends(step, todo),
             step # "bootstrap" => todo # << >>
      PROVE  run' \in RunType /\ HandOf(run')
  BY <1>2, <1>3 DEF Attends, RunType, HandOf, Steps, Discovered, AtObject
<1>4. CASE RequestBootstrap
  <2>1. << >> \in Seq(Keys) /\ Attends("bootstrap", << >>)
    BY <1>4 DEF RequestBootstrap
  <2> QED
    BY <1>3, <2>1
<1>5. CASE \E k \in Keys : RequestResolve(k) \/ RequestAdopt(k)
  <2>1. PICK k \in Keys : Attends("resolve", <<k>>) \/ Attends("adopt", <<k>>)
    BY <1>5 DEF RequestResolve, RequestAdopt
  <2>2. <<k>> \in Seq(Keys) /\ <<k>> # << >>
    OBVIOUS
  <2> QED
    BY <1>3, <2>1, <2>2
<1>6. CASE Resolve \/ Bootstrap
  <2>1. CASE run' = Idle
    BY <1>2, <2>1
  <2>2. ListedAnywhere \in SUBSET Made
    BY DEF ListedAnywhere, Listing
  <2>3. PICK f \in [Keys -> [id : 0 .. Len(shadows), content : Versions]] :
          f = FindsAll /\ \A k \in Keys : f[k].id # 0 => shadows[f[k].id].key = k
    <3>1. FindsAll \in [Keys -> [id : 0 .. Len(shadows), content : Versions]]
      BY <2>2, FindsTyped DEF FindsAll
    <3>2. \A k \in Keys : FindsAll[k].id # 0 => shadows[FindsAll[k].id].key = k
      BY <2>2, Finding DEF FindsAll
    <3> QED
      BY <3>1, <3>2
  <2>4. CASE run' = [run EXCEPT !.step = "settle", !.mine = f] /\ At("resolve")
    BY <1>1, <2>3, <2>4 DEF RunType, HandOf, Steps, Discovered, AtObject
  <2>5. CASE run' = [run EXCEPT !.step = "reown", !.mine = f]
    BY <1>1, <2>3, <2>5 DEF RunType, HandOf, Steps, Discovered, AtObject
  <2> QED
    BY <1>6, <2>1, <2>3, <2>4, <2>5 DEF Resolve, Bootstrap, Refused
<1>7. CASE Settle \/ Reowned \/ Note
  BY <1>2, <1>7 DEF Settle, Reowned, Note
<1>8. CASE JournalLost \/ \E k \in Keys : Reown(k)
  BY <1>1, <1>8 DEF JournalLost, Reown
<1> QED
  BY <1>4, <1>5, <1>6, <1>7, <1>8

\* The steps at one object.
LEMMA ObjectTyping ==
    ASSUME MirrorTyped, HandFits,
           \/ Wait \/ Refresh \/ Intend \/ AnswerLost \/ Rejected \/ Limited \/ Seek \/ SeekEnds \/ Record \/ Verify
           \/ Renew \/ Patch \/ PatchFails
    PROVE  run' \in RunType /\ HandOf(run')
<1> USE DEF At, Goes, Moves
<1>1. run \in RunType /\ HandOf(run) /\ WriteBudget \in Nat \ {0}
  BY Enrollment DEF MirrorTyped, HandFits, HandOf, Current
<1>2. run.step \in AtObject \/ Working
  BY DEF Wait, Needed, Refresh, Intend, AnswerLost, Rejected, Limited, Seek, SeekEnds, Record, Verify, Renew, Patch,
     PatchFails, AtObject
<1>3. /\ run.mapping \in MappingIds /\ Current \in Keys
      /\ run.todo \in Seq(KeysOf(run.mapping)) /\ run.todo # << >> /\ Current = Head(run.todo)
      /\ Tail(run.todo) \in Seq(Keys) /\ Tail(run.todo) \in Seq(KeysOf(run.mapping))
  BY <1>1, <1>2, TheWork DEF HandOf, Working, AtObject, Discovered, Current
\* Turning to another step at the same object.
<1> DEFINE Turned(step, view, made, content) ==
             [run EXCEPT !.step = step, !.view = view, !.made = made, !.content = content]
<1>4. ASSUME NEW step \in AtObject, NEW view \in SUBSET Made, NEW made \in 0 .. Len(shadows), NEW content \in Versions,
             step \in {"intend", "post", "renew", "patch"} => run.left > 0,
             step \in {"seek", "record", "verify", "patch"} => made # 0 /\ shadows[made].key = Current
      PROVE  Turned(step, view, made, content) \in RunType /\ HandOf(Turned(step, view, made, content))
  <2> DEFINE r == Turned(step, view, made, content)
  <2>1. r \in RunType
    BY <1>1, <1>4 DEF RunType, Steps, AtObject
  <2>2. /\ r.step = step /\ r.mapping = run.mapping /\ r.todo = run.todo /\ r.mine = run.mine
        /\ r.made = made /\ r.left = run.left
    BY <1>1, <1>4 DEF RunType
  <2> HIDE DEF r
  <2>3. HandOf(r)
    BY <1>1, <1>3, <1>4, <2>1, <2>2 DEF HandOf, AtObject, Discovered
  <2> QED
    BY <2>1, <2>3 DEF r
<1> HIDE DEF Turned
\* Turning to the next object, with a write sent or none.
<1>5. ASSUME NEW left \in 0 .. WriteBudget, NEW view \in SUBSET Made, NEW errs \in SUBSET Errors,
             run' = [run EXCEPT !.step = "object", !.todo = Tail(run.todo), !.left = left, !.view = view, !.errs = errs]
      PROVE  run' \in RunType /\ HandOf(run')
  <2>1. run' \in RunType
    BY <1>1, <1>3, <1>5 DEF RunType, Steps
  <2>2. /\ run'.step = "object" /\ run'.mapping = run.mapping /\ run'.todo = Tail(run.todo) /\ run'.mine = run.mine
    BY <1>1, <1>5 DEF RunType
  <2> QED
    BY <1>1, <1>3, <2>1, <2>2 DEF HandOf, AtObject, Discovered
<1>6. run.left > 0 => run.left - 1 \in 0 .. WriteBudget
  BY <1>1 DEF RunType
<1>7. /\ run.view \in SUBSET Made /\ run.made \in 0 .. Len(shadows) /\ run.content \in Versions /\ run.errs \in SUBSET Errors
      /\ run.want[Current] \in Versions /\ run.left \in 0 .. WriteBudget
  BY <1>1, <1>3 DEF RunType
<1>8. \A e \in Errors : Stops(e) => run' \in RunType /\ HandOf(run')
  BY <1>2, Stopping DEF Discovered, AtObject, Working
<1>9. \A e \in Errors : run.left > 0 /\ run' = SentPasses(e) => run' \in RunType /\ HandOf(run')
  <2> SUFFICES ASSUME NEW e \in Errors, run.left > 0, run' = SentPasses(e) PROVE run' \in RunType /\ HandOf(run')
    OBVIOUS
  <2>1. run.errs \cup {e} \in SUBSET Errors
    BY <1>7
  <2>2. run' = [run EXCEPT !.step = "object", !.todo = Tail(run.todo), !.left = run.left - 1, !.view = run.view,
                           !.errs = run.errs \cup {e}]
    BY <1>1 DEF SentPasses, Sent, RunType
  <2> QED
    BY <1>5, <1>6, <1>7, <2>1, <2>2
<1>10. {"other", "conflict", "collision", "limited", "unresolved"} \subseteq Errors
  BY DEF Errors, Resumable
<1>11. ASSUME NEW ids \in Reads(run.mapping)
       PROVE  /\ ids \in SUBSET Made
              /\ OwnedBy(Current, ids) \in 0 .. Len(shadows)
              /\ OwnedBy(Current, ids) # 0 => shadows[OwnedBy(Current, ids)].key = Current
              /\ OwnedBy(Current, ids) # 0 => shadows[OwnedBy(Current, ids)].content \in Versions
  <2>1. ids \in SUBSET Made
    BY <1>11, ReadsAreMade
  <2>2. OwnedBy(Current, ids) = 0 \/ (OwnedBy(Current, ids) \in Made /\ shadows[OwnedBy(Current, ids)].key = Current)
    BY <2>1, Finding
  <2>3. Made \subseteq 0 .. Len(shadows) /\ 0 \in 0 .. Len(shadows)
    BY MadeTyped DEF Made
  <2> QED
    BY <2>1, <2>2, <2>3, MadeTyped DEF Shadow
<1>12. CASE Wait
  BY <1>12, Passing, Waiting DEF Wait
<1>13. CASE Refresh
  <2> PICK ids \in Reads(run.mapping) : LET k == Current  i == OwnedBy(k, ids) IN
           \/ RediscoveryStops(ids)
           \/ /\ Rediscovers(ids) /\ ~Collides(run.mapping)
              /\ IF (run.mine[k].id # 0 /\ i = 0) \/ Orphan(k, ids) THEN Stops("conflict")
                 ELSE IF i = 0 THEN Goes([run EXCEPT !.step = "intend", !.view = ids])
                 ELSE IF shadows[i].live
                      THEN Goes([run EXCEPT !.step = "verify", !.view = ids, !.made = i, !.content = shadows[i].content])
                 ELSE Goes([run EXCEPT !.step = "object", !.view = ids, !.todo = Tail(@), !.errs = @ \cup {"other"}])
    BY <1>13 DEF Refresh
  <2> DEFINE i == OwnedBy(Current, ids)
  <2>1. run.left > 0
    BY <1>13 DEF Refresh, Needed
  <2>2. CASE Stops("conflict") \/ Stops("collision")
    BY <1>8, <1>10, <2>2
  <2>3. CASE run' = [run EXCEPT !.step = "intend", !.view = ids]
    <3>1. run' = Turned("intend", ids, run.made, run.content)
      BY <1>1, <2>3 DEF Turned, RunType
    <3>2. "intend" \in AtObject /\ ids \in SUBSET Made
      BY <1>11 DEF AtObject
    <3> QED
      BY <1>4, <1>7, <2>1, <3>1, <3>2
  <2>4. CASE i # 0 /\ run' = Turned("verify", ids, i, shadows[i].content)
    <3>1. /\ "verify" \in AtObject /\ ids \in SUBSET Made /\ i \in 0 .. Len(shadows)
          /\ shadows[i].content \in Versions /\ shadows[i].key = Current
      BY <1>11, <2>4 DEF AtObject
    <3> HIDE DEF i
    <3> QED
      BY <1>4, <2>4, <3>1
  <2>5. CASE run' = [run EXCEPT !.step = "object", !.view = ids, !.todo = Tail(@), !.errs = @ \cup {"other"}]
    <3>1. run.errs \cup {"other"} \in SUBSET Errors
      BY <1>7, <1>10
    <3>2. run' = [run EXCEPT !.step = "object", !.todo = Tail(run.todo), !.left = run.left, !.view = ids,
                             !.errs = run.errs \cup {"other"}]
      BY <1>1, <2>5 DEF RunType
    <3> QED
      BY <1>5, <1>7, <1>11, <3>1, <3>2
  <2> QED
    BY <2>2, <2>3, <2>4, <2>5 DEF RediscoveryStops, Turned
<1>14. CASE Intend
  <2>1. CASE Passes({"unresolved"})
    BY <1>2, <1>10, <2>1, Passing
  <2>2. CASE run' = [run EXCEPT !.step = "post"]
    <3>1. run' = Turned("post", run.view, run.made, run.content)
      BY <1>1, <2>2 DEF Turned, RunType
    <3>2. run.left > 0
      BY <1>1, <1>14 DEF Intend, HandOf
    <3> QED
      BY <1>4, <1>7, <3>1, <3>2 DEF AtObject
  <2> QED
    BY <1>14, <2>1, <2>2 DEF Intend
<1>15. CASE AnswerLost \/ Rejected
  <2>1. run.left > 0
    BY <1>1, <1>15 DEF AnswerLost, Rejected, HandOf
  <2> QED
    BY <1>9, <1>10, <1>15, <2>1 DEF AnswerLost, Rejected
<1>16. CASE Limited
  <2>1. run.left > 0
    BY <1>1, <1>16 DEF Limited, HandOf
  <2>2. run.errs \cup {"limited"} \in SUBSET Errors
    BY <1>7, <1>10
  <2>3. run' = [run EXCEPT !.step = "end", !.todo = Tail(run.todo), !.left = run.left - 1, !.errs = run.errs \cup {"limited"}]
    BY <1>1, <1>16 DEF Limited, SentPasses, Sent, RunType
  <2>4. run' \in RunType
    BY <1>1, <1>3, <1>6, <2>1, <2>2, <2>3 DEF RunType, Steps
  <2>5. run'.step = "end" /\ run'.mapping = run.mapping /\ run'.mine = run.mine
    BY <1>1, <2>3 DEF RunType
  <2> QED
    BY <1>1, <1>3, <2>4, <2>5 DEF HandOf, AtObject, Discovered
<1>17. CASE Seek \/ SeekEnds
  <2>1. CASE Stops("conflict")
    BY <1>8, <1>10, <2>1
  <2>2. CASE \E ids \in Reads(run.mapping) : /\ OwnedBy(Current, ids) # 0 /\ OwnedBy(Current, ids) = run.made
                  /\ run' = [run EXCEPT !.step = "record", !.view = ids, !.content = shadows[OwnedBy(Current, ids)].content]
    <3> PICK ids \in Reads(run.mapping) : /\ OwnedBy(Current, ids) # 0 /\ OwnedBy(Current, ids) = run.made
                  /\ run' = [run EXCEPT !.step = "record", !.view = ids, !.content = shadows[OwnedBy(Current, ids)].content]
      BY <2>2
    <3>1. run' = Turned("record", ids, run.made, shadows[OwnedBy(Current, ids)].content)
      BY <1>1 DEF Turned, RunType
    <3>2. /\ ids \in SUBSET Made /\ shadows[OwnedBy(Current, ids)].content \in Versions
          /\ run.made # 0 /\ shadows[run.made].key = Current
      BY <1>11
    <3>3. "record" \in AtObject
      BY DEF AtObject
    <3> QED
      BY <1>4, <1>7, <3>1, <3>2, <3>3
  <2> QED
    BY <1>17, <2>1, <2>2 DEF Seek, SeekEnds
<1>18. CASE Record
  <2>1. run' = Turned("verify", run.view, run.made, run.content)
    BY <1>1, <1>18 DEF Turned, Record, RunType
  <2>2. run.made # 0 /\ shadows[run.made].key = Current
    BY <1>18 DEF Record, HandFits
  <2> QED
    BY <1>4, <1>7, <2>1, <2>2 DEF AtObject
<1>19. CASE Verify
  <2>1. run.made # 0 /\ shadows[run.made].key = Current /\ run.step \in AtObject
    BY <1>19 DEF Verify, HandFits, AtObject
  <2>2. Holds(run.made, run.content) \in RunType /\ HandOf(Holds(run.made, run.content))
    BY <1>7, <2>1, Holding
  <2>3. CASE run' = [Holds(run.made, run.content) EXCEPT !.backlog = TRUE]
    BY <2>2, <2>3 DEF RunType, HandOf
  <2>4. CASE run.left > 0 /\ run' = [run EXCEPT !.step = "renew"]
    <3>1. run' = Turned("renew", run.view, run.made, run.content)
      BY <1>1, <2>4 DEF Turned, RunType
    <3>2. "renew" \in AtObject
      BY DEF AtObject
    <3> QED
      BY <1>4, <1>7, <2>4, <3>1, <3>2
  <2> QED
    BY <1>19, <2>2, <2>3, <2>4 DEF Verify
<1>20. CASE Renew
  <2>1. CASE Stops("conflict") \/ Stops("collision")
    BY <1>8, <1>10, <2>1
  <2>2. CASE \E ids \in Reads(run.mapping) : /\ OwnedBy(Current, ids) # 0
                  /\ run' = [run EXCEPT !.step = "patch", !.view = ids, !.made = OwnedBy(Current, ids)]
    <3> PICK ids \in Reads(run.mapping) : /\ OwnedBy(Current, ids) # 0
                  /\ run' = [run EXCEPT !.step = "patch", !.view = ids, !.made = OwnedBy(Current, ids)]
      BY <2>2
    <3>1. run' = Turned("patch", ids, OwnedBy(Current, ids), run.content)
      BY <1>1 DEF Turned, RunType
    <3>2. run.left > 0
      BY <1>1, <1>20 DEF Renew, HandOf
    <3>3. /\ ids \in SUBSET Made /\ OwnedBy(Current, ids) \in 0 .. Len(shadows)
          /\ shadows[OwnedBy(Current, ids)].key = Current /\ OwnedBy(Current, ids) # 0
      BY <1>11
    <3>4. "patch" \in AtObject
      BY DEF AtObject
    <3> QED
      BY <1>4, <1>7, <3>1, <3>2, <3>3, <3>4
  <2> QED
    BY <1>20, <2>1, <2>2 DEF Renew, RediscoveryStops
<1>21. CASE Patch \/ PatchFails
  <2>1. run.made # 0 /\ shadows[run.made].key = Current /\ run.step \in AtObject /\ run.left > 0
    BY <1>21 DEF Patch, PatchFails, HandFits, AtObject
  <2>2. CASE run' = SentPasses("other")
    BY <1>9, <1>10, <2>1, <2>2
  <2>3. CASE run' = [Holds(run.made, run.want[Current]) EXCEPT !.left = @ - 1]
    <3>1. Holds(run.made, run.want[Current]) \in RunType /\ HandOf(Holds(run.made, run.want[Current]))
      BY <1>7, <2>1, Holding
    <3>2. Holds(run.made, run.want[Current]).left = run.left /\ Holds(run.made, run.want[Current]).step = "object"
      BY <1>1 DEF Holds, RunType
    <3>3. run' = [Holds(run.made, run.want[Current]) EXCEPT !.left = run.left - 1]
      BY <2>3, <3>2
    <3> QED
      BY <1>6, <2>1, <3>1, <3>2, <3>3 DEF RunType, HandOf
  <2> QED
    BY <1>21, <2>2, <2>3 DEF Patch, PatchFails
<1> QED
  BY <1>12, <1>13, <1>14, <1>15, <1>16, <1>17, <1>18, <1>19, <1>20, <1>21

\* Failures, and what others do.
LEMMA FailureTyping ==
    ASSUME MirrorTyped, HandFits, OutOfTime \/ TimesOut \/ ReadFails \/ Killed
    PROVE  run' \in RunType /\ HandOf(run')
<1> USE DEF At, Goes
<1>1. run \in RunType /\ HandOf(run)
  BY DEF MirrorTyped, HandFits, HandOf, Current
<1>2. {"other", "timeout", "exhausted"} \subseteq Errors
  BY DEF Errors, Resumable
<1>3. CASE OutOfTime
  <2>1. run.step \in Discovered
    BY <1>3 DEF OutOfTime, Needed, Working, Discovered, AtObject
  <2>2. run.mapping \in MappingIds /\ run.errs \cup {"exhausted"} \in SUBSET Errors
    BY <1>1, <1>2, <2>1 DEF HandOf, RunType
  <2>3. run' = [run EXCEPT !.step = "end", !.errs = run.errs \cup {"exhausted"}, !.backlog = TRUE]
    BY <1>1, <1>3 DEF OutOfTime, RunType
  <2>4. run' \in RunType
    BY <1>1, <2>2, <2>3 DEF RunType, Steps
  <2>5. run'.step = "end" /\ run'.mapping = run.mapping /\ run'.mine = run.mine
    BY <1>1, <2>3 DEF RunType
  <2> QED
    BY <1>1, <2>2, <2>4, <2>5 DEF HandOf, Discovered, AtObject
<1>4. CASE TimesOut
  BY <1>2, <1>4, Stopping DEF TimesOut, Discovered, AtObject
<1>5. CASE ReadFails
  <2>1. CASE run.step \in {"source", "discover"} /\ Stops("other")
    BY <1>2, <2>1, Stopping
  <2>2. CASE (Needed \/ run.step \in {"intend", "seek", "renew"}) /\ Passes({"other"})
    <3>1. {"other"} \in SUBSET Errors
      BY <1>2
    <3> QED
      BY <2>2, <3>1, Passing DEF Needed, AtObject
  <2> QED
    BY <1>5, <2>1, <2>2 DEF ReadFails
<1>6. CASE Killed
  BY <1>6, IdleFits DEF Killed
<1> QED
  BY <1>3, <1>4, <1>5, <1>6

LEMMA TouchTyping ==
    ASSUME MirrorTyped, HandFits, NEW keys \in SUBSET Keys, Touches(keys)
    PROVE  run' \in RunType /\ HandOf(run')
<1>1. run \in RunType /\ HandOf(run)
  BY DEF MirrorTyped, HandFits, HandOf, Current
<1>2. CASE run' = run
  BY <1>1, <1>2
<1>3. CASE run' = [run EXCEPT !.touched = run.touched \cup keys]
  <2>1. run.touched \cup keys \in SUBSET Keys
    BY <1>1 DEF RunType
  <2>2. run' \in RunType
    BY <1>1, <1>3, <2>1 DEF RunType
  <2>3. /\ run'.step = run.step /\ run'.mapping = run.mapping /\ run'.todo = run.todo /\ run'.mine = run.mine
        /\ run'.made = run.made /\ run'.left = run.left
    BY <1>1, <1>3 DEF RunType
  <2> QED
    BY <1>1, <2>2, <2>3 DEF HandOf
<1> QED
  BY <1>2, <1>3 DEF Touches, At

\* The steps that make a shadow.
LEMMA MakingTyping ==
    ASSUME MirrorTyped, HandFits, Accepted \/ Adopt
    PROVE  shadows' \in Seq(Shadow) /\ ShadowsKeep /\ run' \in RunType' /\ HandFits'
<1> USE DEF At, Goes
<1>1. run \in RunType /\ HandOf(run) /\ Len(shadows) \in Nat /\ WriteBudget \in Nat \ {0}
  BY Enrollment DEF MirrorTyped, HandFits, HandOf, Current
<1>2. Current \in Keys /\ run.todo # << >>
  BY TheWork DEF Accepted, Adopt, HandFits, AtObject
<1>3. CASE Adopt /\ run' = Idle /\ UNCHANGED shadows
  BY <1>3, IdleFits, HandStays DEF ShadowsKeep, MirrorTyped
<1>4. ASSUME NEW s \in Shadow, s.key = Current, shadows' = Append(shadows, s), Len(shadows) < MaxShadows,
             NEW step \in {"seek", "note"}, NEW left \in 0 .. WriteBudget,
             run' = [run EXCEPT !.step = step, !.left = left, !.made = Len(shadows) + 1],
             step = "seek" => run.step = "post"
      PROVE  shadows' \in Seq(Shadow) /\ ShadowsKeep /\ run' \in RunType' /\ HandFits'
  <2>1. /\ shadows' \in Seq(Shadow) /\ ShadowsKeep /\ Len(shadows') = Len(shadows) + 1
        /\ shadows'[Len(shadows) + 1] = s /\ \A i \in Made : shadows'[i] = shadows[i]
    BY <1>4, Appending
  <2>2. run \in RunType' /\ Len(shadows) + 1 \in 0 .. Len(shadows')
    BY <1>1, <2>1, RunTypeGrows
  <2>3. run' \in RunType'
    BY <1>4, <2>2 DEF RunType, Steps
  <2>4. /\ run'.step = step /\ run'.mapping = run.mapping /\ run'.todo = run.todo /\ run'.mine = run.mine
        /\ run'.made = Len(shadows) + 1
    BY <1>1, <1>4 DEF RunType
  <2>5. \A k \in Keys : run'.mine[k].id # 0 => shadows'[run'.mine[k].id].key = k
    <3> SUFFICES ASSUME NEW k \in Keys, run.mine[k].id # 0 PROVE shadows'[run.mine[k].id].key = k
      BY <2>4
    <3>1. run.mine[k].id \in 0 .. Len(shadows) /\ shadows[run.mine[k].id].key = k
      BY <1>1 DEF RunType, HandOf
    <3> QED
      BY <1>1, <2>1, <3>1 DEF Made
  <2>6. Current' = Current /\ shadows'[run'.made].key = Current /\ run'.made # 0
    BY <1>1, <1>4, <2>1, <2>4 DEF Current
  <2>7. step = "seek" => run.mapping \in MappingIds /\ run.todo \in Seq(KeysOf(run.mapping))
    BY <1>1, <1>4 DEF HandOf, Discovered, AtObject
  <2> QED
    BY <1>2, <1>4, <2>1, <2>3, <2>4, <2>5, <2>6, <2>7 DEF HandFits, Discovered, AtObject
<1>5. CASE Accepted
  <2>1. run.want[Current] \in Versions /\ run.left > 0 /\ run.left \in 0 .. WriteBudget
    BY <1>1, <1>2, <1>5 DEF Accepted, RunType, HandOf
  <2>2. PICK s \in Shadow : s.key = Current /\ shadows' = Append(shadows, s) /\ Len(shadows) < MaxShadows
    BY <1>2, <1>5, <2>1, Creating DEF Accepted
  <2>3. run.left - 1 \in 0 .. WriteBudget
    BY <1>1, <2>1
  <2>4. run' = [run EXCEPT !.step = "seek", !.left = run.left - 1, !.made = Len(shadows) + 1] /\ run.step = "post"
    BY <1>1, <1>5 DEF Accepted, Sent, RunType
  <2> QED
    BY <1>4, <2>2, <2>3, <2>4
<1>6. CASE Adopt /\ run' = [run EXCEPT !.step = "note", !.made = Len(shadows) + 1]
           /\ shadows' = Append(shadows, [key |-> Current, content |-> source[Current], listed |-> TRUE, live |-> TRUE])
           /\ Len(shadows) < MaxShadows
  <2>1. [key |-> Current, content |-> source[Current], listed |-> TRUE, live |-> TRUE] \in Shadow
    BY <1>2 DEF Shadow, MirrorTyped
  <2>2. run' = [run EXCEPT !.step = "note", !.left = run.left, !.made = Len(shadows) + 1] /\ run.left \in 0 .. WriteBudget
    BY <1>1, <1>6 DEF RunType
  <2> QED
    BY <1>4, <1>6, <2>1, <2>2
<1> QED
  BY <1>3, <1>5, <1>6 DEF Adopt

\* What happens to the shadows in any step.
LEMMA ShadowTyping ==
    ASSUME MirrorTyped, HandFits, [Next]_vars
    PROVE  shadows' \in Seq(Shadow) /\ ShadowsKeep
<1>1. ASSUME UNCHANGED shadows PROVE shadows' \in Seq(Shadow) /\ ShadowsKeep
  BY <1>1 DEF ShadowsKeep, MirrorTyped
<1>2. ASSUME NEW k \in Keys, NEW v \in Versions, Creates(k, v) PROVE shadows' \in Seq(Shadow) /\ ShadowsKeep
  BY <1>2, Creating, Appending
<1>3. run.want \in [Keys -> Versions] /\ run.made \in 0 .. Len(shadows)
  BY DEF MirrorTyped, RunType
<1>4. CASE Accepted \/ Adopt
  BY <1>4, MakingTyping
<1>5. CASE AnswerLost
  <2>1. Current \in Keys /\ run.want[Current] \in Versions
    BY <1>3, <1>5, TheWork DEF AnswerLost, HandFits, At, AtObject
  <2> QED
    BY <1>1, <1>2, <1>5, <2>1 DEF AnswerLost
<1>6. CASE Patch
  <2>1. run.made \in Made /\ Current \in Keys
    BY <1>3, <1>6, TheWork, MadeTyped DEF Patch, HandFits, At, AtObject, Made
  <2>2. run.want[Current] \in Versions /\ 0 \in Versions
    BY <1>3, <2>1, Enrollment DEF Versions
  <2>3. PICK v \in Versions : ShowsVersion(run.made, v)
    BY <1>6, <2>2 DEF Patch
  <2> QED
    BY <2>1, <2>3, Showing DEF ShadowsAge
<1>7. CASE Environment
  <2>1. CASE \E k \in Keys : Land(k)
    BY <1>1, <1>2, <2>1 DEF Land
  <2>2. CASE \E i \in Made : Appear(i)
    BY <2>2, Appearing DEF ShadowsAge
  <2>3. CASE \E i \in Made : Alter(i)
    <3>1. 0 \in Versions
      BY Enrollment DEF Versions
    <3> QED
      BY <2>3, <3>1, Showing DEF Alter, ShadowsAge
  <2>4. CASE \E i \in Made : Remove(i)
    BY <2>4, Removing DEF ShadowsAge
  <2>5. CASE UNCHANGED shadows
    BY <1>1, <2>5
  <2> QED
    BY <1>7, <2>1, <2>2, <2>3, <2>4, <2>5 DEF Environment, Apart, Occupy, Vacate, SourceWrite, LimitEnds
<1>8. CASE UNCHANGED shadows
  BY <1>1, <1>8
<1> QED
  <2>1. CASE RunStep
    BY <1>4, <1>6, <1>8, <2>1 DEF RunStep, KeepsServices, services, EnterMapping, ReadSource, Discover, Enumerate, Wait, Refresh, Intend,
       Seek, Record, Verify, Renew, Rejected, PatchFails, MappingEnds, Finish, Resolve, Settle, Bootstrap, Reowned, Note, Retire, Reown
  <2>2. CASE Failure
    BY <1>5, <1>8, <2>2 DEF Failure, Rejected, Limited, OutOfTime, TimesOut, ReadFails, Killed, JournalLost
  <2>3. CASE Request
    BY <1>8, <2>3 DEF Request, KeepsServices, services, StartApply, RequestBootstrap, RequestResolve, RequestAdopt
  <2>4. CASE SeekEnds \/ UNCHANGED vars
    BY <1>8, <2>4 DEF SeekEnds, KeepsServices, services, vars
  <2> QED
    BY <1>7, <2>1, <2>2, <2>3, <2>4 DEF Next

LEMMA RunTyping ==
    ASSUME MirrorTyped, HandFits, [Next]_vars
    PROVE  run' \in RunType' /\ HandFits'
<1>1. shadows' \in Seq(Shadow) /\ ShadowsKeep
  BY ShadowTyping
<1>2. ASSUME run' \in RunType, HandOf(run') PROVE run' \in RunType' /\ HandFits'
  BY <1>1, <1>2, HandStays
<1>3. ASSUME UNCHANGED run PROVE run' \in RunType' /\ HandFits'
  BY <1>2, <1>3 DEF MirrorTyped, HandFits, HandOf, Current
<1>4. CASE RunStep
  <2>1. CASE Accepted \/ Adopt
    BY <2>1, MakingTyping
  <2>2. CASE EnterMapping \/ ReadSource \/ Discover \/ Enumerate \/ MappingEnds \/ Finish \/ \E k \in Keys : Retire(k)
    BY <1>2, <2>2, PassTyping
  <2>3. CASE \/ Wait \/ Refresh \/ Intend \/ AnswerLost \/ Rejected \/ Limited \/ Seek \/ SeekEnds \/ Record \/ Verify
             \/ Renew \/ Patch \/ PatchFails
    BY <1>2, <2>3, ObjectTyping
  <2>4. CASE Resolve \/ Settle \/ Bootstrap \/ Reowned \/ Note \/ \E k \in Keys : Reown(k)
    BY <1>2, <2>4, AttendedTyping
  <2> QED
    BY <1>4, <2>1, <2>2, <2>3, <2>4 DEF RunStep
<1>5. CASE SeekEnds
  BY <1>2, <1>5, ObjectTyping
<1>6. CASE Failure
  BY <1>2, <1>6, ObjectTyping, FailureTyping, AttendedTyping DEF Failure
<1>7. CASE Request
  BY <1>2, <1>7, PassTyping, AttendedTyping DEF Request
<1>8. CASE Environment
  <2>1. CASE UNCHANGED run
    BY <1>3, <2>1
  <2>2. CASE \E keys \in SUBSET Keys : Touches(keys)
    BY <1>2, <2>2, TouchTyping
  <2>3. \A i \in Made : {shadows[i].key} \in SUBSET Keys /\ {shadows[j].key : j \in Deleted(i)} \in SUBSET Keys
    BY MadeTyped DEF Shadow, Deleted
  <2> QED
    BY <1>8, <2>1, <2>2, <2>3 DEF Environment, Apart
<1>9. CASE UNCHANGED vars
  BY <1>3, <1>9 DEF vars
<1> QED
  BY <1>4, <1>5, <1>6, <1>7, <1>8, <1>9 DEF Next

\* What a read leaves in the journal.
LEMMA RememberTyping ==
    ASSUME MirrorTyped, NEW m, NEW ids \in SUBSET Made
    PROVE  /\ Remembers(m, ids) = [journal EXCEPT !.owner = Remembers(m, ids).owner]
           /\ Remembers(m, ids).owner \in [Keys -> 0 .. Len(shadows)]
           /\ \A k \in Keys : Remembers(m, ids).owner[k] =
                IF k \in KeysOf(m) /\ Has(k, ids) /\ Kind[k] \in Recorded THEN OwnedBy(k, ids) ELSE journal.owner[k]
           /\ Remembers(m, ids).pending = journal.pending /\ Remembers(m, ids).ready = journal.ready
<1> DEFINE f == [k \in Keys |-> IF k \in KeysOf(m) /\ Has(k, ids) /\ Kind[k] \in Recorded THEN OwnedBy(k, ids)
                                ELSE journal.owner[k]]
<1>1. journal \in [ready : BOOLEAN, pending : SUBSET Keys, owner : [Keys -> 0 .. Len(shadows)]]
  BY DEF MirrorTyped
<1>2. Remembers(m, ids) = [journal EXCEPT !.owner = f]
  BY <1>1 DEF Remembers
<1>3. f \in [Keys -> 0 .. Len(shadows)]
  <2>1. Made \subseteq 0 .. Len(shadows)
    BY MadeTyped DEF Made
  <2>2. \A k : Has(k, ids) => OwnedBy(k, ids) \in 0 .. Len(shadows)
    BY <2>1, Finding
  <2>3. \A k \in Keys : journal.owner[k] \in 0 .. Len(shadows)
    BY <1>1
  <2> QED
    BY <2>2, <2>3
<1>4. \A k \in Keys : f[k] = IF k \in KeysOf(m) /\ Has(k, ids) /\ Kind[k] \in Recorded THEN OwnedBy(k, ids)
                             ELSE journal.owner[k]
  OBVIOUS
<1> HIDE DEF f
<1>5. Remembers(m, ids).owner = f /\ Remembers(m, ids).pending = journal.pending /\ Remembers(m, ids).ready = journal.ready
  BY <1>1, <1>2
<1> QED
  BY <1>2, <1>3, <1>4, <1>5

LEMMA FinishTyping ==
    ASSUME MirrorTyped, NEW k \in Keys, NEW id \in 0 .. Len(shadows)
    PROVE  /\ Finished(k, id) \in [ready : BOOLEAN, pending : SUBSET Keys, owner : [Keys -> 0 .. Len(shadows)]]
           /\ Finished(k, id).ready = journal.ready /\ Finished(k, id).pending = journal.pending \ {k}
           /\ \A n \in Keys \ {k} : Finished(k, id).owner[n] = journal.owner[n]
           /\ Finished(k, id).owner[k] = IF Kind[k] \in {"issue", "comment"} THEN id ELSE journal.owner[k]
<1>1. journal \in [ready : BOOLEAN, pending : SUBSET Keys, owner : [Keys -> 0 .. Len(shadows)]]
  BY DEF MirrorTyped
<1>2. PICK new \in 0 .. Len(shadows) : new = IF Kind[k] \in {"issue", "comment"} THEN id ELSE journal.owner[k]
  BY <1>1
<1>3. PICK f \in [Keys -> 0 .. Len(shadows)] : f = [journal.owner EXCEPT ![k] = new]
  BY <1>1
<1>4. Finished(k, id) = [journal EXCEPT !.pending = journal.pending \ {k}, !.owner = f]
  BY <1>1, <1>2, <1>3 DEF Finished
<1>5. f[k] = new /\ \A n \in Keys \ {k} : f[n] = journal.owner[n]
  BY <1>1, <1>3
<1> QED
  BY <1>1, <1>2, <1>4, <1>5

\* What a step may leave in the journal.
JournalType == [ready : BOOLEAN, pending : SUBSET Keys, owner : [Keys -> 0 .. Len(shadows)]]

Remembering == Discover \/ Refresh \/ Seek \/ SeekEnds \/ Renew

JournalMoves ==
    \/ UNCHANGED journal
    \/ Remembering /\ \E ids \in SUBSET Made : journal' = Remembers(run.mapping, ids)
    \/ \E k \in Keys : (Retire(k) \/ Reown(k)) /\ journal' = Finished(k, run.mine[k].id)
    \/ Record /\ journal' = Finished(Current, run.made)
    \/ Settle /\ run.mine[Current].id # 0 /\ journal' = Finished(Current, run.mine[Current].id)
    \/ Settle /\ run.mine[Current].id = 0 /\ journal' = [journal EXCEPT !.pending = @ \ {Current}]
    \/ (Rejected \/ Limited) /\ journal' = [journal EXCEPT !.pending = @ \ {Current}]
    \/ Intend /\ Current \notin journal.pending /\ journal' = [journal EXCEPT !.pending = @ \cup {Current}]
    \/ JournalLost /\ journal' = [journal EXCEPT !.ready = FALSE]
    \/ JournalLost /\ journal' = [ready |-> FALSE, pending |-> {}, owner |-> Nothing]
    \/ Bootstrap /\ journal' = [journal EXCEPT !.ready = TRUE]
    \/ Reowned \/ Note

LEMMA JournalSteps ==
    ASSUME MirrorTyped, [Next]_vars
    PROVE  JournalMoves
<1> USE DEF JournalMoves
<1>1. CASE UNCHANGED journal
  BY <1>1
<1>2. CASE Remembering
  <2>1. \A ids \in Reads(run.mapping) : ids \in SUBSET Made
    BY ReadsAreMade
  <2>2. Listing(run.mapping) \in SUBSET Made
    BY DEF Listing
  <2>3. CASE Discover
    BY <2>2, <2>3 DEF Discover, Remembering
  <2>4. CASE Refresh
    BY <2>1, <2>4 DEF Refresh, Rediscovers, RediscoveryStops, Remembering
  <2>5. CASE Seek
    BY <2>1, <2>5 DEF Seek, Rediscovers, Remembering
  <2>6. CASE SeekEnds
    BY <2>1, <2>6 DEF SeekEnds, Rediscovers, Remembering
  <2>7. CASE Renew
    BY <2>1, <2>7 DEF Renew, Rediscovers, RediscoveryStops, Remembering
  <2> QED
    BY <1>2, <2>3, <2>4, <2>5, <2>6, <2>7 DEF Remembering
<1>3. CASE \E k \in Keys : Retire(k) \/ Reown(k)
  BY <1>3 DEF Retire, Reown
<1>4. CASE Record \/ Settle \/ Rejected \/ Limited \/ Intend
  BY <1>4 DEF Record, Settle, Rejected, Limited, Intend
<1>5. CASE JournalLost \/ Bootstrap \/ Reowned \/ Note
  BY <1>5 DEF JournalLost, Bootstrap, Refused
<1> QED
  <2>1. CASE RunStep
    BY <1>1, <1>2, <1>3, <1>4, <1>5, <2>1 DEF RunStep, KeepsFiles, Remembering, EnterMapping, ReadSource, Enumerate, Wait,
       Accepted, Verify, Patch, PatchFails, MappingEnds, Finish, Resolve, Refused, Adopt
  <2>2. CASE Failure
    BY <1>1, <1>4, <1>5, <2>2 DEF Failure, KeepsFiles, AnswerLost, OutOfTime, TimesOut, ReadFails, Killed
  <2>3. CASE Request
    BY <1>1, <2>3 DEF Request, KeepsFiles, StartApply, RequestBootstrap, RequestResolve, RequestAdopt
  <2>4. CASE SeekEnds \/ UNCHANGED vars
    BY <1>1, <1>2, <2>4 DEF Remembering, vars
  <2>5. CASE Environment
    BY <1>1, <2>5 DEF Environment, Apart, KeepsFiles
  <2> QED
    BY <2>1, <2>2, <2>3, <2>4, <2>5 DEF Next

LEMMA JournalTyping ==
    ASSUME MirrorTyped, HandFits, [Next]_vars
    PROVE  journal' \in JournalType'
<1> USE DEF JournalType
<1>1. shadows' \in Seq(Shadow) /\ ShadowsKeep /\ run \in RunType /\ journal \in JournalType
  BY ShadowTyping DEF MirrorTyped
<1>2. 0 .. Len(shadows) \subseteq 0 .. Len(shadows')
  BY <1>1, RunTypeGrows
<1>3. JournalType \subseteq JournalType'
  BY <1>2
<1>4. \A k \in Keys : run.mine[k].id \in 0 .. Len(shadows)
  BY <1>1 DEF RunType
<1>5. 0 \in 0 .. Len(shadows) /\ Made \subseteq 0 .. Len(shadows) /\ run.made \in 0 .. Len(shadows)
  BY <1>1, MadeTyped DEF Made, RunType
<1>6. Record \/ Settle \/ Rejected \/ Limited \/ Intend \/ Note => Current \in Keys
  BY TheWork DEF Record, Settle, Rejected, Limited, Intend, Note, At, HandFits, AtObject
<1>7. CASE Remembering /\ \E ids \in SUBSET Made : journal' = Remembers(run.mapping, ids)
  <2>1. PICK ids \in SUBSET Made : journal' = Remembers(run.mapping, ids)
    BY <1>7
  <2>2. Remembers(run.mapping, ids) = [journal EXCEPT !.owner = Remembers(run.mapping, ids).owner]
        /\ Remembers(run.mapping, ids).owner \in [Keys -> 0 .. Len(shadows)]
    BY RememberTyping
  <2>3. PICK f \in [Keys -> 0 .. Len(shadows)] : journal' = [journal EXCEPT !.owner = f]
    BY <2>1, <2>2
  <2> QED
    BY <1>1, <1>3, <2>3
<1>8. CASE \E k \in Keys : journal' = Finished(k, run.mine[k].id) \/ (k = Current /\ journal' = Finished(k, run.made))
  BY <1>3, <1>4, <1>5, <1>8, FinishTyping
<1>9. CASE /\ Current \in Keys
           /\ \/ journal' = [journal EXCEPT !.pending = @ \ {Current}]
              \/ journal' = [journal EXCEPT !.pending = @ \cup {Current}]
  BY <1>1, <1>3, <1>9
<1>10. CASE (JournalLost \/ Bootstrap) /\ \E b \in BOOLEAN : journal' = [journal EXCEPT !.ready = b]
  BY <1>1, <1>3, <1>10
<1>11. CASE journal' = [ready |-> FALSE, pending |-> {}, owner |-> Nothing]
  <2>1. Nothing \in [Keys -> 0 .. Len(shadows)]
    BY <1>5 DEF Nothing
  <2> QED
    BY <1>3, <1>11, <2>1
<1>12. CASE Reowned
  <2>1. PICK f \in [Keys -> 0 .. Len(shadows)] : journal' = [journal EXCEPT !.owner = f]
    <3>1. [k \in Keys |-> IF run.mine[k].id # 0 /\ Kind[k] \in Recorded THEN run.mine[k].id ELSE journal.owner[k]]
             \in [Keys -> 0 .. Len(shadows)]
      BY <1>1, <1>4
    <3>2. journal' = [journal EXCEPT !.owner =
             [k \in Keys |-> IF run.mine[k].id # 0 /\ Kind[k] \in Recorded THEN run.mine[k].id ELSE journal.owner[k]]]
      BY <1>1, <1>12 DEF Reowned
    <3> QED
      BY <3>1, <3>2
  <2> QED
    BY <1>1, <1>3, <2>1
<1>13. CASE Note
  <2>1. \A k : OwnedBy(k, ListedAnywhere) \in 0 .. Len(shadows)
    <3> TAKE k
    <3>1. ListedAnywhere \in SUBSET Made
      BY DEF ListedAnywhere, Listing
    <3>2. OwnedBy(k, ListedAnywhere) = 0 \/ OwnedBy(k, ListedAnywhere) \in Made
      BY <3>1, Finding
    <3> QED
      BY <1>5, <3>2
  <2>2. PICK f \in [Keys -> 0 .. Len(shadows)] : journal' = [journal EXCEPT !.owner = f]
    <3>1. [k \in Keys |-> IF k = Current THEN run.made
                         ELSE IF ~AnyConflict /\ Kind[k] \in Recorded /\ Has(k, ListedAnywhere)
                         THEN OwnedBy(k, ListedAnywhere) ELSE journal.owner[k]] \in [Keys -> 0 .. Len(shadows)]
      BY <1>1, <1>5, <2>1
    <3>2. journal' = [journal EXCEPT !.owner =
            [k \in Keys |-> IF k = Current THEN run.made
                         ELSE IF ~AnyConflict /\ Kind[k] \in Recorded /\ Has(k, ListedAnywhere)
                         THEN OwnedBy(k, ListedAnywhere) ELSE journal.owner[k]]]
      BY <1>1, <1>13 DEF Note
    <3> QED
      BY <3>1, <3>2
  <2> QED
    BY <1>1, <1>3, <2>2
<1> QED
  BY <1>1, <1>3, <1>6, <1>7, <1>8, <1>9, <1>10, <1>11, <1>12, <1>13, JournalSteps DEF JournalMoves

\* Who touches the rest of the state.
LEMMA SourceStands ==
    ASSUME [Next]_vars
    PROVE  UNCHANGED source \/ \E k \in Keys, v \in Versions : SourceWrite(k, v)
<1>1. CASE RunStep
  BY <1>1 DEF RunStep, KeepsServices, services, EnterMapping, ReadSource, Discover, Enumerate, Wait, Refresh, Intend,
     Seek, Record, Verify, Renew, Rejected, PatchFails, MappingEnds, Finish, Resolve, Settle, Bootstrap, Reowned, Note, Retire, Reown,
     Accepted, Patch, Adopt
<1>2. CASE Failure
  BY <1>2 DEF Failure, Rejected, Limited, OutOfTime, TimesOut, ReadFails, Killed, JournalLost, AnswerLost
<1>3. CASE Request
  BY <1>3 DEF Request, KeepsServices, services, StartApply, RequestBootstrap, RequestResolve, RequestAdopt
<1>4. CASE Environment
  BY <1>4 DEF Environment, Apart, Land, Occupy, Vacate, Appear, LimitEnds, Alter, Remove
<1> QED
  BY <1>1, <1>2, <1>3, <1>4 DEF Next, SeekEnds, KeepsServices, services, vars

LEMMA StatusStands ==
    ASSUME [Next]_vars
    PROVE  UNCHANGED status \/ Finish
<1>1. CASE RunStep
  BY <1>1 DEF RunStep, KeepsFiles, EnterMapping, ReadSource, Discover, Enumerate, Wait, Refresh, Intend,
     Seek, Record, Verify, Renew, Rejected, PatchFails, MappingEnds, Resolve, Settle, Bootstrap, Reowned, Note, Retire, Reown,
     Accepted, Patch, Adopt
<1>2. CASE Failure
  BY <1>2 DEF Failure, KeepsFiles, Rejected, Limited, OutOfTime, TimesOut, ReadFails, Killed, JournalLost, AnswerLost
<1>3. CASE Request
  BY <1>3 DEF Request, KeepsFiles, StartApply, RequestBootstrap, RequestResolve, RequestAdopt
<1>4. CASE Environment
  BY <1>4 DEF Environment, Apart, KeepsFiles
<1> QED
  BY <1>1, <1>2, <1>3, <1>4 DEF Next, SeekEnds, vars

LEMMA OthersStand ==
    ASSUME [Next]_vars
    PROVE  /\ \/ inflight' \subseteq inflight
              \/ AnswerLost /\ inflight' = inflight \cup {Current} /\ UNCHANGED shadows
           /\ occupied' \subseteq occupied \/ \E k \in Labels : occupied' = occupied \cup {k}
           /\ deferred' \subseteq deferred \/ (Limited /\ deferred' = deferred \cup {run.mapping})
           /\ UNCHANGED edits \/ Edit
           /\ UNCHANGED faults \/ Fault
<1>1. CASE RunStep
  BY <1>1 DEF RunStep, KeepsServices, services, EnterMapping, ReadSource, Discover, Enumerate, Wait, Refresh, Intend,
     Seek, Record, Verify, Renew, Rejected, PatchFails, MappingEnds, Finish, Resolve, Settle, Bootstrap, Reowned, Note, Retire, Reown,
     Accepted, Patch, Adopt
<1>2. CASE Failure
  BY <1>2 DEF Failure, Rejected, Limited, OutOfTime, TimesOut, ReadFails, Killed, JournalLost, AnswerLost
<1>3. CASE Request
  BY <1>3 DEF Request, KeepsServices, services, StartApply, RequestBootstrap, RequestResolve, RequestAdopt
<1>4. CASE Environment
  BY <1>4 DEF Environment, Apart, Land, Occupy, Vacate, Appear, LimitEnds, Alter, Remove, SourceWrite
<1> QED
  BY <1>1, <1>2, <1>3, <1>4 DEF Next, SeekEnds, KeepsServices, services, vars

LEMMA MirrorTyping ==
    ASSUME MirrorTyped, HandFits, [Next]_vars
    PROVE  MirrorTyped' /\ HandFits'
<1>1. shadows' \in Seq(Shadow) /\ Len(shadows') <= MaxShadows /\ run' \in RunType' /\ HandFits'
  BY ShadowTyping, RunTyping DEF ShadowsKeep
<1>2. journal' \in [ready : BOOLEAN, pending : SUBSET Keys, owner : [Keys -> 0 .. Len(shadows')]]
  BY JournalTyping DEF JournalType
<1>3. run \in RunType /\ MaxEdits \in Nat /\ MaxFaults \in Nat /\ Labels \subseteq Keys
  BY Enrollment DEF MirrorTyped
<1>4. AnswerLost \/ Limited => Current \in Keys /\ run.mapping \in MappingIds
  BY TheWork DEF AnswerLost, Limited, At, HandFits, AtObject
<1>5. source' \in [Keys -> Versions]
  <2>1. CASE UNCHANGED source
    BY <2>1 DEF MirrorTyped
  <2>2. CASE \E k \in Keys, v \in Versions : SourceWrite(k, v)
    BY <2>2 DEF MirrorTyped, SourceWrite
  <2> QED
    BY <2>1, <2>2, SourceStands
<1>6. /\ inflight' \subseteq Keys /\ occupied' \subseteq Labels /\ deferred' \subseteq MappingIds
      /\ edits' \in 0 .. MaxEdits /\ faults' \in 0 .. MaxFaults
  BY <1>3, <1>4, OthersStand DEF MirrorTyped, Fault, Edit
<1>7. status' \in [outcome : {"none", "converged", "deferred", "attention"}, clean : SUBSET MappingIds]
  <2>1. CASE UNCHANGED status
    BY <2>1 DEF MirrorTyped
  <2>2. CASE Finish
    BY <1>3, <2>2 DEF Finish, Outcome, RunType
  <2> QED
    BY <2>1, <2>2, StatusStands
<1> QED
  BY <1>1, <1>2, <1>5, <1>6, <1>7 DEF MirrorTyped

-----------------------------------------------------------------------------
(* Claims *)

\* Steps that rest on nothing but the journal and what was read.
Plain == {"idle", "next", "source", "discover", "object", "verify", "renew", "patch", "end", "adopt"}

\* The part of the invariant that is about claims and evidence.
Evidence ==
    /\ JournalServes /\ CreatesAreClaimed /\ ShadowsAreSeen
    /\ ViewIsRecorded /\ ObjectRests /\ FoundIsAll /\ AssertionsHold

LEMMA PlainSteps ==
    ASSUME run.step \in Plain
    PROVE  ObjectRests /\ FoundIsAll /\ AssertionsHold
BY DEF Plain, ObjectRests, FoundIsAll, AssertionsHold

LEMMA AgingKeepsCopies ==
    ASSUME MirrorTyped, ShadowsAge
    PROVE  /\ Made' = Made
           /\ \A k : Copies(k)' \subseteq Copies(k)
           /\ \A i \in Made : Merged(i)' = Merged(i) /\ shadows'[i].key = shadows[i].key
           /\ \A i \in Made : shadows[i].listed => shadows'[i].listed
           /\ \A k : OutcomeKnown(k) /\ inflight' \subseteq inflight => OutcomeKnown(k)'
BY MadeTyped DEF ShadowsAge, ShadowsKeep, Made, Copies, Merged, OutcomeKnown

SameHand == UNCHANGED <<run.step, run.mapping, run.todo, run.view, run.mine, run.made>>

\* A step that sends nothing, reads nothing and records nothing.
LEMMA QuietKeeps ==
    ASSUME MirrorInv, ShadowsAge, UNCHANGED journal, inflight' \subseteq inflight,
           \/ SameHand
           \/ /\ run'.step \in Plain
              /\ run'.step \in Discovered => run.step \in Discovered /\ run'.mapping = run.mapping /\ run'.view = run.view
              /\ run'.view \in {run.view, {}} /\ (run'.step = "idle" => run'.view = {})
              /\ run'.step # "idle" => journal.ready
    PROVE  Evidence'
<1>1. /\ Made' = Made /\ \A k : Copies(k)' \subseteq Copies(k)
      /\ \A i \in Made : Merged(i)' = Merged(i) /\ shadows'[i].key = shadows[i].key
      /\ \A i \in Made : shadows[i].listed => shadows'[i].listed
      /\ \A k : OutcomeKnown(k) => OutcomeKnown(k)'
  BY AgingKeepsCopies DEF MirrorInv
<1>2. /\ run.view \in SUBSET Made /\ run.made \in 0 .. Len(shadows)
      /\ \A k \in Keys : run.mine[k].id \in 0 .. Len(shadows)
      /\ \A k : Copies(k) \subseteq Made
      /\ \A i \in 0 .. Len(shadows) : i # 0 => i \in Made
  BY MadeTyped DEF MirrorInv, MirrorTyped, RunType, Copies, Made
<1>3. JournalServes /\ CreatesAreClaimed /\ ShadowsAreSeen /\ ViewIsRecorded /\ ObjectRests /\ FoundIsAll /\ AssertionsHold
  BY DEF MirrorInv
<1>4. CreatesAreClaimed'
  <2> SUFFICES ASSUME NEW k \in Keys
               PROVE  /\ k \in inflight' => journal'.owner[k] = 0 /\ Copies(k)' = {} /\ (journal'.ready => k \in journal'.pending)
                      /\ \A i, j \in Copies(k)' : i = j
    BY DEF CreatesAreClaimed
  <2>1. Copies(k)' \subseteq Copies(k)
    BY <1>1
  <2> QED
    BY <1>3, <2>1 DEF CreatesAreClaimed
<1>5. CASE SameHand
  <2>1. JournalServes'
    BY <1>3, <1>5 DEF JournalServes, SameHand
  <2>2. ShadowsAreSeen'
    <3> SUFFICES ASSUME journal.ready, NEW k \in Keys \ journal.pending, NEW i \in Copies(k)'
                 PROVE  \/ journal.owner[k] # 0
                        \/ /\ shadows'[i].listed
                           /\ Merged(i)' /\ run'.step \in Discovered /\ k \in KeysOf(run'.mapping) => i \in run'.view
      BY DEF ShadowsAreSeen
    <3>1. i \in Copies(k) /\ i \in Made
      BY <1>1, <1>2
    <3> QED
      BY <1>1, <1>3, <1>5, <3>1 DEF ShadowsAreSeen, SameHand
  <2>3. ViewIsRecorded'
    BY <1>1, <1>2, <1>3, <1>5 DEF ViewIsRecorded, SameHand
  <2>4. ObjectRests'
    <3>1. Current' = Current
      BY <1>5 DEF SameHand, Current
    <3>2. Copies(Current)' \subseteq Copies(Current)
      BY <1>1, <3>1
    <3>3. run.step = "record" => run.made \in Made
      BY <1>2 DEF MirrorInv, HandFits
    <3> QED
      BY <1>1, <1>3, <1>5, <3>1, <3>2, <3>3 DEF ObjectRests, SameHand
  <2>5. FoundIsAll'
    <3> SUFFICES ASSUME run.step = "retire", NEW k \in journal.pending, run.mine[k].id # 0
                 PROVE  /\ k \notin inflight' /\ Copies(k)' \subseteq {run.mine[k].id}
                        /\ IF Kind[k] \in Recorded THEN journal.owner[k] # 0 ELSE shadows'[run.mine[k].id].listed
      BY <1>5 DEF FoundIsAll, SameHand
    <3>1. k \in Keys /\ run.mine[k].id \in Made
      BY <1>2 DEF MirrorInv, MirrorTyped
    <3>2. Copies(k)' \subseteq Copies(k)
      BY <1>1
    <3> QED
      BY <1>1, <1>3, <3>1, <3>2 DEF FoundIsAll
  <2>6. AssertionsHold'
    <3>1. Current' = Current
      BY <1>5 DEF SameHand, Current
    <3> QED
      BY <1>1, <1>3, <1>5, <3>1 DEF AssertionsHold, SameHand
  <2> QED
    BY <1>4, <2>1, <2>2, <2>3, <2>4, <2>5, <2>6 DEF Evidence
<1>6. CASE /\ run'.step \in Plain
           /\ run'.step \in Discovered => run.step \in Discovered /\ run'.mapping = run.mapping /\ run'.view = run.view
           /\ run'.view \in {run.view, {}} /\ (run'.step = "idle" => run'.view = {})
           /\ run'.step # "idle" => journal.ready
  <2>1. JournalServes'
    BY <1>6 DEF JournalServes
  <2>2. ShadowsAreSeen'
    <3> SUFFICES ASSUME journal.ready, NEW k \in Keys \ journal.pending, NEW i \in Copies(k)'
                 PROVE  \/ journal.owner[k] # 0
                        \/ /\ shadows'[i].listed
                           /\ Merged(i)' /\ run'.step \in Discovered /\ k \in KeysOf(run'.mapping) => i \in run'.view
      BY DEF ShadowsAreSeen
    <3>1. i \in Copies(k) /\ i \in Made
      BY <1>1, <1>2
    <3> QED
      BY <1>1, <1>3, <1>6, <3>1 DEF ShadowsAreSeen
  <2>3. ViewIsRecorded'
    BY <1>1, <1>2, <1>3, <1>6 DEF ViewIsRecorded
  <2>4. ObjectRests' /\ FoundIsAll' /\ AssertionsHold'
    BY <1>6 DEF Plain, ObjectRests, FoundIsAll, AssertionsHold
  <2> QED
    BY <1>4, <2>1, <2>2, <2>3, <2>4 DEF Evidence
<1> QED
  BY <1>5, <1>6

-----------------------------------------------------------------------------
(* Reads, answers and late creates *)

\* What a complete read of a mapping can return, and what it cannot miss.
ReadOf(m, ids) ==
    /\ m \in MappingIds /\ ids \in SUBSET Made
    /\ \A i \in ids : i \in Listing(m) \/ (Merged(i) /\ journal.owner[shadows[i].key] # 0)
    /\ \A k \in KeysOf(m) \ journal.pending : \A i \in Copies(k) : journal.owner[k] = 0 => i \in ids

LEMMA Reading ==
    ASSUME MirrorInv, journal.ready, NEW m \in MappingIds
    PROVE  /\ ReadOf(m, Listing(m))
           /\ run.step \in Discovered /\ m = run.mapping => \A ids \in Reads(m) : ReadOf(m, ids)
<1>1. \A k \in KeysOf(m) \ journal.pending : \A i \in Copies(k) : journal.owner[k] = 0 =>
         /\ i \in Listing(m)
         /\ Merged(i) /\ run.step \in Discovered /\ m = run.mapping => i \in run.view
  <2> SUFFICES ASSUME NEW k \in KeysOf(m) \ journal.pending, NEW i \in Copies(k), journal.owner[k] = 0
               PROVE  /\ i \in Listing(m)
                      /\ Merged(i) /\ run.step \in Discovered /\ m = run.mapping => i \in run.view
    OBVIOUS
  <2>1. k \in Keys \ journal.pending
    BY Enrollment
  <2>2. shadows[i].listed /\ (Merged(i) /\ run.step \in Discovered /\ k \in KeysOf(run.mapping) => i \in run.view)
    BY <2>1 DEF MirrorInv, ShadowsAreSeen
  <2> QED
    BY <2>2 DEF Listing, Copies
<1>2. Listing(m) \in SUBSET Made
  BY DEF Listing
<1>3. ASSUME run.step \in Discovered, m = run.mapping, NEW ids \in Reads(m) PROVE ReadOf(m, ids)
  <2>1. /\ ids \in SUBSET Made
        /\ \A i \in ids : (i \in run.view /\ Merged(i)) \/ i \in Listing(m)
        /\ \A i \in run.view : Merged(i) => i \in ids
        /\ \A i \in Listing(m) : ~Merged(i) => i \in ids
    BY ReadsAreMade DEF MirrorInv
  <2>2. \A i \in run.view : Merged(i) => journal.owner[shadows[i].key] # 0
    BY DEF MirrorInv, ViewIsRecorded
  <2>3. \A k \in KeysOf(m) \ journal.pending : \A i \in Copies(k) : journal.owner[k] = 0 => i \in ids
    BY <1>1, <1>3, <2>1
  <2> QED
    BY <2>1, <2>2, <2>3 DEF ReadOf
<1> QED
  BY <1>1, <1>2, <1>3 DEF ReadOf

\* What a read without conflict does not show was never made, or its create is pending.
LEMMA AbsentIsFree ==
    ASSUME MirrorInv, NEW m, NEW ids, ReadOf(m, ids), NEW k \in KeysOf(m), ~Conflicts(m, ids), ~Has(k, ids)
    PROVE  journal.owner[k] = 0 /\ (k \in journal.pending \/ Copies(k) = {})
<1>1. journal.owner[k] = 0
  <2>1. OwnedBy(k, ids) = 0
    BY DEF OwnedBy
  <2>2. ~Disowned(k, journal.owner[k], ids)
    BY DEF Conflicts
  <2> QED
    BY <2>1, <2>2 DEF Disowned
<1>2. k \notin journal.pending => Copies(k) = {}
  BY <1>1 DEF ReadOf, Has, Copies
<1> QED
  BY <1>1, <1>2

LEMMA Remembered ==
    ASSUME MirrorInv, NEW m, NEW ids, ReadOf(m, ids), journal' = Remembers(m, ids)
    PROVE  /\ journal'.ready = journal.ready /\ journal'.pending = journal.pending
           /\ \A k \in Keys :
                 /\ journal.owner[k] # 0 => journal'.owner[k] # 0
                 /\ k \in inflight => journal'.owner[k] = 0
                 /\ k \in KeysOf(m) /\ Has(k, ids) /\ Kind[k] \in Recorded => journal'.owner[k] # 0
                 /\ ~Has(k, ids) => journal'.owner[k] = journal.owner[k]
           /\ \A i \in ids : Merged(i) => journal'.owner[shadows[i].key] # 0
<1>1. MirrorTyped /\ ids \in SUBSET Made
  BY DEF MirrorInv, ReadOf
<1>2. /\ journal'.ready = journal.ready /\ journal'.pending = journal.pending
      /\ \A k \in Keys : journal'.owner[k] =
           IF k \in KeysOf(m) /\ Has(k, ids) /\ Kind[k] \in Recorded THEN OwnedBy(k, ids) ELSE journal.owner[k]
  BY <1>1, RememberTyping
<1>3. \A k : Has(k, ids) => OwnedBy(k, ids) # 0
  BY <1>1, Finding
<1>4. ASSUME NEW k \in Keys, k \in inflight PROVE journal.owner[k] = 0 /\ ~Has(k, ids)
  <2>1. journal.owner[k] = 0 /\ Copies(k) = {}
    BY <1>4 DEF MirrorInv, CreatesAreClaimed
  <2>2. ASSUME NEW i \in ids, shadows[i].key = k PROVE FALSE
    <3>1. i \in Listing(m)
      BY <2>1, <2>2 DEF ReadOf
    <3> QED
      BY <2>1, <2>2, <3>1 DEF Listing, Copies
  <2> QED
    BY <2>1, <2>2 DEF Has
<1>5. ASSUME NEW i \in ids, Merged(i) PROVE journal'.owner[shadows[i].key] # 0
  <2>1. shadows[i].key \in Keys
    BY <1>1, MadeTyped DEF Shadow
  <2>2. CASE i \in Listing(m)
    <3>1. shadows[i].key \in KeysOf(m) /\ Has(shadows[i].key, ids) /\ Kind[shadows[i].key] \in Recorded
      BY <1>5, <2>2 DEF Listing, Has, Merged, Recorded
    <3> QED
      BY <1>2, <1>3, <2>1, <3>1
  <2>3. CASE journal.owner[shadows[i].key] # 0
    BY <1>2, <1>3, <2>1, <2>3
  <2> QED
    BY <1>5, <2>2, <2>3 DEF ReadOf
<1> QED
  BY <1>2, <1>3, <1>4, <1>5

\* What a step leaves of what it had seen: a new discovery, the same one, or none.
SameSight ==
    /\ run'.step \in Discovered => run.step \in Discovered /\ run'.mapping = run.mapping /\ run'.view = run.view
    /\ run'.view \in {run.view, {}} /\ (run'.step = "idle" => run'.view = {})

LEMMA SameShadows ==
    ASSUME UNCHANGED shadows
    PROVE  /\ Made' = Made /\ \A k : Copies(k)' = Copies(k)
           /\ \A i : Merged(i)' = Merged(i)
BY DEF Made, Copies, Merged

\* A read, and what it makes of the records.
LEMMA ReadKeeps ==
    ASSUME MirrorInv, UNCHANGED <<shadows, inflight>>, NEW m, NEW ids, ReadOf(m, ids), journal' = Remembers(m, ids),
           journal.ready, run'.step # "idle", run'.view \in {ids, run.view},
           run'.step \in Discovered => run'.mapping = m /\ run'.view = ids
    PROVE  JournalServes' /\ CreatesAreClaimed' /\ ShadowsAreSeen' /\ ViewIsRecorded'
<1>1. /\ journal'.ready = journal.ready /\ journal'.pending = journal.pending
      /\ \A k \in Keys :
            /\ journal.owner[k] # 0 => journal'.owner[k] # 0
            /\ k \in inflight => journal'.owner[k] = 0
            /\ k \in KeysOf(m) /\ Has(k, ids) /\ Kind[k] \in Recorded => journal'.owner[k] # 0
      /\ \A i \in ids : Merged(i) => journal'.owner[shadows[i].key] # 0
  BY Remembered
<1>2. Made' = Made /\ (\A k : Copies(k)' = Copies(k)) /\ \A i : Merged(i)' = Merged(i)
  BY SameShadows
<1>3. JournalServes'
  BY <1>1 DEF JournalServes
<1>4. CreatesAreClaimed'
  BY <1>1, <1>2 DEF MirrorInv, CreatesAreClaimed
<1>5. ShadowsAreSeen'
  <2> SUFFICES ASSUME NEW k \in Keys \ journal.pending, NEW i \in Copies(k), journal'.owner[k] = 0
               PROVE  /\ shadows[i].listed
                      /\ Merged(i) /\ run'.step \in Discovered /\ k \in KeysOf(run'.mapping) => i \in run'.view
    BY <1>1, <1>2 DEF ShadowsAreSeen
  <2>1. journal.owner[k] = 0
    BY <1>1
  <2>2. shadows[i].listed
    BY <2>1 DEF MirrorInv, ShadowsAreSeen
  <2>3. run'.step \in Discovered /\ k \in KeysOf(run'.mapping) => i \in run'.view
    BY <2>1 DEF ReadOf
  <2> QED
    BY <2>2, <2>3
<1>6. ViewIsRecorded'
  <2>1. \A i \in run.view : Merged(i) => journal.owner[shadows[i].key] # 0 /\ shadows[i].key \in Keys
    BY MadeTyped DEF MirrorInv, MirrorTyped, ViewIsRecorded, RunType, Shadow
  <2>2. \A i \in run.view : Merged(i) => journal'.owner[shadows[i].key] # 0
    BY <1>1, <2>1
  <2> QED
    BY <1>1, <1>2, <2>2 DEF ViewIsRecorded
<1> QED
  BY <1>3, <1>4, <1>5, <1>6

\* The end of a claim: the outcome is known, and what was made of it is on record or visible.
LEMMA UnclaimKeeps ==
    ASSUME MirrorInv, UNCHANGED <<shadows, inflight>>, NEW k \in Keys, k \notin inflight, SameSight,
           journal'.ready = journal.ready, journal'.pending = journal.pending \ {k},
           \A n \in Keys \ {k} : journal'.owner[n] = journal.owner[n],
           journal.owner[k] # 0 => journal'.owner[k] # 0,
           journal'.owner[k] # 0 \/ \A i \in Copies(k) : shadows[i].listed /\ ~(Merged(i) /\ run'.step \in Discovered)
    PROVE  CreatesAreClaimed' /\ ShadowsAreSeen' /\ ViewIsRecorded'
<1>1. Made' = Made /\ (\A n : Copies(n)' = Copies(n)) /\ \A i : Merged(i)' = Merged(i)
  BY SameShadows
<1>2. CreatesAreClaimed'
  BY <1>1 DEF MirrorInv, CreatesAreClaimed
<1>3. ShadowsAreSeen'
  <2> SUFFICES ASSUME journal.ready, NEW n \in Keys \ journal'.pending, NEW i \in Copies(n), journal'.owner[n] = 0
               PROVE  /\ shadows[i].listed
                      /\ Merged(i) /\ run'.step \in Discovered /\ n \in KeysOf(run'.mapping) => i \in run'.view
    BY <1>1 DEF ShadowsAreSeen
  <2>1. CASE n = k
    BY <2>1
  <2>2. CASE n # k
    BY <2>2 DEF MirrorInv, ShadowsAreSeen, SameSight
  <2> QED
    BY <2>1, <2>2
<1>4. ViewIsRecorded'
  <2>1. \A i \in run.view : Merged(i) => journal.owner[shadows[i].key] # 0 /\ shadows[i].key \in Keys
    BY MadeTyped DEF MirrorInv, MirrorTyped, ViewIsRecorded, RunType, Shadow
  <2> QED
    BY <1>1, <2>1 DEF ViewIsRecorded, SameSight
<1> QED
  BY <1>2, <1>3, <1>4

\* A step that only adds to the records.
LEMMA RecordKeeps ==
    ASSUME MirrorInv, UNCHANGED <<shadows, inflight>>, SameSight,
           journal'.ready = journal.ready, journal'.pending = journal.pending,
           \A n \in Keys : /\ journal.owner[n] # 0 => journal'.owner[n] # 0
                           /\ n \in inflight => journal'.owner[n] = 0
    PROVE  CreatesAreClaimed' /\ ShadowsAreSeen' /\ ViewIsRecorded'
<1>1. Made' = Made /\ (\A n : Copies(n)' = Copies(n)) /\ \A i : Merged(i)' = Merged(i)
  BY SameShadows
<1>2. CreatesAreClaimed'
  BY <1>1 DEF MirrorInv, CreatesAreClaimed
<1>3. ShadowsAreSeen'
  <2> SUFFICES ASSUME journal.ready, NEW n \in Keys \ journal.pending, NEW i \in Copies(n), journal'.owner[n] = 0
               PROVE  /\ shadows[i].listed
                      /\ Merged(i) /\ run'.step \in Discovered /\ n \in KeysOf(run'.mapping) => i \in run'.view
    BY <1>1 DEF ShadowsAreSeen
  <2> QED
    BY DEF MirrorInv, ShadowsAreSeen, SameSight
<1>4. ViewIsRecorded'
  <2>1. \A i \in run.view : Merged(i) => journal.owner[shadows[i].key] # 0 /\ shadows[i].key \in Keys
    BY MadeTyped DEF MirrorInv, MirrorTyped, ViewIsRecorded, RunType, Shadow
  <2> QED
    BY <1>1, <2>1 DEF ViewIsRecorded, SameSight
<1> QED
  BY <1>2, <1>3, <1>4

\* A create that is carried out.
LEMMA AddedCopies ==
    ASSUME MirrorTyped, NEW s \in Shadow, shadows' = Append(shadows, s), Len(shadows) < MaxShadows
    PROVE  /\ Len(shadows) + 1 \notin Made /\ Made' = Made \cup {Len(shadows) + 1}
           /\ \A k : k # s.key => Copies(k)' = Copies(k)
           /\ Copies(s.key)' \subseteq Copies(s.key) \cup {Len(shadows) + 1}
           /\ shadows'[Len(shadows) + 1] = s
           /\ \A i \in Made : shadows'[i] = shadows[i] /\ Merged(i)' = Merged(i)
<1>1. /\ Len(shadows') = Len(shadows) + 1 /\ shadows'[Len(shadows) + 1] = s
      /\ \A i \in Made : shadows'[i] = shadows[i]
  BY Appending
<1>2. Len(shadows) \in Nat
  BY MadeTyped
<1>3. Len(shadows) + 1 \notin Made /\ Made' = Made \cup {Len(shadows) + 1}
  BY <1>1, <1>2 DEF Made
<1> QED
  BY <1>1, <1>3 DEF Copies, Merged

LEMMA AddKeeps ==
    ASSUME MirrorInv, NEW s \in Shadow, shadows' = Append(shadows, s), Len(shadows) < MaxShadows,
           UNCHANGED journal, SameSight, inflight' \subseteq inflight, s.key \notin inflight',
           Copies(s.key) = {},
           journal.ready => s.key \in journal.pending \/ (s.listed /\ run'.step \notin Discovered)
    PROVE  CreatesAreClaimed' /\ ShadowsAreSeen' /\ ViewIsRecorded'
<1> DEFINE new == Len(shadows) + 1
<1>1. /\ new \notin Made /\ Made' = Made \cup {new}
      /\ \A k : k # s.key => Copies(k)' = Copies(k)
      /\ Copies(s.key)' \subseteq Copies(s.key) \cup {new}
      /\ shadows'[new] = s
      /\ \A i \in Made : shadows'[i] = shadows[i] /\ Merged(i)' = Merged(i)
  BY AddedCopies DEF MirrorInv
<1> HIDE DEF new
<1>2. CreatesAreClaimed'
  BY <1>1 DEF MirrorInv, CreatesAreClaimed
<1>3. ShadowsAreSeen'
  <2> SUFFICES ASSUME journal.ready, NEW k \in Keys \ journal.pending, NEW i \in Copies(k)', journal.owner[k] = 0
               PROVE  /\ shadows'[i].listed
                      /\ Merged(i)' /\ run'.step \in Discovered /\ k \in KeysOf(run'.mapping) => i \in run'.view
    BY DEF ShadowsAreSeen
  <2>1. CASE k = s.key
    BY <1>1, <2>1
  <2>2. CASE k # s.key
    <3>1. i \in Copies(k) /\ i \in Made
      BY <1>1, <2>2 DEF Copies
    <3> QED
      BY <1>1, <3>1 DEF MirrorInv, ShadowsAreSeen, SameSight
  <2> QED
    BY <2>1, <2>2
<1>4. ViewIsRecorded'
  <2>1. run.view \subseteq Made
    BY DEF MirrorInv, MirrorTyped, RunType
  <2> QED
    BY <1>1, <2>1 DEF MirrorInv, ViewIsRecorded, SameSight
<1> QED
  BY <1>2, <1>3, <1>4

-----------------------------------------------------------------------------
(* Every step keeps the claims *)

LEMMA Stopped ==
    ASSUME MirrorInv, journal.ready, UNCHANGED <<shadows, inflight, journal>>, NEW e, Stops(e)
    PROVE  Evidence'
<1>1. run'.step = "end" /\ run'.view = run.view
  BY DEF MirrorInv, MirrorTyped, RunType, Stops, Goes
<1>2. ShadowsAge
  BY DEF MirrorInv, MirrorTyped, ShadowsAge, ShadowsKeep
<1> QED
  BY <1>1, <1>2, QuietKeeps DEF Plain, Discovered, AtObject

\* A read on which the run goes on without relying on it any further.
LEMMA ReadsOn ==
    ASSUME MirrorInv, UNCHANGED <<shadows, inflight>>, NEW m, NEW ids, ReadOf(m, ids), journal' = Remembers(m, ids),
           journal.ready, run'.step \in Plain \ {"idle"}, run'.view \in {ids, run.view},
           run'.step \in Discovered => run'.mapping = m /\ run'.view = ids
    PROVE  Evidence'
<1>1. JournalServes' /\ CreatesAreClaimed' /\ ShadowsAreSeen' /\ ViewIsRecorded'
  BY ReadKeeps
<1>2. ObjectRests' /\ FoundIsAll' /\ AssertionsHold'
  BY DEF Plain, ObjectRests, FoundIsAll, AssertionsHold
<1> QED
  BY <1>1, <1>2 DEF Evidence

LEMMA DiscoverKeeps == ASSUME MirrorInv, Discover PROVE Evidence'
<1> DEFINE m == run.mapping
           ids == Listing(m)
<1> USE DEF At, Goes, KeepsServices, services
<1>1. /\ run.step = "discover" /\ journal.ready /\ m \in MappingIds /\ run \in RunType
      /\ UNCHANGED <<shadows, inflight>>
  BY DEF Discover, MirrorInv, JournalServes, HandFits, MirrorTyped, Discovered
<1>2. ReadOf(m, ids) /\ ids \in SUBSET Made
  BY <1>1, Reading DEF Listing
<1>3. CASE UNCHANGED journal /\ (Stops("conflict") \/ Stops("collision"))
  BY <1>1, <1>3, Stopped
<1>4. CASE /\ journal' = Remembers(m, ids)
           /\ run' = [run EXCEPT !.step = "retire", !.view = ids, !.mine = Finds(m, ids)]
  <2>1. run'.step = "retire" /\ run'.view = ids /\ run'.mine = Finds(m, ids) /\ run'.mapping = m
    BY <1>1, <1>4 DEF RunType
  <2>2. JournalServes' /\ CreatesAreClaimed' /\ ShadowsAreSeen' /\ ViewIsRecorded'
    BY <1>1, <1>2, <1>4, <2>1, ReadKeeps
  <2>3. ObjectRests' /\ AssertionsHold'
    BY <2>1 DEF ObjectRests, AssertionsHold
  <2>4. FoundIsAll'
    <3> SUFFICES ASSUME NEW k \in journal'.pending, NEW i, i = Finds(m, ids)[k].id, i # 0
                 PROVE  /\ k \notin inflight' /\ Copies(k)' \subseteq {i}
                        /\ IF Kind[k] \in Recorded THEN journal'.owner[k] # 0 ELSE shadows'[i].listed
      BY <2>1 DEF FoundIsAll
    <3>1. journal'.pending = journal.pending /\ k \in Keys
      BY <1>2, <1>4, Remembered DEF MirrorInv, MirrorTyped
    <3>2. k \in KeysOf(m) /\ i \in ids /\ shadows[i].key = k
      <4>1. \A n \in Keys : Finds(m, ids)[n].id # 0 =>
               n \in KeysOf(m) /\ Finds(m, ids)[n].id \in ids /\ shadows[Finds(m, ids)[n].id].key = n
        <5> HIDE DEF ids, m
        <5> QED
          BY <1>2, FindsTyped DEF MirrorInv
      <4> QED
        BY <3>1, <4>1
    <3>3. i \in Copies(k) /\ shadows[i].listed /\ Has(k, ids)
      BY <3>2 DEF Listing, Copies, Has
    <3>4. k \notin inflight /\ Copies(k) \subseteq {i}
      BY <3>1, <3>3 DEF MirrorInv, CreatesAreClaimed
    <3>5. Kind[k] \in Recorded => journal'.owner[k] # 0
      BY <1>2, <1>4, <3>1, <3>2, <3>3, Remembered
    <3> QED
      BY <1>1, <3>3, <3>4, <3>5, SameShadows
  <2> QED
    BY <2>2, <2>3, <2>4 DEF Evidence
<1> QED
  BY <1>3, <1>4 DEF Discover

LEMMA RefreshKeeps == ASSUME MirrorInv, Refresh PROVE Evidence'
<1> DEFINE m == run.mapping
           k == Current
<1> USE DEF At, Goes, KeepsServices, services
<1>1. /\ run.step = "object" /\ journal.ready /\ run \in RunType /\ UNCHANGED <<shadows, inflight>>
      /\ MirrorTyped /\ HandFits /\ Working
  BY DEF Refresh, Needed, Working, MirrorInv, JournalServes, MirrorTyped
<1>2. m \in MappingIds /\ k \in KeysOf(m)
  BY <1>1, TheWork
<1>3. PICK ids \in Reads(m) :
           \/ RediscoveryStops(ids)
           \/ /\ Rediscovers(ids)
              /\ IF (run.mine[k].id # 0 /\ OwnedBy(k, ids) = 0) \/ Orphan(k, ids) THEN Stops("conflict")
                 ELSE IF OwnedBy(k, ids) = 0 THEN Goes([run EXCEPT !.step = "intend", !.view = ids])
                 ELSE IF shadows[OwnedBy(k, ids)].live
                      THEN Goes([run EXCEPT !.step = "verify", !.view = ids, !.made = OwnedBy(k, ids), !.content = shadows[OwnedBy(k, ids)].content])
                 ELSE Goes([run EXCEPT !.step = "object", !.view = ids, !.todo = Tail(@), !.errs = @ \cup {"other"}])
  BY DEF Refresh
<1>4. ReadOf(m, ids)
  BY <1>1, <1>2, <1>3, Reading DEF Discovered
<1>5. CASE RediscoveryStops(ids)
  BY <1>1, <1>5, Stopped DEF RediscoveryStops
<1>6. CASE Rediscovers(ids) /\ Stops("conflict")
  <2>1. run'.step = "end" /\ run'.view = run.view
    BY <1>1, <1>6 DEF RunType, Stops
  <2> QED
    BY <1>1, <1>4, <1>6, <2>1, ReadsOn DEF Rediscovers, Plain, Discovered, AtObject
<1>7. CASE Rediscovers(ids) /\ OwnedBy(k, ids) = 0 /\ run' = [run EXCEPT !.step = "intend", !.view = ids]
  <2>1. run'.step = "intend" /\ run'.view = ids /\ run'.mapping = m /\ run'.todo = run.todo
    BY <1>1, <1>7 DEF RunType
  <2>2. JournalServes' /\ CreatesAreClaimed' /\ ShadowsAreSeen' /\ ViewIsRecorded'
    BY <1>1, <1>4, <1>7, <2>1, ReadKeeps DEF Rediscovers
  <2>3. ids \in SUBSET Made /\ ~Has(k, ids)
    BY <1>4, <1>7, Finding DEF ReadOf
  <2>4. journal.owner[k] = 0 /\ (k \in journal.pending \/ Copies(k) = {})
    BY <1>2, <1>4, <1>7, <2>3, AbsentIsFree DEF Rediscovers
  <2>5. journal'.owner[k] = 0 /\ journal'.pending = journal.pending
    <3>1. journal' = Remembers(m, ids) /\ k \in Keys
      BY <1>2, <1>7, Enrollment DEF Rediscovers
    <3> QED
      BY <1>4, <2>3, <2>4, <3>1, Remembered
  <2>6. k' = k
    BY <2>1 DEF Current
  <2>7. ObjectRests' /\ FoundIsAll' /\ AssertionsHold'
    BY <1>1, <2>1, <2>4, <2>5, <2>6, SameShadows DEF ObjectRests, FoundIsAll, AssertionsHold
  <2> QED
    BY <2>2, <2>7 DEF Evidence
<1>8. CASE /\ Rediscovers(ids)
           /\ \/ run' = [run EXCEPT !.step = "verify", !.view = ids, !.made = OwnedBy(k, ids), !.content = shadows[OwnedBy(k, ids)].content]
              \/ run' = [run EXCEPT !.step = "object", !.view = ids, !.todo = Tail(@), !.errs = @ \cup {"other"}]
  <2>1. run'.step \in {"verify", "object"} /\ run'.view = ids /\ run'.mapping = m
    BY <1>1, <1>8 DEF RunType
  <2> QED
    BY <1>1, <1>4, <1>8, <2>1, ReadsOn DEF Rediscovers, Plain
<1> QED
  BY <1>3, <1>5, <1>6, <1>7, <1>8

LEMMA SeekKeeps == ASSUME MirrorInv, Seek \/ SeekEnds PROVE Evidence'
<1> DEFINE m == run.mapping
           k == Current
<1> USE DEF At, Goes, KeepsServices, services
<1>1. /\ run.step = "seek" /\ journal.ready /\ run \in RunType /\ UNCHANGED <<shadows, inflight>>
      /\ MirrorTyped /\ HandFits
  BY DEF Seek, SeekEnds, MirrorInv, JournalServes, MirrorTyped
<1>2. m \in MappingIds /\ k \in KeysOf(m) /\ k \in Keys
  BY <1>1, TheWork, Enrollment DEF AtObject
<1>3. \A ids \in Reads(m) : ReadOf(m, ids)
  BY <1>1, <1>2, Reading DEF Discovered, AtObject
<1>4. CASE UNCHANGED journal /\ Stops("conflict")
  BY <1>1, <1>4, Stopped
<1>5. ASSUME NEW ids \in Reads(m), Rediscovers(ids), Stops("conflict") PROVE Evidence'
  <2>1. run'.step = "end" /\ run'.view = run.view
    BY <1>1, <1>5 DEF RunType, Stops
  <2> QED
    BY <1>1, <1>3, <1>5, <2>1, ReadsOn DEF Rediscovers, Plain, Discovered, AtObject
<1>6. ASSUME NEW ids \in Reads(m), Rediscovers(ids), OwnedBy(k, ids) = run.made, OwnedBy(k, ids) # 0,
             run' = [run EXCEPT !.step = "record", !.view = ids, !.content = shadows[OwnedBy(k, ids)].content]
      PROVE  Evidence'
  <2>1. /\ run'.step = "record" /\ run'.view = ids /\ run'.mapping = m /\ run'.todo = run.todo /\ run'.made = run.made
    BY <1>1, <1>6 DEF RunType
  <2>2. JournalServes' /\ CreatesAreClaimed' /\ ShadowsAreSeen' /\ ViewIsRecorded'
    BY <1>1, <1>3, <1>6, <2>1, ReadKeeps DEF Rediscovers
  <2>3. ids \in SUBSET Made /\ ReadOf(m, ids)
    BY <1>3 DEF ReadOf
  <2>4. Has(k, ids) /\ run.made \in ids /\ shadows[run.made].key = k
    BY <1>6, <2>3, Finding
  <2>5. Kind[k] \notin Recorded => shadows[run.made].listed
    BY <2>3, <2>4 DEF ReadOf, Listing, Merged, Recorded
  <2>6. journal'.pending = journal.pending /\ (Kind[k] \in Recorded => journal'.owner[k] # 0)
    BY <1>2, <1>6, <2>3, <2>4, Remembered DEF Rediscovers
  <2>7. k \in journal.pending \ inflight /\ Copies(k) \subseteq {run.made}
    BY <1>1 DEF MirrorInv, ObjectRests
  <2>8. k' = k /\ Copies(k)' = Copies(k)
    BY <1>1, <2>1, SameShadows DEF Current
  <2>9. ObjectRests'
    BY <1>1, <2>1, <2>5, <2>6, <2>7, <2>8 DEF ObjectRests
  <2>10. FoundIsAll' /\ AssertionsHold'
    BY <2>1 DEF FoundIsAll, AssertionsHold
  <2> QED
    BY <2>2, <2>9, <2>10 DEF Evidence
<1>7. CASE SeekEnds
  BY <1>5, <1>7 DEF SeekEnds
<1>8. CASE Seek
  BY <1>4, <1>5, <1>6, <1>8 DEF Seek
<1> QED
  BY <1>7, <1>8

LEMMA RenewKeeps == ASSUME MirrorInv, Renew PROVE Evidence'
<1> DEFINE m == run.mapping
           k == Current
<1> USE DEF At, Goes, KeepsServices, services
<1>1. /\ run.step = "renew" /\ journal.ready /\ run \in RunType /\ UNCHANGED <<shadows, inflight>>
      /\ MirrorTyped /\ HandFits
  BY DEF Renew, MirrorInv, JournalServes, MirrorTyped
<1>2. m \in MappingIds
  BY <1>1, TheWork DEF AtObject
<1>3. \A ids \in Reads(m) : ReadOf(m, ids)
  BY <1>1, <1>2, Reading DEF Discovered, AtObject
<1>4. ASSUME NEW ids \in Reads(m), RediscoveryStops(ids) PROVE Evidence'
  BY <1>1, <1>4, Stopped DEF RediscoveryStops
<1>5. ASSUME NEW ids \in Reads(m), Rediscovers(ids), Stops("conflict") PROVE Evidence'
  <2>1. run'.step = "end" /\ run'.view = run.view
    BY <1>1, <1>5 DEF RunType, Stops
  <2> QED
    BY <1>1, <1>3, <1>5, <2>1, ReadsOn DEF Rediscovers, Plain, Discovered, AtObject
<1>6. ASSUME NEW ids \in Reads(m), Rediscovers(ids), run' = [run EXCEPT !.step = "patch", !.view = ids, !.made = OwnedBy(k, ids)]
      PROVE  Evidence'
  <2>1. run'.step = "patch" /\ run'.view = ids /\ run'.mapping = m
    BY <1>1, <1>6 DEF RunType
  <2> QED
    BY <1>1, <1>3, <1>6, <2>1, ReadsOn DEF Rediscovers, Plain
<1> QED
  BY <1>4, <1>5, <1>6 DEF Renew

LEMMA Finishing ==
    ASSUME MirrorTyped, NEW k \in Keys, NEW id \in 0 .. Len(shadows), journal' = Finished(k, id)
    PROVE  /\ journal'.ready = journal.ready /\ journal'.pending = journal.pending \ {k}
           /\ \A n \in Keys \ {k} : journal'.owner[n] = journal.owner[n]
           /\ journal'.owner[k] = IF Kind[k] \in {"issue", "comment"} THEN id ELSE journal.owner[k]
BY FinishTyping

LEMMA RetireKeeps == ASSUME MirrorInv, NEW k \in Keys, Retire(k) PROVE Evidence'
<1> DEFINE i == run.mine[k].id
<1>1. /\ run.step = "retire" /\ journal.ready /\ MirrorTyped /\ HandFits
      /\ UNCHANGED <<shadows, inflight, run>> /\ k \in journal.pending /\ i # 0 /\ journal' = Finished(k, i)
  BY DEF Retire, At, KeepsServices, services, MirrorInv, JournalServes
<1>2. i \in 0 .. Len(shadows)
  BY <1>1 DEF MirrorTyped, RunType
<1>3. /\ k \notin inflight /\ Copies(k) \subseteq {i}
      /\ IF Kind[k] \in Recorded THEN journal.owner[k] # 0 ELSE shadows[i].listed
  BY <1>1 DEF MirrorInv, FoundIsAll
<1>4. /\ journal'.ready = journal.ready /\ journal'.pending = journal.pending \ {k}
      /\ \A n \in Keys \ {k} : journal'.owner[n] = journal.owner[n]
      /\ journal'.owner[k] = IF Kind[k] \in {"issue", "comment"} THEN i ELSE journal.owner[k]
  <2> HIDE DEF i
  <2> QED
    BY <1>1, <1>2, Finishing
<1>5. SameSight
  BY <1>1 DEF SameSight, MirrorInv, ViewIsRecorded
<1>6. journal'.owner[k] # 0 \/ \A j \in Copies(k) : shadows[j].listed /\ ~(Merged(j) /\ run'.step \in Discovered)
  <2>1. Kind[k] \in Recorded => journal'.owner[k] # 0
    BY <1>1, <1>3, <1>4
  <2>2. Kind[k] \notin Recorded => \A j \in Copies(k) : shadows[j].listed /\ ~Merged(j)
    BY <1>3 DEF Merged, Recorded, Copies
  <2> QED
    BY <2>1, <2>2
<1>7. CreatesAreClaimed' /\ ShadowsAreSeen' /\ ViewIsRecorded'
  BY <1>1, <1>3, <1>4, <1>5, <1>6, UnclaimKeeps
<1>8. JournalServes' /\ ObjectRests' /\ AssertionsHold'
  BY <1>1, <1>4 DEF JournalServes, ObjectRests, AssertionsHold
<1>9. FoundIsAll'
  <2> SUFFICES ASSUME NEW n \in journal'.pending, run.mine[n].id # 0
               PROVE  /\ n \notin inflight /\ Copies(n)' \subseteq {run.mine[n].id}
                      /\ IF Kind[n] \in Recorded THEN journal'.owner[n] # 0 ELSE shadows[run.mine[n].id].listed
    BY <1>1 DEF FoundIsAll
  <2>1. n \in journal.pending /\ n # k /\ n \in Keys
    BY <1>1, <1>4 DEF MirrorTyped
  <2> QED
    BY <1>1, <1>4, <2>1, SameShadows DEF MirrorInv, FoundIsAll
<1> QED
  BY <1>7, <1>8, <1>9 DEF Evidence

LEMMA IntendKeeps == ASSUME MirrorInv, Intend PROVE Evidence'
<1> DEFINE k == Current
<1>1. /\ run.step = "intend" /\ journal.ready /\ MirrorTyped /\ HandFits /\ run \in RunType
      /\ UNCHANGED <<shadows, inflight>>
  BY DEF Intend, At, KeepsServices, services, MirrorInv, JournalServes, MirrorTyped
<1>2. k \in Keys
  BY <1>1, TheWork DEF HandFits, AtObject
<1>3. CASE Passes({"unresolved"}) /\ UNCHANGED journal
  <2>1. run'.step = "object" /\ run'.mapping = run.mapping /\ run'.view = run.view
    BY <1>1, <1>3 DEF Passes, Goes, RunType
  <2>2. ShadowsAge
    BY <1>1 DEF MirrorTyped, ShadowsAge, ShadowsKeep
  <2> QED
    BY <1>1, <1>3, <2>1, <2>2, QuietKeeps DEF Plain, Discovered, AtObject
<1>4. CASE k \notin journal.pending /\ journal' = [journal EXCEPT !.pending = @ \cup {k}] /\ Moves("post")
  <2>1. /\ run'.step = "post" /\ run'.mapping = run.mapping /\ run'.view = run.view /\ run'.todo = run.todo
    BY <1>1, <1>4 DEF Moves, Goes, RunType
  <2>2. journal'.ready = journal.ready /\ journal'.pending = journal.pending \cup {k} /\ journal'.owner = journal.owner
    BY <1>1, <1>4 DEF MirrorTyped
  <2>3. journal.owner[k] = 0 /\ Copies(k) = {} /\ k \notin inflight
    BY <1>1, <1>2, <1>4 DEF MirrorInv, ObjectRests, CreatesAreClaimed
  <2>4. Made' = Made /\ (\A n : Copies(n)' = Copies(n)) /\ \A i : Merged(i)' = Merged(i)
    BY <1>1, SameShadows
  <2>5. JournalServes' /\ CreatesAreClaimed'
    BY <1>1, <2>2, <2>4 DEF MirrorInv, CreatesAreClaimed, JournalServes
  <2>6. ShadowsAreSeen'
    BY <1>1, <2>1, <2>2, <2>4 DEF MirrorInv, ShadowsAreSeen, Discovered, AtObject
  <2>7. ViewIsRecorded'
    BY <1>1, <2>1, <2>2, <2>4 DEF MirrorInv, ViewIsRecorded
  <2>8. k' = k
    BY <2>1 DEF Current
  <2>9. ObjectRests' /\ FoundIsAll' /\ AssertionsHold'
    BY <1>1, <2>1, <2>2, <2>3, <2>4, <2>8 DEF ObjectRests, FoundIsAll, AssertionsHold
  <2> QED
    BY <2>5, <2>6, <2>7, <2>9 DEF Evidence
<1> QED
  BY <1>3, <1>4 DEF Intend

LEMMA PostHolds ==
    ASSUME MirrorInv, run.step = "post"
    PROVE  /\ journal.ready /\ MirrorTyped /\ HandFits /\ run \in RunType /\ Current \in Keys
           /\ journal.owner[Current] = 0 /\ Current \in journal.pending \ inflight /\ Copies(Current) = {}
BY TheWork DEF MirrorInv, JournalServes, MirrorTyped, HandFits, AtObject, ObjectRests

LEMMA AcceptedKeeps == ASSUME MirrorInv, Accepted PROVE Evidence'
<1> DEFINE k == Current
           new == Len(shadows) + 1
<1>1. /\ run.step = "post" /\ UNCHANGED <<inflight, journal>> /\ Creates(k, run.want[k])
      /\ run' = [Sent EXCEPT !.step = "seek", !.made = new]
  BY DEF Accepted, At, Goes, KeepsFiles
<1>2. /\ journal.ready /\ MirrorTyped /\ HandFits /\ run \in RunType /\ k \in Keys
      /\ journal.owner[k] = 0 /\ k \in journal.pending \ inflight /\ Copies(k) = {}
  BY <1>1, PostHolds
<1>3. /\ run'.step = "seek" /\ run'.mapping = run.mapping /\ run'.view = run.view /\ run'.todo = run.todo
      /\ run'.made = new
  BY <1>1, <1>2 DEF Sent, RunType
<1>4. run.want[k] \in Versions
  BY <1>2 DEF RunType
<1>5. PICK s \in Shadow : s.key = k /\ shadows' = Append(shadows, s) /\ Len(shadows) < MaxShadows
  BY <1>1, <1>2, <1>4, Creating
<1>6. SameSight
  BY <1>1, <1>3 DEF SameSight, Discovered, AtObject
<1>7. CreatesAreClaimed' /\ ShadowsAreSeen' /\ ViewIsRecorded'
  BY <1>1, <1>2, <1>5, <1>6, AddKeeps
<1>8. k' = k /\ Copies(k)' \subseteq {new}
  BY <1>2, <1>3, <1>5, AddedCopies DEF Current
<1>9. JournalServes' /\ ObjectRests' /\ FoundIsAll' /\ AssertionsHold'
  BY <1>1, <1>2, <1>3, <1>8 DEF JournalServes, ObjectRests, FoundIsAll, AssertionsHold
<1> QED
  BY <1>7, <1>9 DEF Evidence

LEMMA AnswerLostKeeps == ASSUME MirrorInv, AnswerLost PROVE Evidence'
<1> DEFINE k == Current
<1>1. /\ run.step = "post" /\ UNCHANGED journal /\ run' = SentPasses("other")
  BY DEF AnswerLost, At, Goes, KeepsFiles
<1>2. /\ journal.ready /\ MirrorTyped /\ HandFits /\ run \in RunType /\ k \in Keys
      /\ journal.owner[k] = 0 /\ k \in journal.pending \ inflight /\ Copies(k) = {}
  BY <1>1, PostHolds
<1>3. /\ run'.step = "object" /\ run'.mapping = run.mapping /\ run'.view = run.view
  BY <1>1, <1>2 DEF Sent, SentPasses, RunType
<1>4. SameSight
  BY <1>1, <1>3 DEF SameSight, Discovered, AtObject
<1>5. JournalServes' /\ ObjectRests' /\ FoundIsAll' /\ AssertionsHold'
  BY <1>1, <1>2, <1>3 DEF JournalServes, ObjectRests, FoundIsAll, AssertionsHold
<1>6. CASE Creates(k, run.want[k]) /\ UNCHANGED inflight
  <2>1. run.want[k] \in Versions
    BY <1>2 DEF RunType
  <2>2. PICK s \in Shadow : s.key = k /\ shadows' = Append(shadows, s) /\ Len(shadows) < MaxShadows
    BY <1>2, <1>6, <2>1, Creating
  <2>3. CreatesAreClaimed' /\ ShadowsAreSeen' /\ ViewIsRecorded'
    BY <1>1, <1>2, <1>4, <1>6, <2>2, AddKeeps
  <2> QED
    BY <1>5, <2>3 DEF Evidence
<1>7. CASE inflight' = inflight \cup {k} /\ UNCHANGED shadows
  <2>1. Made' = Made /\ (\A n : Copies(n)' = Copies(n)) /\ \A i : Merged(i)' = Merged(i)
    BY <1>7, SameShadows
  <2>2. CreatesAreClaimed'
    BY <1>1, <1>2, <1>7, <2>1 DEF MirrorInv, CreatesAreClaimed
  <2>3. ShadowsAreSeen'
    BY <1>1, <1>4, <1>7, <2>1 DEF MirrorInv, ShadowsAreSeen, SameSight
  <2>4. ViewIsRecorded'
    BY <1>1, <1>3, <1>7, <2>1 DEF MirrorInv, ViewIsRecorded
  <2> QED
    BY <1>5, <2>2, <2>3, <2>4 DEF Evidence
<1>8. CASE UNCHANGED <<shadows, inflight>>
  <2>1. ShadowsAge
    BY <1>2, <1>8 DEF MirrorTyped, ShadowsAge, ShadowsKeep
  <2> QED
    BY <1>1, <1>2, <1>3, <1>8, <2>1, QuietKeeps DEF Plain, Discovered, AtObject
<1> QED
  BY <1>6, <1>7, <1>8 DEF AnswerLost

\* Refused: it is over, and nothing was made of it.
LEMMA RefusalKeeps == ASSUME MirrorInv, Rejected \/ Limited PROVE Evidence'
<1> DEFINE k == Current
<1>1. /\ run.step = "post" /\ UNCHANGED <<shadows, inflight>> /\ journal' = [journal EXCEPT !.pending = @ \ {k}]
      /\ run' = SentPasses("other") \/ run' = [SentPasses("limited") EXCEPT !.step = "end"]
  BY DEF Rejected, Limited, At, Goes
<1>2. /\ journal.ready /\ MirrorTyped /\ HandFits /\ run \in RunType /\ k \in Keys
      /\ journal.owner[k] = 0 /\ k \in journal.pending \ inflight /\ Copies(k) = {}
  BY <1>1, PostHolds
<1>3. /\ run'.step \in {"object", "end"} /\ run'.mapping = run.mapping /\ run'.view = run.view
  BY <1>1, <1>2 DEF Sent, SentPasses, RunType
<1>4. journal'.ready = journal.ready /\ journal'.pending = journal.pending \ {k} /\ journal'.owner = journal.owner
  BY <1>1, <1>2 DEF MirrorTyped
<1>5. SameSight
  BY <1>1, <1>3 DEF SameSight, Discovered, AtObject
<1>6. CreatesAreClaimed' /\ ShadowsAreSeen' /\ ViewIsRecorded'
  BY <1>1, <1>2, <1>4, <1>5, UnclaimKeeps
<1>7. JournalServes' /\ ObjectRests' /\ FoundIsAll' /\ AssertionsHold'
  BY <1>2, <1>3, <1>4 DEF JournalServes, ObjectRests, FoundIsAll, AssertionsHold
<1> QED
  BY <1>6, <1>7 DEF Evidence

LEMMA RecordStepKeeps == ASSUME MirrorInv, Record PROVE Evidence'
<1> DEFINE k == Current
           i == run.made
<1>1. /\ run.step = "record" /\ journal.ready /\ MirrorTyped /\ HandFits /\ run \in RunType
      /\ UNCHANGED <<shadows, inflight>> /\ journal' = Finished(k, i) /\ Moves("verify")
  BY DEF Record, At, KeepsServices, services, MirrorInv, JournalServes, MirrorTyped
<1>2. k \in Keys /\ i \in 0 .. Len(shadows) /\ i # 0
  BY <1>1, TheWork DEF HandFits, AtObject, RunType
<1>3. /\ k \in journal.pending \ inflight /\ Copies(k) \subseteq {i}
      /\ IF Kind[k] \in Recorded THEN journal.owner[k] # 0 ELSE shadows[i].listed
  BY <1>1 DEF MirrorInv, ObjectRests
<1>4. /\ journal'.ready = journal.ready /\ journal'.pending = journal.pending \ {k}
      /\ \A n \in Keys \ {k} : journal'.owner[n] = journal.owner[n]
      /\ journal'.owner[k] = IF Kind[k] \in {"issue", "comment"} THEN i ELSE journal.owner[k]
  <2> HIDE DEF i
  <2> QED
    BY <1>1, <1>2, Finishing
<1>5. run'.step = "verify" /\ run'.mapping = run.mapping /\ run'.view = run.view
  BY <1>1 DEF Moves, Goes, RunType
<1>6. SameSight
  BY <1>1, <1>5 DEF SameSight, Discovered, AtObject
<1>7. journal'.owner[k] # 0 \/ \A j \in Copies(k) : shadows[j].listed /\ ~(Merged(j) /\ run'.step \in Discovered)
  <2>1. Kind[k] \in Recorded => journal'.owner[k] # 0
    BY <1>2, <1>3, <1>4
  <2>2. Kind[k] \notin Recorded => \A j \in Copies(k) : shadows[j].listed /\ ~Merged(j)
    BY <1>3 DEF Merged, Recorded, Copies
  <2> QED
    BY <2>1, <2>2
<1>8. CreatesAreClaimed' /\ ShadowsAreSeen' /\ ViewIsRecorded'
  BY <1>1, <1>2, <1>3, <1>4, <1>6, <1>7, UnclaimKeeps
<1>9. JournalServes' /\ ObjectRests' /\ FoundIsAll' /\ AssertionsHold'
  BY <1>1, <1>4, <1>5 DEF JournalServes, ObjectRests, FoundIsAll, AssertionsHold
<1> QED
  BY <1>8, <1>9 DEF Evidence

-----------------------------------------------------------------------------
(* The attended requests *)

LEMMA JournalLostKeeps == ASSUME MirrorInv, JournalLost PROVE Evidence'
<1>1. run.step = "idle" /\ UNCHANGED <<shadows, inflight, run>>
  BY DEF JournalLost, At
<1>2. journal' = [journal EXCEPT !.ready = FALSE] \/ journal' = [ready |-> FALSE, pending |-> {}, owner |-> Nothing]
  BY DEF JournalLost
<1>3. ~journal'.ready /\ (journal'.owner = journal.owner \/ \A k \in Keys : journal'.owner[k] = 0)
  BY <1>2 DEF MirrorInv, MirrorTyped, Nothing
<1>4. run.view = {}
  BY <1>1 DEF MirrorInv, ViewIsRecorded
<1>5. JournalServes' /\ ViewIsRecorded' /\ ObjectRests' /\ FoundIsAll' /\ AssertionsHold'
  BY <1>1, <1>4 DEF JournalServes, ViewIsRecorded, ObjectRests, FoundIsAll, AssertionsHold
<1>6. CreatesAreClaimed'
  BY <1>1, <1>3, SameShadows DEF MirrorInv, CreatesAreClaimed
<1>7. ShadowsAreSeen'
  BY <1>3 DEF ShadowsAreSeen
<1> QED
  BY <1>5, <1>6, <1>7 DEF Evidence

\* A request is taken up; what it asserts is so.
LEMMA RequestKeeps ==
    ASSUME MirrorInv, RequestBootstrap \/ \E k \in Keys : RequestResolve(k)
    PROVE  Evidence'
<1>1. run.step = "idle" /\ UNCHANGED <<shadows, inflight, journal>>
  BY DEF RequestBootstrap, RequestResolve, Attends, At, KeepsServices, services, KeepsFiles
<1>2. \A n : OutcomeKnown(n)' <=> OutcomeKnown(n)
  BY <1>1 DEF OutcomeKnown, Made
<1>3. CASE RequestBootstrap
  <2>1. run'.step = "bootstrap" /\ run'.view = {}
    BY <1>3 DEF RequestBootstrap, Attends, Goes, Idle
  <2>2. SameSight
    BY <2>1 DEF SameSight, Discovered, AtObject
  <2>3. CreatesAreClaimed' /\ ShadowsAreSeen' /\ ViewIsRecorded'
    BY <1>1, <2>2, RecordKeeps DEF MirrorInv, CreatesAreClaimed
  <2>4. \A n \in Keys : OutcomeKnown(n)
    BY <1>3 DEF RequestBootstrap
  <2>5. JournalServes' /\ ObjectRests' /\ FoundIsAll' /\ AssertionsHold'
    BY <1>2, <2>1, <2>4 DEF JournalServes, ObjectRests, FoundIsAll, AssertionsHold
  <2> QED
    BY <2>3, <2>5 DEF Evidence
<1>4. ASSUME NEW k \in Keys, RequestResolve(k) PROVE Evidence'
  <2>1. run'.step = "resolve" /\ run'.view = {} /\ run'.todo = <<k>>
    BY <1>4 DEF RequestResolve, Attends, Goes, Idle
  <2>2. SameSight
    BY <2>1 DEF SameSight, Discovered, AtObject
  <2>3. CreatesAreClaimed' /\ ShadowsAreSeen' /\ ViewIsRecorded'
    BY <1>1, <2>2, RecordKeeps DEF MirrorInv, CreatesAreClaimed
  <2>4. Current' = k /\ k \in journal.pending /\ OutcomeKnown(k) /\ journal.ready
    BY <1>4, <2>1 DEF RequestResolve, Current
  <2>5. AssertionsHold'
    BY <1>1, <1>2, <2>1, <2>4 DEF AssertionsHold
  <2>6. JournalServes' /\ ObjectRests' /\ FoundIsAll'
    BY <1>1, <2>1, <2>4 DEF JournalServes, ObjectRests, FoundIsAll
  <2> QED
    BY <2>3, <2>5, <2>6 DEF Evidence
<1> QED
  BY <1>3, <1>4

LEMMA Refusing ==
    ASSUME MirrorInv, Refused, UNCHANGED <<shadows, inflight>>
    PROVE  Evidence'
<1>1. run'.step = "idle" /\ run'.view = {} /\ UNCHANGED journal
  BY DEF Refused, Goes, Idle
<1>2. ShadowsAge
  BY DEF MirrorInv, MirrorTyped, ShadowsAge, ShadowsKeep
<1> QED
  BY <1>1, <1>2, QuietKeeps DEF Plain, Discovered, AtObject

LEMMA ResolveKeeps == ASSUME MirrorInv, Resolve PROVE Evidence'
<1>1. /\ run.step = "resolve" /\ journal.ready /\ run \in RunType /\ UNCHANGED <<shadows, inflight>>
  BY DEF Resolve, At, KeepsServices, services, MirrorInv, MirrorTyped, JournalServes
<1>2. CASE Refused
  BY <1>1, <1>2, Refusing
<1>3. CASE run' = [run EXCEPT !.step = "settle", !.mine = FindsAll] /\ UNCHANGED journal
  <2>1. run'.step = "settle" /\ run'.todo = run.todo /\ run'.view = run.view
    BY <1>1, <1>3 DEF RunType
  <2>2. SameSight
    BY <2>1 DEF SameSight, Discovered, AtObject
  <2>3. CreatesAreClaimed' /\ ShadowsAreSeen' /\ ViewIsRecorded'
    BY <1>1, <1>3, <2>2, RecordKeeps DEF MirrorInv, CreatesAreClaimed
  <2>4. Current' = Current /\ (OutcomeKnown(Current)' <=> OutcomeKnown(Current))
    BY <1>1, <2>1 DEF OutcomeKnown, Made, Current
  <2>5. AssertionsHold'
    BY <1>1, <1>3, <2>1, <2>4 DEF MirrorInv, AssertionsHold
  <2>6. JournalServes' /\ ObjectRests' /\ FoundIsAll'
    BY <1>1, <1>3, <2>1 DEF JournalServes, ObjectRests, FoundIsAll
  <2> QED
    BY <2>3, <2>5, <2>6 DEF Evidence
<1> QED
  BY <1>2, <1>3 DEF Resolve, Goes

LEMMA SettleKeeps == ASSUME MirrorInv, Settle PROVE Evidence'
<1> DEFINE k == Current
           i == run.mine[k].id
<1>1. /\ run.step = "settle" /\ MirrorTyped /\ HandFits /\ run' = Idle /\ UNCHANGED <<shadows, inflight>>
      /\ journal' = IF i # 0 THEN Finished(k, i) ELSE [journal EXCEPT !.pending = @ \ {k}]
  BY DEF Settle, At, KeepsServices, services, MirrorInv, Goes
<1>2. k \in journal.pending /\ OutcomeKnown(k) /\ k \in Keys
  BY <1>1 DEF MirrorInv, AssertionsHold, MirrorTyped
<1>3. i \in 0 .. Len(shadows)
  BY <1>1, <1>2 DEF MirrorTyped, RunType
<1>4. /\ journal'.ready = journal.ready /\ journal'.pending = journal.pending \ {k}
      /\ \A n \in Keys \ {k} : journal'.owner[n] = journal.owner[n]
      /\ journal.owner[k] # 0 => journal'.owner[k] # 0
  <2>1. CASE i # 0
    <3> HIDE DEF i, k
    <3>1. journal' = Finished(k, i)
      BY <1>1, <2>1
    <3> QED
      BY <1>1, <1>2, <1>3, <2>1, <3>1, Finishing
  <2>2. CASE i = 0
    BY <1>1, <2>2 DEF MirrorTyped
  <2> QED
    BY <2>1, <2>2
<1>5. run'.step = "idle" /\ run'.view = {}
  BY <1>1 DEF Idle
<1>6. SameSight
  BY <1>5 DEF SameSight, Discovered, AtObject
<1>7. k \notin inflight /\ \A j \in Copies(k) : shadows[j].listed
  BY <1>2 DEF OutcomeKnown, Copies
<1>8. CreatesAreClaimed' /\ ShadowsAreSeen' /\ ViewIsRecorded'
  BY <1>1, <1>2, <1>4, <1>5, <1>6, <1>7, UnclaimKeeps DEF Discovered, AtObject
<1>9. JournalServes' /\ ObjectRests' /\ FoundIsAll' /\ AssertionsHold'
  BY <1>5 DEF JournalServes, ObjectRests, FoundIsAll, AssertionsHold
<1> QED
  BY <1>8, <1>9 DEF Evidence

LEMMA BootstrapKeeps == ASSUME MirrorInv, Bootstrap PROVE Evidence'
<1>1. run.step = "bootstrap" /\ run \in RunType /\ UNCHANGED <<shadows, inflight>>
  BY DEF Bootstrap, At, KeepsServices, services, MirrorInv, MirrorTyped
<1>2. CASE Refused
  BY <1>1, <1>2, Refusing
<1>3. CASE /\ journal' = [journal EXCEPT !.ready = TRUE]
           /\ run' = [run EXCEPT !.step = "reown", !.mine = FindsAll]
  <2>1. run'.step = "reown" /\ run'.view = run.view
    BY <1>1, <1>3 DEF RunType
  <2>2. journal'.ready /\ journal'.pending = journal.pending /\ journal'.owner = journal.owner
    BY <1>3 DEF MirrorInv, MirrorTyped
  <2>3. \A n \in Keys : OutcomeKnown(n)
    BY <1>1 DEF MirrorInv, AssertionsHold
  <2>4. /\ Made' = Made /\ (\A n : Copies(n)' = Copies(n)) /\ (\A i : Merged(i)' = Merged(i))
        /\ \A n : OutcomeKnown(n)' <=> OutcomeKnown(n)
    BY <1>1, SameShadows DEF OutcomeKnown
  <2>5. CreatesAreClaimed'
    BY <1>1, <2>2, <2>3, <2>4 DEF MirrorInv, CreatesAreClaimed, OutcomeKnown
  <2>6. ShadowsAreSeen'
    BY <1>1, <2>1, <2>2, <2>3, <2>4 DEF ShadowsAreSeen, OutcomeKnown, Copies, Discovered, AtObject
  <2>7. ViewIsRecorded'
    BY <1>1, <2>1, <2>2, <2>4 DEF MirrorInv, ViewIsRecorded
  <2>8. JournalServes' /\ ObjectRests' /\ FoundIsAll' /\ AssertionsHold'
    BY <2>1, <2>2, <2>3, <2>4 DEF JournalServes, ObjectRests, FoundIsAll, AssertionsHold
  <2> QED
    BY <2>5, <2>6, <2>7, <2>8 DEF Evidence
<1> QED
  BY <1>2, <1>3 DEF Bootstrap, Goes

LEMMA ReownKeeps == ASSUME MirrorInv, NEW k \in Keys, Reown(k) PROVE Evidence'
<1> DEFINE i == run.mine[k].id
<1>1. /\ run.step = "reown" /\ journal.ready /\ MirrorTyped /\ HandFits
      /\ UNCHANGED <<shadows, inflight, run>> /\ i # 0 /\ journal' = Finished(k, i)
  BY DEF Reown, At, KeepsServices, services, MirrorInv, JournalServes
<1>2. i \in 0 .. Len(shadows)
  BY <1>1 DEF MirrorTyped, RunType
<1>3. \A n \in Keys : OutcomeKnown(n)
  BY <1>1 DEF MirrorInv, AssertionsHold
<1>4. /\ journal'.ready = journal.ready /\ journal'.pending = journal.pending \ {k}
      /\ \A n \in Keys \ {k} : journal'.owner[n] = journal.owner[n]
      /\ journal'.owner[k] = IF Kind[k] \in {"issue", "comment"} THEN i ELSE journal.owner[k]
  <2> HIDE DEF i
  <2> QED
    BY <1>1, <1>2, Finishing
<1>5. SameSight
  BY <1>1 DEF SameSight, MirrorInv, ViewIsRecorded
<1>6. k \notin inflight /\ \A j \in Copies(k) : shadows[j].listed
  BY <1>3 DEF OutcomeKnown, Copies
<1>7. run'.step \notin Discovered
  BY <1>1 DEF Discovered, AtObject
<1>8. CreatesAreClaimed' /\ ShadowsAreSeen' /\ ViewIsRecorded'
  BY <1>1, <1>4, <1>5, <1>6, <1>7, UnclaimKeeps
<1>9. \A n : OutcomeKnown(n)' <=> OutcomeKnown(n)
  BY <1>1 DEF OutcomeKnown, Made
<1>10. JournalServes' /\ ObjectRests' /\ FoundIsAll' /\ AssertionsHold'
  BY <1>1, <1>3, <1>4, <1>9 DEF JournalServes, ObjectRests, FoundIsAll, AssertionsHold
<1> QED
  BY <1>8, <1>10 DEF Evidence

\* Whatever is listed is of a create that is over.
LEMMA ListedIsOver ==
    ASSUME MirrorInv
    PROVE  /\ ListedAnywhere \in SUBSET Made
           /\ \A k : Has(k, ListedAnywhere) => k \notin inflight
<1>1. ListedAnywhere \in SUBSET Made
  BY DEF ListedAnywhere, Listing
<1>2. ASSUME NEW k, Has(k, ListedAnywhere) PROVE k \notin inflight
  <2>1. Copies(k) # {}
    BY <1>2 DEF Has, ListedAnywhere, Listing, Copies
  <2> QED
    BY <2>1 DEF MirrorInv, CreatesAreClaimed, MirrorTyped
<1> QED
  BY <1>1, <1>2

LEMMA ReownedKeeps == ASSUME MirrorInv, Reowned PROVE Evidence'
<1>1. /\ run.step = "reown" /\ MirrorTyped /\ run' = Idle /\ UNCHANGED <<shadows, inflight>>
      /\ journal' = [journal EXCEPT !.owner =
            [k \in Keys |-> IF run.mine[k].id # 0 /\ Kind[k] \in Recorded THEN run.mine[k].id ELSE @[k]]]
  BY DEF Reowned, At, KeepsServices, services, MirrorInv, Goes
<1>2. \A n \in Keys : n \notin inflight
  BY <1>1 DEF MirrorInv, AssertionsHold, OutcomeKnown
<1>3. /\ journal'.ready = journal.ready /\ journal'.pending = journal.pending
      /\ \A n \in Keys : journal.owner[n] # 0 => journal'.owner[n] # 0
  BY <1>1 DEF MirrorTyped
<1>4. run'.step = "idle" /\ run'.view = {}
  BY <1>1 DEF Idle
<1>5. SameSight
  BY <1>4 DEF SameSight, Discovered, AtObject
<1>6. CreatesAreClaimed' /\ ShadowsAreSeen' /\ ViewIsRecorded'
  BY <1>1, <1>2, <1>3, <1>5, RecordKeeps
<1>7. JournalServes' /\ ObjectRests' /\ FoundIsAll' /\ AssertionsHold'
  BY <1>4 DEF JournalServes, ObjectRests, FoundIsAll, AssertionsHold
<1> QED
  BY <1>6, <1>7 DEF Evidence

LEMMA NoteKeeps == ASSUME MirrorInv, Note PROVE Evidence'
<1>1. /\ run.step = "note" /\ MirrorTyped /\ HandFits /\ run' = Idle /\ UNCHANGED <<shadows, inflight>>
      /\ journal' = [journal EXCEPT !.owner =
            [k \in Keys |-> IF k = Current THEN run.made
                           ELSE IF ~AnyConflict /\ Kind[k] \in Recorded /\ Has(k, ListedAnywhere)
                           THEN OwnedBy(k, ListedAnywhere) ELSE @[k]]]
  BY DEF Note, At, KeepsServices, services, MirrorInv, Goes
<1>2. journal.ready /\ Current \in Keys /\ run.made # 0 /\ Current \notin journal.pending
  BY <1>1, TheWork DEF MirrorInv, JournalServes, HandFits, ObjectRests
<1>3. Current \notin inflight
  BY <1>2 DEF MirrorInv, CreatesAreClaimed
<1>4. /\ ListedAnywhere \in SUBSET Made
      /\ \A k : Has(k, ListedAnywhere) => k \notin inflight /\ OwnedBy(k, ListedAnywhere) # 0
  BY ListedIsOver, Finding
<1>5. /\ journal'.ready = journal.ready /\ journal'.pending = journal.pending
      /\ \A n \in Keys : journal'.owner[n] =
            IF n = Current THEN run.made
            ELSE IF ~AnyConflict /\ Kind[n] \in Recorded /\ Has(n, ListedAnywhere)
            THEN OwnedBy(n, ListedAnywhere) ELSE journal.owner[n]
  BY <1>1 DEF MirrorTyped
<1>6. \A n \in Keys : /\ journal.owner[n] # 0 => journal'.owner[n] # 0
                      /\ n \in inflight => journal'.owner[n] = 0
  <2>1. \A n \in Keys : n \in inflight => journal.owner[n] = 0
    BY DEF MirrorInv, CreatesAreClaimed
  <2> QED
    BY <1>2, <1>3, <1>4, <1>5, <2>1
<1>7. run'.step = "idle" /\ run'.view = {}
  BY <1>1 DEF Idle
<1>8. SameSight
  BY <1>7 DEF SameSight, Discovered, AtObject
<1>9. CreatesAreClaimed' /\ ShadowsAreSeen' /\ ViewIsRecorded'
  BY <1>1, <1>5, <1>6, <1>8, RecordKeeps
<1>10. JournalServes' /\ ObjectRests' /\ FoundIsAll' /\ AssertionsHold'
  BY <1>7 DEF JournalServes, ObjectRests, FoundIsAll, AssertionsHold
<1> QED
  BY <1>9, <1>10 DEF Evidence

\* A name is given to a label only when nothing of that label exists or is under way.
LEMMA AdoptableIsFree ==
    ASSUME MirrorInv, journal.ready, Adoptable, NEW k \in occupied, source[k] # 0
    PROVE  k \in Keys /\ k \notin journal.pending \cup inflight /\ journal.owner[k] = 0 /\ Copies(k) = {}
<1>1. k \in Keys
  BY DEF MirrorInv, MirrorTyped, Labels
<1>2. PICK m \in MappingIds : k \in KeysOf(m)
  BY <1>1 DEF Keys
<1>3. k \notin journal.pending /\ ~Has(k, ListedAnywhere) /\ ~Conflicts(m, Listing(m))
  BY DEF Adoptable, AnyConflict
<1>4. ~Has(k, Listing(m))
  BY <1>3 DEF Has, ListedAnywhere
<1>5. journal.owner[k] = 0 /\ Copies(k) = {}
  BY <1>2, <1>3, <1>4, Reading, AbsentIsFree
<1>6. k \notin inflight
  BY <1>1, <1>3 DEF MirrorInv, CreatesAreClaimed
<1> QED
  BY <1>1, <1>3, <1>5, <1>6

LEMMA AdoptKeeps == ASSUME MirrorInv, Adopt PROVE Evidence'
<1> DEFINE k == Current
           s == [key |-> k, content |-> source[k], listed |-> TRUE, live |-> TRUE]
<1>1. /\ run.step = "adopt" /\ journal.ready /\ MirrorTyped /\ HandFits /\ run \in RunType
      /\ UNCHANGED <<inflight, journal>>
  BY DEF Adopt, At, KeepsFiles, MirrorInv, JournalServes, MirrorTyped
<1>2. CASE /\ Adoptable /\ k \in occupied /\ source[k] # 0 /\ Len(shadows) < MaxShadows
           /\ shadows' = Append(shadows, s) /\ run' = [run EXCEPT !.step = "note", !.made = Len(shadows) + 1]
  <2>1. k \in Keys /\ k \notin journal.pending \cup inflight /\ journal.owner[k] = 0 /\ Copies(k) = {}
    BY <1>1, <1>2, AdoptableIsFree
  <2>2. s \in Shadow /\ s.key = k /\ s.listed
    BY <1>1, <2>1 DEF MirrorTyped, Shadow
  <2>3. run'.step = "note" /\ run'.view = run.view /\ run'.todo = run.todo
    BY <1>1, <1>2 DEF RunType
  <2>4. SameSight /\ run'.step \notin Discovered
    BY <2>3 DEF SameSight, Discovered, AtObject
  <2>5. CreatesAreClaimed' /\ ShadowsAreSeen' /\ ViewIsRecorded'
    <3> HIDE DEF s
    <3> QED
      BY <1>1, <1>2, <2>1, <2>2, <2>4, AddKeeps
  <2>6. k' = k
    BY <2>3 DEF Current
  <2>7. JournalServes' /\ ObjectRests' /\ FoundIsAll' /\ AssertionsHold'
    BY <1>1, <2>1, <2>3, <2>6 DEF JournalServes, ObjectRests, FoundIsAll, AssertionsHold
  <2> QED
    BY <2>5, <2>7 DEF Evidence
<1>3. CASE run' = Idle /\ UNCHANGED shadows
  <2>1. run'.step = "idle" /\ run'.view = {}
    BY <1>3 DEF Idle
  <2>2. ShadowsAge
    BY <1>1, <1>3 DEF MirrorTyped, ShadowsAge, ShadowsKeep
  <2> QED
    BY <1>1, <1>3, <2>1, <2>2, QuietKeeps DEF Plain, Discovered, AtObject
<1> QED
  BY <1>2, <1>3 DEF Adopt, Goes

-----------------------------------------------------------------------------
(* The services and people *)

LEMMA LandKeeps == ASSUME MirrorInv, NEW k \in Keys, Apart(Land(k)) PROVE Evidence'
<1>1. /\ k \in inflight /\ inflight' = inflight \ {k} /\ UNCHANGED <<journal, run>> /\ MirrorTyped
  BY DEF Apart, Land, MirrorInv
<1>2. journal.owner[k] = 0 /\ Copies(k) = {} /\ (journal.ready => k \in journal.pending)
  BY <1>1 DEF MirrorInv, CreatesAreClaimed
<1>3. SameSight
  BY <1>1 DEF SameSight, MirrorInv, ViewIsRecorded
<1>4. CASE UNCHANGED shadows
  <2>1. ShadowsAge
    BY <1>1, <1>4 DEF MirrorTyped, ShadowsAge, ShadowsKeep
  <2> QED
    BY <1>1, <1>4, <2>1, QuietKeeps DEF SameHand
<1>5. ASSUME NEW v \in Versions, Creates(k, v) PROVE Evidence'
  <2>1. PICK s \in Shadow : s.key = k /\ shadows' = Append(shadows, s) /\ Len(shadows) < MaxShadows
    BY <1>1, <1>5, Creating
  <2>2. CreatesAreClaimed' /\ ShadowsAreSeen' /\ ViewIsRecorded'
    BY <1>1, <1>2, <1>3, <2>1, AddKeeps
  <2>3. /\ \A n : n # k => Copies(n)' = Copies(n)
        /\ \A i \in Made : shadows'[i] = shadows[i]
        /\ Made' = Made \cup {Len(shadows) + 1} /\ shadows'[Len(shadows) + 1] = s
    BY <1>1, <2>1, AddedCopies
  <2>4. \A n : OutcomeKnown(n) => n # k /\ OutcomeKnown(n)'
    BY <1>1, <2>1, <2>3 DEF OutcomeKnown
  <2>5. JournalServes'
    BY <1>1 DEF MirrorInv, JournalServes
  <2>6. ObjectRests'
    <3>1. Current' = Current
      BY <1>1 DEF Current
    <3>2. run.step = "record" => run.made \in Made
      BY <1>1, MadeTyped DEF MirrorInv, MirrorTyped, HandFits, RunType, Made
    <3>3. run.step = "intend" => journal.ready
      BY DEF MirrorInv, JournalServes
    <3> QED
      BY <1>1, <1>2, <2>3, <3>1, <3>2, <3>3 DEF MirrorInv, ObjectRests
  <2>7. FoundIsAll'
    <3> SUFFICES ASSUME run.step = "retire", NEW n \in journal.pending, run.mine[n].id # 0
                 PROVE  /\ n \notin inflight' /\ Copies(n)' \subseteq {run.mine[n].id}
                        /\ IF Kind[n] \in Recorded THEN journal.owner[n] # 0 ELSE shadows'[run.mine[n].id].listed
      BY <1>1 DEF FoundIsAll
    <3>1. n \in Keys /\ run.mine[n].id \in Made
      BY <1>1, MadeTyped DEF MirrorTyped, RunType, Made
    <3> QED
      BY <1>1, <2>3, <3>1 DEF MirrorInv, FoundIsAll
  <2>8. AssertionsHold'
    <3>1. Current' = Current
      BY <1>1 DEF Current
    <3> QED
      BY <1>1, <2>4, <3>1 DEF MirrorInv, AssertionsHold
  <2> QED
    BY <2>2, <2>5, <2>6, <2>7, <2>8 DEF Evidence
<1> QED
  BY <1>4, <1>5 DEF Apart, Land

LEMMA QuietRunKeeps ==
    ASSUME MirrorInv,
           \/ EnterMapping \/ ReadSource \/ Enumerate \/ Wait \/ Verify \/ Patch \/ PatchFails \/ MappingEnds \/ Finish
           \/ OutOfTime \/ TimesOut \/ ReadFails \/ Killed \/ StartApply \/ \E k \in Keys : RequestAdopt(k)
    PROVE  Evidence'
<1> USE DEF At, Goes, Moves, KeepsServices, services, KeepsFiles
<1>1. /\ MirrorTyped /\ HandFits /\ run \in RunType
      /\ run.step \notin {"idle", "bootstrap"} => journal.ready
  BY DEF MirrorInv, MirrorTyped, JournalServes
<1>2. CASE ~Patch
  <2>1. UNCHANGED <<shadows, inflight, journal>>
    BY <1>2 DEF EnterMapping, ReadSource, Enumerate, Wait, Verify, PatchFails, MappingEnds, Finish, OutOfTime, TimesOut,
       ReadFails, Killed, StartApply, RequestAdopt
  <2>2. ShadowsAge
    BY <1>1, <2>1 DEF MirrorTyped, ShadowsAge, ShadowsKeep
  <2>3. CASE EnterMapping \/ ReadSource
    <3>1. run.step \in {"next", "source"} /\ run'.step \in {"source", "next", "discover"} /\ run'.view = run.view
      BY <1>1, <2>3 DEF EnterMapping, ReadSource, RunType
    <3> QED
      BY <1>1, <2>1, <2>2, <3>1, QuietKeeps DEF Plain, Discovered, AtObject
  <2>4. CASE Enumerate \/ Wait \/ Verify \/ PatchFails
    <3>1. /\ run.step \in {"retire", "object", "verify", "patch"} /\ run'.step \in {"object", "renew"}
          /\ run'.view = run.view /\ run'.mapping = run.mapping
      BY <1>1, <2>4 DEF Enumerate, Wait, Verify, PatchFails, RunType, Working, Passes, Waits, Holds, Sent, SentPasses
    <3> QED
      BY <1>1, <2>1, <2>2, <3>1, QuietKeeps DEF Plain, Discovered, AtObject
  <2>5. CASE MappingEnds \/ Finish \/ Killed \/ StartApply \/ \E k \in Keys : RequestAdopt(k)
    <3>1. run'.step \in {"next", "idle", "adopt"} /\ run'.view = {} /\ (run'.step # "idle" => journal.ready)
      <4>1. CASE MappingEnds \/ StartApply
        <5>1. journal.ready
          BY <1>1, <4>1 DEF MappingEnds, StartApply
        <5>2. run'.step = "next" /\ run'.view = {}
          BY <4>1 DEF MappingEnds, StartApply, Idle
        <5> QED
          BY <5>1, <5>2
      <4>3. CASE Finish \/ Killed
        BY <4>3 DEF Finish, Killed, Idle
      <4>2. ASSUME NEW k \in Keys, RequestAdopt(k) PROVE run'.step = "adopt" /\ run'.view = {} /\ journal.ready
        BY <4>2 DEF RequestAdopt, Attends, Idle
      <4> QED
        BY <2>5, <4>1, <4>2, <4>3
    <3> QED
      BY <1>1, <2>1, <2>2, <3>1, QuietKeeps DEF Plain, Discovered, AtObject
  <2>6. CASE OutOfTime \/ TimesOut
    <3>1. run.step \notin {"idle", "bootstrap"} /\ run'.step = "end" /\ run'.view = run.view
      BY <1>1, <2>6 DEF OutOfTime, TimesOut, Needed, Working, Stops, RunType
    <3> QED
      BY <1>1, <2>1, <2>2, <3>1, QuietKeeps DEF Plain, Discovered, AtObject
  <2>7. CASE ReadFails
    <3>1. CASE run.step \in {"source", "discover"} /\ Stops("other")
      <4>1. run'.step = "end" /\ run'.view = run.view
        BY <1>1, <3>1 DEF Stops, RunType
      <4> QED
        BY <1>1, <2>1, <2>2, <3>1, <4>1, QuietKeeps DEF Plain, Discovered, AtObject
    <3>2. CASE (Needed \/ run.step \in {"intend", "seek", "renew"}) /\ Passes({"other"})
      <4>1. /\ run.step \in {"object", "intend", "seek", "renew"} /\ run'.step = "object"
            /\ run'.view = run.view /\ run'.mapping = run.mapping
        BY <1>1, <3>2 DEF Passes, RunType, Needed, Working
      <4> QED
        BY <1>1, <2>1, <2>2, <4>1, QuietKeeps DEF Plain, Discovered, AtObject
    <3> QED
      BY <2>7, <3>1, <3>2 DEF ReadFails
  <2> QED
    BY <1>2, <2>3, <2>4, <2>5, <2>6, <2>7
<1>3. CASE Patch
  <2>1. run.step = "patch" /\ UNCHANGED <<inflight, journal>> /\ \E v : ShowsVersion(run.made, v) /\ v \in {0, run.want[Current]}
    BY <1>3 DEF Patch
  <2>2. run.made \in Made /\ Current \in Keys
    BY <1>1, <2>1, TheWork, MadeTyped DEF HandFits, RunType, Made, AtObject
  <2>3. 0 \in Versions /\ run.want[Current] \in Versions
    BY <1>1, <2>2, Enrollment DEF RunType, Versions
  <2>4. ShadowsAge
    BY <1>1, <2>1, <2>2, <2>3, Showing
  <2>5. run'.step = "object" /\ run'.view = run.view /\ run'.mapping = run.mapping
    BY <1>1, <1>3 DEF Patch, RunType, Holds, Sent, SentPasses
  <2> QED
    BY <1>1, <2>1, <2>4, <2>5, QuietKeeps DEF Plain, Discovered, AtObject
<1> QED
  BY <1>2, <1>3

LEMMA QuietWorldKeeps ==
    ASSUME MirrorInv, Environment, ~ \E k \in Keys : Apart(Land(k))
    PROVE  Evidence'
<1>1. MirrorTyped /\ run \in RunType
  BY DEF MirrorInv, MirrorTyped
<1>2. CASE UNCHANGED <<shadows, inflight, journal, run>>
  <2>1. ShadowsAge
    BY <1>1, <1>2 DEF MirrorTyped, ShadowsAge, ShadowsKeep
  <2> QED
    BY <1>2, <2>1, QuietKeeps DEF SameHand
<1>3. ASSUME NEW i \in Made, Apart(Appear(i)) PROVE Evidence'
  <2>1. ShadowsAge /\ UNCHANGED <<inflight, journal, run>>
    BY <1>1, <1>3, Appearing DEF Apart, Appear
  <2> QED
    BY <2>1, QuietKeeps DEF SameHand
<1>4. ASSUME NEW keys, Touches(keys) PROVE SameHand
  BY <1>1, <1>4 DEF Touches, SameHand, RunType
<1>5. ASSUME NEW i \in Made, Alter(i), SameHand, KeepsFiles PROVE Evidence'
  <2>1. 0 \in Versions
    BY Enrollment DEF Versions
  <2>2. ShadowsAge /\ UNCHANGED <<inflight, journal>>
    BY <1>1, <1>5, <2>1, Showing DEF Alter, KeepsFiles
  <2> QED
    BY <1>5, <2>2, QuietKeeps
<1>6. ASSUME NEW i \in Made, Remove(i), SameHand, KeepsFiles PROVE Evidence'
  <2>1. ShadowsAge /\ UNCHANGED <<inflight, journal>>
    BY <1>1, <1>6, Removing DEF Remove, KeepsFiles
  <2> QED
    BY <1>6, <2>1, QuietKeeps
<1>7. \/ UNCHANGED <<shadows, inflight, journal, run>>
      \/ \E i \in Made : Apart(Appear(i))
      \/ \E i \in Made, keys \in SUBSET Keys : Alter(i) /\ Touches(keys) /\ KeepsFiles
      \/ \E i \in Made, keys \in SUBSET Keys : Remove(i) /\ Touches(keys) /\ KeepsFiles
  <2>1. \A i \in Made : {shadows[i].key} \in SUBSET Keys /\ {shadows[j].key : j \in Deleted(i)} \in SUBSET Keys
    BY <1>1, MadeTyped DEF Shadow, Deleted
  <2>2. ASSUME NEW k \in Keys, Apart(Occupy(k)) \/ Apart(Vacate(k)) \/ \E v \in Versions : Apart(SourceWrite(k, v))
        PROVE  UNCHANGED <<shadows, inflight, journal, run>>
    BY <2>2 DEF Apart, Occupy, Vacate, SourceWrite
  <2>3. ASSUME NEW m \in MappingIds, Apart(LimitEnds(m)) PROVE UNCHANGED <<shadows, inflight, journal, run>>
    BY <2>3 DEF Apart, LimitEnds
  <2> QED
    BY <2>1, <2>2, <2>3 DEF Environment
<1> QED
  BY <1>2, <1>3, <1>4, <1>5, <1>6, <1>7

LEMMA EvidenceKept == MirrorInv /\ [Next]_vars => Evidence'
<1> SUFFICES ASSUME MirrorInv, [Next]_vars PROVE Evidence'
  OBVIOUS
<1>1. CASE UNCHANGED vars
  <2>1. UNCHANGED <<shadows, inflight, journal, run>>
    BY <1>1 DEF vars, services
  <2>2. ShadowsAge
    BY <2>1 DEF MirrorInv, MirrorTyped, ShadowsAge, ShadowsKeep
  <2> QED
    BY <2>1, <2>2, QuietKeeps DEF SameHand
<1>2. CASE RunStep
  BY <1>2, QuietRunKeeps, DiscoverKeeps, RefreshKeeps, IntendKeeps, AcceptedKeeps, SeekKeeps, RecordStepKeeps, RenewKeeps,
     RefusalKeeps, ResolveKeeps, SettleKeeps, BootstrapKeeps, ReownedKeeps, AdoptKeeps, NoteKeeps, RetireKeeps, ReownKeeps
     DEF RunStep
<1>3. CASE SeekEnds
  BY <1>3, SeekKeeps
<1>4. CASE Failure
  BY <1>4, AnswerLostKeeps, RefusalKeeps, QuietRunKeeps, JournalLostKeeps DEF Failure
<1>5. CASE Request
  BY <1>5, QuietRunKeeps, RequestKeeps DEF Request
<1>6. CASE Environment
  BY <1>6, QuietWorldKeeps, LandKeeps
<1> QED
  BY <1>1, <1>2, <1>3, <1>4, <1>5, <1>6 DEF Next

LEMMA MirrorStarts == Init => MirrorInv
<1> SUFFICES ASSUME Init PROVE MirrorInv
  OBVIOUS
<1>1. /\ shadows = << >> /\ inflight = {} /\ occupied = {} /\ deferred = {} /\ edits = 0 /\ faults = 0
      /\ run = Idle /\ journal = [ready |-> FALSE, pending |-> {}, owner |-> Nothing]
      /\ status = [outcome |-> "none", clean |-> {}]
  BY DEF Init, ServicesInit
<1>2. Len(shadows) = 0 /\ shadows \in Seq(Shadow) /\ Made = {}
  BY <1>1 DEF Made
<1>3. MirrorTyped
  <2>1. source \in [Keys -> Versions]
    <3>1. 1 \in Versions
      BY MirrorAssumption DEF Versions
    <3> QED
      BY <3>1 DEF Init, ServicesInit
  <2>2. Nothing \in [Keys -> 0 .. Len(shadows)]
    BY <1>2 DEF Nothing
  <2>3. run \in RunType
    <3>1. Len(Enrolled) \in Nat /\ WriteBudget \in Nat /\ 0 \in Versions
      BY Enrollment DEF Versions
    <3>2. Nothing \in [Keys -> Versions] /\ Unseen \in [Keys -> [id : 0 .. Len(shadows), content : Versions]]
      BY <1>2, <3>1 DEF Nothing, Unseen
    <3> QED
      BY <1>1, <1>2, <3>1, <3>2 DEF Idle, RunType, Steps
  <2> QED
    BY <1>1, <1>2, <2>1, <2>2, <2>3, Enrollment DEF MirrorTyped
<1>4. HandFits
  BY <1>1, <1>3, IdleFits DEF HandFits, HandOf, Current
<1>5. run.step = "idle" /\ run.view = {}
  BY <1>1 DEF Idle
<1>6. Copies(Current) = {} /\ \A k : Copies(k) = {}
  BY <1>2 DEF Copies
<1>7. JournalServes /\ CreatesAreClaimed /\ ShadowsAreSeen /\ ViewIsRecorded
  BY <1>1, <1>5, <1>6 DEF JournalServes, CreatesAreClaimed, ShadowsAreSeen, ViewIsRecorded
<1>8. ObjectRests /\ FoundIsAll /\ AssertionsHold
  BY <1>5 DEF ObjectRests, FoundIsAll, AssertionsHold
<1> QED
  BY <1>3, <1>4, <1>7, <1>8 DEF MirrorInv

LEMMA MirrorKept == MirrorInv /\ [Next]_vars => MirrorInv'
BY MirrorTyping, EvidenceKept DEF MirrorInv, Evidence

LEMMA MirrorHolds == Spec => []MirrorInv
BY MirrorStarts, MirrorKept, PTL DEF Spec

\* Only these steps make shadows.
LEMMA ShadowsStand ==
    ASSUME MirrorTyped, HandFits, [Next]_vars
    PROVE  \/ UNCHANGED shadows \/ ShadowsAge
           \/ Accepted \/ AnswerLost \/ Adopt \/ \E k \in Keys : Apart(Land(k))
<1>1. CASE RunStep
  <2>1. CASE Patch
    <3>1. run.want \in [Keys -> Versions] /\ run.made \in 0 .. Len(shadows)
      BY DEF MirrorTyped, RunType
    <3>2. run.made \in Made /\ Current \in Keys
      BY <2>1, <3>1, TheWork, MadeTyped DEF Patch, HandFits, At, AtObject, Made
    <3>3. run.want[Current] \in Versions /\ 0 \in Versions
      BY <3>1, <3>2, Enrollment DEF Versions
    <3>4. PICK v \in Versions : ShowsVersion(run.made, v)
      BY <2>1, <3>3 DEF Patch
    <3> QED
      BY <3>2, <3>4, Showing
  <2> QED
    BY <1>1, <2>1 DEF RunStep, KeepsServices, services, EnterMapping, ReadSource, Discover, Enumerate, Wait, Refresh, Intend,
       Seek, Record, Verify, Renew, Rejected, PatchFails, MappingEnds, Finish, Resolve, Settle, Bootstrap, Reowned, Note, Retire, Reown
<1>2. CASE Failure
  BY <1>2 DEF Failure, Rejected, Limited, OutOfTime, TimesOut, ReadFails, Killed, JournalLost
<1>3. CASE Request
  BY <1>3 DEF Request, KeepsServices, services, StartApply, RequestBootstrap, RequestResolve, RequestAdopt
<1>4. CASE SeekEnds \/ UNCHANGED vars
  BY <1>4 DEF SeekEnds, KeepsServices, services, vars
<1>5. CASE Environment
  <2>1. CASE \E i \in Made : Appear(i)
    BY <2>1, Appearing
  <2>2. CASE \E i \in Made : Alter(i)
    <3>1. 0 \in Versions
      BY Enrollment DEF Versions
    <3> QED
      BY <2>2, <3>1, Showing DEF Alter
  <2>3. CASE \E i \in Made : Remove(i)
    BY <2>3, Removing
  <2>4. CASE UNCHANGED shadows \/ \E k \in Keys : Apart(Land(k))
    BY <2>4
  <2> QED
    BY <1>5, <2>1, <2>2, <2>3, <2>4 DEF Environment, Apart, Occupy, Vacate, SourceWrite, LimitEnds
<1> QED
  BY <1>1, <1>2, <1>3, <1>4, <1>5 DEF Next

-----------------------------------------------------------------------------
(* The theorems *)

\* What the journal, the runs and the services hold is of its type: in particular a run never
\* spends more writes than its budget, and what it has in hand was made.
THEOREM TypeCorrect == Spec => []TypeOK
<1>1. MirrorInv => TypeOK
  <2> SUFFICES ASSUME MirrorInv PROVE TypeOK
    OBVIOUS
  <2>1. MirrorTyped /\ MaxShadows \in Nat
    BY Enrollment DEF MirrorInv
  <2>2. 0 .. Len(shadows) \subseteq 0 .. MaxShadows
    BY <2>1 DEF MirrorTyped
  <2>3. ServicesTypeOK
    BY <2>1, MadeTyped DEF MirrorTyped, ServicesTypeOK
  <2>4. journal \in [ready : BOOLEAN, pending : SUBSET Keys, owner : [Keys -> 0 .. MaxShadows]]
    BY <2>1, <2>2 DEF MirrorTyped
  <2> QED
    BY <2>1, <2>3, <2>4 DEF TypeOK, MirrorTyped, RunType
<1> QED
  BY <1>1, MirrorHolds, PTL

\* Never two shadows of one object, whatever answers are lost or late, wherever a run is
\* killed, and even when the journal is lost and started anew: a create is sent only
\* when no shadow exists and no other create of the object can still be carried out.
THEOREM OneCopyKept == Spec => []OneCopy
<1>1. MirrorInv => OneCopy
  <2> SUFFICES ASSUME MirrorInv, NEW k \in Keys PROVE Cardinality(Copies(k)) <= 1
    BY DEF OneCopy
  <2>1. \A i, j \in Copies(k) : i = j
    BY DEF MirrorInv, CreatesAreClaimed
  <2>2. CASE Copies(k) = {}
    BY <2>2, FS_EmptySet
  <2>3. CASE Copies(k) # {}
    <3>1. PICK i \in Copies(k) : Copies(k) = {i}
      BY <2>1, <2>3
    <3>2. Cardinality({i}) = 1
      BY FS_Singleton
    <3> QED
      BY <3>1, <3>2
  <2> QED
    BY <2>2, <2>3
<1> QED
  BY <1>1, MirrorHolds, PTL

\* A create is never sent for an object whose shadow is on record: what people removed
\* is not made again, not even by a create that arrives late.
THEOREM NothingResurrected == Spec => NoResurrection
<1>1. MirrorInv /\ [Next]_vars => \A k \in Keys : Copies(k)' \ Copies(k) # {} => (journal.ready => journal.owner[k] = 0)
  <2> SUFFICES ASSUME MirrorInv, [Next]_vars, NEW k \in Keys, Copies(k)' \ Copies(k) # {}, journal.ready
               PROVE  journal.owner[k] = 0
    OBVIOUS
  <2>1. MirrorTyped /\ HandFits
    BY DEF MirrorInv
  <2>2. ~ShadowsAge
    BY <2>1, AgingKeepsCopies
  <2>3. ASSUME NEW n \in Keys, NEW v \in Versions, Creates(n, v), journal.owner[n] = 0
        PROVE  journal.owner[k] = 0
    <3>1. PICK s \in Shadow : s.key = n /\ shadows' = Append(shadows, s) /\ Len(shadows) < MaxShadows
      BY <2>1, <2>3, Creating
    <3>2. k = n
      BY <2>1, <3>1, AddedCopies
    <3> QED
      BY <2>3, <3>2
  <2>4. ASSUME UNCHANGED shadows PROVE FALSE
    BY <2>1, <2>2, <2>4 DEF MirrorTyped, ShadowsAge, ShadowsKeep
  <2>5. CASE Accepted \/ AnswerLost
    <3>1. run.step = "post" /\ Creates(Current, run.want[Current])
      BY <2>4, <2>5 DEF Accepted, AnswerLost, At
    <3>2. Current \in Keys /\ journal.owner[Current] = 0 /\ run.want[Current] \in Versions
      BY <3>1, PostHolds DEF RunType
    <3> QED
      BY <2>3, <3>1, <3>2
  <2>6. ASSUME NEW n \in Keys, Apart(Land(n)) PROVE journal.owner[k] = 0
    <3>1. n \in inflight /\ \E v \in Versions : Creates(n, v)
      BY <2>4, <2>6 DEF Apart, Land
    <3>2. journal.owner[n] = 0
      BY <3>1 DEF MirrorInv, CreatesAreClaimed
    <3> QED
      BY <2>3, <3>1, <3>2
  <2>7. CASE Adopt
    <3> DEFINE s == [key |-> Current, content |-> source[Current], listed |-> TRUE, live |-> TRUE]
    <3>1. /\ Adoptable /\ Current \in occupied /\ source[Current] # 0 /\ Len(shadows) < MaxShadows
          /\ shadows' = Append(shadows, s)
      BY <2>4, <2>7 DEF Adopt
    <3>2. Current \in Keys /\ journal.owner[Current] = 0
      BY <3>1, AdoptableIsFree
    <3>3. s \in Shadow /\ s.key = Current
      BY <2>1, <3>2 DEF MirrorTyped, Shadow
    <3>4. k = Current
      <4> HIDE DEF s
      <4> QED
        BY <2>1, <3>1, <3>3, AddedCopies
    <3> QED
      BY <3>2, <3>4
  <2>8. Accepted \/ AnswerLost \/ (\E n \in Keys : Apart(Land(n))) \/ Adopt
    BY <2>1, <2>2, <2>4, ShadowsStand
  <2> QED
    BY <2>5, <2>6, <2>7, <2>8
<1> QED
  BY <1>1, MirrorHolds, PTL DEF Spec, NoResurrection


\* A run that is not reported as in need of attention leaves no create behind whose outcome is
\* unknown: neither one on record, nor one that GitHub may still carry out.
THEOREM UncertaintyShown == Spec => UncertaintyIsReported
<1>1. MirrorInv /\ [Next]_vars =>
        (status' # status /\ status'.outcome # "attention" => inflight = {} /\ journal.pending = {})
  <2> SUFFICES ASSUME MirrorInv, [Next]_vars, status' # status, status'.outcome # "attention"
               PROVE  inflight = {} /\ journal.pending = {}
    OBVIOUS
  <2>1. Finish
    BY StatusStands
  <2>2. run.step = "next" /\ status'.outcome = Outcome
    BY <2>1 DEF Finish, At
  <2>3. journal.pending = {}
    BY <2>2 DEF Outcome
  <2>4. journal.ready /\ inflight \subseteq Keys
    BY <2>2 DEF MirrorInv, JournalServes, MirrorTyped
  <2> QED
    BY <2>3, <2>4 DEF MirrorInv, CreatesAreClaimed
<1> QED
  BY <1>1, MirrorHolds, PTL DEF Spec, UncertaintyIsReported


-----------------------------------------------------------------------------
(* The promise of one shadow *)

\* The state of an object's shadow, once there is never more than one.
StateFor(k) ==
    IF Copies(k) # {} THEN IF journal.ready /\ journal.owner[k] # 0 THEN "lives" ELSE "made"
    ELSE IF ~journal.ready THEN "unknown"
    ELSE IF journal.owner[k] # 0 THEN "retired"
    ELSE IF k \in journal.pending THEN "claimed" ELSE "free"

StatesAre ==
    /\ shadowState \in [Keys -> Promise!States]
    /\ \A k \in Keys : shadowState[k] = StateFor(k)

LEMMA OneState == MirrorInv => StatesAre
<1> SUFFICES ASSUME MirrorInv PROVE StatesAre
  OBVIOUS
<1>1. ASSUME NEW k \in Keys
      PROVE  shadowState[k] = StateFor(k) /\ StateFor(k) \in Promise!States
  <2>1. \A i, j \in Copies(k) : i = j
    BY DEF MirrorInv, CreatesAreClaimed
  <2>2. CASE Copies(k) = {}
    <3>1. Cardinality(Copies(k)) = 0
      BY <2>2, FS_EmptySet
    <3>2. ~(Cardinality(Copies(k)) > 1) /\ Cardinality(Copies(k)) # 1
      BY <3>1
    <3> QED
      BY <2>2, <3>2 DEF shadowState, StateFor, Promise!States
  <2>3. CASE Copies(k) # {}
    <3>1. PICK i \in Copies(k) : Copies(k) = {i}
      BY <2>1, <2>3
    <3>2. Cardinality(Copies(k)) = 1
      BY <3>1, FS_Singleton
    <3>3. ~(Cardinality(Copies(k)) > 1)
      BY <3>2
    <3> QED
      BY <2>3, <3>2, <3>3 DEF shadowState, StateFor, Promise!States
  <2> QED
    BY <2>2, <2>3
<1>2. DOMAIN shadowState = Keys /\ shadowState = [k \in Keys |-> shadowState[k]]
  BY DEF shadowState
<1> QED
  BY <1>1, <1>2 DEF StatesAre

LEMMA OneChanges ==
    ASSUME StatesAre, StatesAre', NEW n \in Keys, \A k \in Keys \ {n} : StateFor(k)' = StateFor(k)
    PROVE  shadowState' = [shadowState EXCEPT ![n] = StateFor(n)'] /\ StateFor(n)' \in Promise!States
BY DEF StatesAre

LEMMA NoneChanges ==
    ASSUME StatesAre, StatesAre', \A k \in Keys : StateFor(k)' = StateFor(k)
    PROVE  UNCHANGED shadowState
BY DEF StatesAre

\* What is removed, or what changes nothing, is a removal of some shadows.
LEMMA AgingRemoves ==
    ASSUME MirrorTyped, StatesAre, StatesAre', ShadowsAge, UNCHANGED journal
    PROVE  Promise!Next
<1>1. \A k : Copies(k)' \subseteq Copies(k)
  BY AgingKeepsCopies
<1>2. ASSUME NEW k \in Keys
      PROVE  StateFor(k)' = StateFor(k) \/ Promise!Removes(StateFor(k), StateFor(k)')
  <2>1. Copies(k) = {} => Copies(k)' = {}
    BY <1>1
  <2> QED
    BY <2>1 DEF StateFor, Promise!Removes
<1>3. Promise!Some(Promise!Removes)
  BY <1>2 DEF Promise!Some, StatesAre
<1> QED
  BY <1>3 DEF Promise!Next

\* What adds to the records is a recording of some shadows.
LEMMA RecordingRecords ==
    ASSUME StatesAre, StatesAre', UNCHANGED shadows, journal'.ready = journal.ready,
           journal'.pending \subseteq journal.pending,
           \A k \in Keys : /\ journal.owner[k] # 0 => journal'.owner[k] # 0
                           /\ k \in journal.pending \ journal'.pending => journal'.owner[k] # 0
    PROVE  Promise!Next
<1>1. ASSUME NEW k \in Keys
      PROVE  StateFor(k)' = StateFor(k) \/ Promise!Records(StateFor(k), StateFor(k)')
  <2>1. Copies(k)' = Copies(k)
    BY SameShadows
  <2> QED
    BY <2>1 DEF StateFor, Promise!Records
<1>2. Promise!Some(Promise!Records)
  BY <1>1 DEF Promise!Some, StatesAre
<1> QED
  BY <1>2 DEF Promise!Next

\* The end of a claim records the shadow or abandons the claim.
LEMMA UnclaimingAbandons ==
    ASSUME StatesAre, StatesAre', UNCHANGED shadows, NEW n \in Keys, journal'.ready = journal.ready,
           journal'.pending = journal.pending \ {n},
           \A k \in Keys \ {n} : journal'.owner[k] = journal.owner[k],
           journal.owner[n] # 0 => journal'.owner[n] # 0
    PROVE  [Promise!Next]_shadowState
<1>1. CASE journal'.owner[n] # 0
  BY <1>1, RecordingRecords
<1>2. CASE journal'.owner[n] = 0
  <2>1. \A k \in Keys : Copies(k)' = Copies(k)
    BY SameShadows
  <2>2. \A k \in Keys \ {n} : StateFor(k)' = StateFor(k)
    BY <2>1 DEF StateFor
  <2>3. shadowState' = [shadowState EXCEPT ![n] = StateFor(n)'] /\ StateFor(n)' \in Promise!States
    BY <2>2, OneChanges
  <2>4. StateFor(n)' = StateFor(n) \/ Promise!Abandons(StateFor(n), StateFor(n)')
    BY <1>2, <2>1 DEF StateFor, Promise!Abandons
  <2>5. CASE StateFor(n)' = StateFor(n)
    BY <2>2, <2>5, NoneChanges
  <2>6. CASE Promise!Abandons(StateFor(n), StateFor(n)')
    <3>1. Promise!One(Promise!Abandons)
      BY <2>3, <2>6 DEF Promise!One, StatesAre
    <3> QED
      BY <3>1 DEF Promise!Next
  <2> QED
    BY <2>4, <2>5, <2>6
<1> QED
  BY <1>1, <1>2

\* A create is carried out for a claimed key, or for one whose record was lost.
LEMMA CreatingMakes ==
    ASSUME MirrorTyped, StatesAre, StatesAre', NEW s \in Shadow, shadows' = Append(shadows, s),
           Len(shadows) < MaxShadows, UNCHANGED journal, Copies(s.key) = {}, journal.owner[s.key] = 0,
           s.listed \/ ~journal.ready \/ s.key \in journal.pending
    PROVE  [Promise!Next]_shadowState
<1>1. \A k : k # s.key => Copies(k)' = Copies(k)
  BY AddedCopies
<1>2. s.key \in Keys
  BY DEF Shadow
<1>3. \A k \in Keys \ {s.key} : StateFor(k)' = StateFor(k)
  BY <1>1 DEF StateFor
<1>4. shadowState' = [shadowState EXCEPT ![s.key] = StateFor(s.key)'] /\ StateFor(s.key)' \in Promise!States
  BY <1>2, <1>3, OneChanges
<1>5. \/ StateFor(s.key)' = StateFor(s.key)
      \/ Promise!Makes(StateFor(s.key), StateFor(s.key)')
      \/ Promise!Adopts(StateFor(s.key), StateFor(s.key)')
  BY DEF StateFor, Promise!Makes, Promise!Adopts
<1>6. CASE StateFor(s.key)' = StateFor(s.key)
  BY <1>2, <1>3, <1>6, NoneChanges
<1>7. CASE Promise!Makes(StateFor(s.key), StateFor(s.key)')
  <2>1. Promise!One(Promise!Makes)
    BY <1>2, <1>4, <1>7 DEF Promise!One, StatesAre
  <2> QED
    BY <2>1 DEF Promise!Next
<1>8. CASE Promise!Adopts(StateFor(s.key), StateFor(s.key)')
  <2>1. Promise!One(Promise!Adopts)
    BY <1>2, <1>4, <1>8 DEF Promise!One, StatesAre
  <2> QED
    BY <2>1 DEF Promise!Next
<1> QED
  BY <1>5, <1>6, <1>7, <1>8

LEMMA MakingKeepsPromise ==
    ASSUME MirrorInv, StatesAre, StatesAre',
           \/ Accepted \/ AnswerLost \/ Adopt \/ \E k \in Keys : Apart(Land(k))
    PROVE  [Promise!Next]_shadowState
<1>1. MirrorTyped /\ HandFits
  BY DEF MirrorInv
<1>2. ASSUME NEW n \in Keys, NEW v \in Versions, Creates(n, v), UNCHANGED journal, Copies(n) = {}, journal.owner[n] = 0,
             journal.ready => n \in journal.pending
      PROVE  [Promise!Next]_shadowState
  <2>1. PICK s \in Shadow : s.key = n /\ shadows' = Append(shadows, s) /\ Len(shadows) < MaxShadows
    BY <1>1, <1>2, Creating
  <2> QED
    BY <1>1, <1>2, <2>1, CreatingMakes
<1>3. ASSUME UNCHANGED <<shadows, journal>> PROVE [Promise!Next]_shadowState
  <2>1. ShadowsAge
    BY <1>1, <1>3 DEF MirrorTyped, ShadowsAge, ShadowsKeep
  <2> QED
    BY <1>1, <1>3, <2>1, AgingRemoves
<1>4. CASE Accepted \/ AnswerLost
  <2>1. run.step = "post" /\ UNCHANGED journal /\ (UNCHANGED shadows \/ Creates(Current, run.want[Current]))
    BY <1>4 DEF Accepted, AnswerLost, At, KeepsFiles
  <2>2. /\ Current \in Keys /\ Copies(Current) = {} /\ journal.owner[Current] = 0 /\ Current \in journal.pending
        /\ run.want[Current] \in Versions
    BY <2>1, PostHolds DEF RunType
  <2> QED
    BY <1>2, <1>3, <2>1, <2>2
<1>5. CASE \E k \in Keys : Apart(Land(k))
  <2>1. PICK k \in Keys : Apart(Land(k))
    BY <1>5
  <2>2. /\ k \in inflight /\ UNCHANGED journal
        /\ UNCHANGED shadows \/ \E v \in Versions : Creates(k, v)
    BY <2>1 DEF Apart, Land
  <2>3. journal.owner[k] = 0 /\ Copies(k) = {} /\ (journal.ready => k \in journal.pending)
    BY <2>2 DEF MirrorInv, CreatesAreClaimed
  <2> QED
    BY <1>2, <1>3, <2>2, <2>3
<1>6. CASE Adopt
  <2> DEFINE s == [key |-> Current, content |-> source[Current], listed |-> TRUE, live |-> TRUE]
  <2>1. journal.ready /\ UNCHANGED journal
    BY <1>6 DEF Adopt, At, MirrorInv, JournalServes, KeepsFiles
  <2>2. CASE UNCHANGED shadows
    BY <1>3, <2>1, <2>2
  <2>3. CASE /\ Adoptable /\ Current \in occupied /\ source[Current] # 0 /\ Len(shadows) < MaxShadows
             /\ shadows' = Append(shadows, s)
    <3>1. Current \in Keys /\ journal.owner[Current] = 0 /\ Copies(Current) = {}
      BY <2>1, <2>3, AdoptableIsFree
    <3>2. s \in Shadow /\ s.key = Current /\ s.listed
      BY <1>1, <3>1 DEF MirrorTyped, Shadow
    <3> HIDE DEF s
    <3> QED
      BY <1>1, <2>1, <2>3, <3>1, <3>2, CreatingMakes
  <2> QED
    BY <1>6, <2>2, <2>3 DEF Adopt
<1> QED
  BY <1>4, <1>5, <1>6

\* A lost journal makes every state that is not a shadow unknown; a new one tells them again.
LEMMA LossAndRestart ==
    ASSUME StatesAre, StatesAre', UNCHANGED shadows,
           \/ journal.ready /\ ~journal'.ready
           \/ ~journal.ready /\ journal'.ready
    PROVE  Promise!Next
<1>1. \A k \in Keys : Copies(k)' = Copies(k)
  BY SameShadows
<1>2. CASE journal.ready /\ ~journal'.ready
  <2>1. \A k \in Keys : Promise!Loses(StateFor(k), StateFor(k)')
    BY <1>1, <1>2 DEF StateFor, Promise!Loses
  <2>2. Promise!All(Promise!Loses)
    BY <2>1 DEF Promise!All, StatesAre
  <2> QED
    BY <2>2 DEF Promise!Next
<1>3. CASE ~journal.ready /\ journal'.ready
  <2>1. \A k \in Keys : Promise!Restarts(StateFor(k), StateFor(k)')
    BY <1>1, <1>3 DEF StateFor, Promise!Restarts
  <2>2. Promise!All(Promise!Restarts)
    BY <2>1 DEF Promise!All, StatesAre
  <2> QED
    BY <2>2 DEF Promise!Next
<1> QED
  BY <1>2, <1>3

LEMMA JournalKeepsPromise ==
    ASSUME MirrorInv, StatesAre, StatesAre', JournalMoves, ~UNCHANGED journal
    PROVE  [Promise!Next]_shadowState
<1>1. MirrorTyped /\ HandFits
  BY DEF MirrorInv
<1>2. ASSUME NEW n \in Keys, NEW id \in 0 .. Len(shadows), id # 0, UNCHANGED shadows, journal' = Finished(n, id)
      PROVE  [Promise!Next]_shadowState
  <2>1. /\ journal'.ready = journal.ready /\ journal'.pending = journal.pending \ {n}
        /\ \A k \in Keys \ {n} : journal'.owner[k] = journal.owner[k]
        /\ journal'.owner[n] = IF Kind[n] \in {"issue", "comment"} THEN id ELSE journal.owner[n]
    BY <1>1, <1>2, Finishing
  <2>2. journal.owner[n] # 0 => journal'.owner[n] # 0
    BY <1>2, <2>1
  <2> QED
    BY <1>2, <2>1, <2>2, UnclaimingAbandons
<1>3. ASSUME NEW n \in Keys, UNCHANGED shadows, journal' = [journal EXCEPT !.pending = @ \ {n}]
      PROVE  [Promise!Next]_shadowState
  <2>1. journal'.ready = journal.ready /\ journal'.pending = journal.pending \ {n} /\ journal'.owner = journal.owner
    BY <1>1, <1>3 DEF MirrorTyped
  <2> QED
    BY <1>3, <2>1, UnclaimingAbandons
<1>4. ASSUME Remembering, NEW ids \in SUBSET Made, journal' = Remembers(run.mapping, ids)
      PROVE  [Promise!Next]_shadowState
  <2>1. UNCHANGED shadows
    BY <1>4 DEF Remembering, Discover, Refresh, Seek, SeekEnds, Renew, KeepsServices, services
  <2>2. /\ journal'.ready = journal.ready /\ journal'.pending = journal.pending
        /\ \A k \in Keys : journal'.owner[k] =
             IF k \in KeysOf(run.mapping) /\ Has(k, ids) /\ Kind[k] \in Recorded THEN OwnedBy(k, ids) ELSE journal.owner[k]
    BY <1>1, <1>4, RememberTyping
  <2>3. \A k : Has(k, ids) => OwnedBy(k, ids) # 0
    BY Finding
  <2> QED
    BY <2>1, <2>2, <2>3, RecordingRecords
<1>5. ASSUME NEW k \in Keys, Retire(k) \/ Reown(k), journal' = Finished(k, run.mine[k].id)
      PROVE  [Promise!Next]_shadowState
  <2>1. UNCHANGED shadows /\ run.mine[k].id # 0 /\ run.mine[k].id \in 0 .. Len(shadows)
    BY <1>1, <1>5 DEF Retire, Reown, KeepsServices, services, MirrorTyped, RunType
  <2> QED
    BY <1>2, <1>5, <2>1
<1>6. CASE Record /\ journal' = Finished(Current, run.made)
  <2>1. UNCHANGED shadows /\ Current \in Keys /\ run.made # 0 /\ run.made \in 0 .. Len(shadows)
    BY <1>1, <1>6, TheWork DEF Record, At, KeepsServices, services, MirrorTyped, RunType, HandFits, AtObject
  <2> QED
    BY <1>2, <1>6, <2>1
<1>7. CASE Settle
  <2>1. /\ UNCHANGED shadows /\ Current \in Keys
        /\ run.mine[Current].id \in 0 .. Len(shadows)
    BY <1>1, <1>7, TheWork DEF Settle, At, KeepsServices, services, MirrorTyped, RunType, HandFits
  <2>2. journal' = IF run.mine[Current].id # 0 THEN Finished(Current, run.mine[Current].id)
                   ELSE [journal EXCEPT !.pending = @ \ {Current}]
    BY <1>7 DEF Settle
  <2> QED
    BY <1>2, <1>3, <2>1, <2>2
<1>8. CASE (Rejected \/ Limited) /\ journal' = [journal EXCEPT !.pending = @ \ {Current}]
  <2>1. UNCHANGED shadows /\ Current \in Keys
    BY <1>1, <1>8, TheWork DEF Rejected, Limited, At, HandFits, AtObject
  <2> QED
    BY <1>3, <1>8, <2>1
<1>9. CASE Intend /\ Current \notin journal.pending /\ journal' = [journal EXCEPT !.pending = @ \cup {Current}]
  <2>1. /\ UNCHANGED shadows /\ run.step = "intend" /\ journal.ready /\ Current \in Keys
    BY <1>1, <1>9, TheWork DEF Intend, At, KeepsServices, services, MirrorInv, JournalServes, HandFits, AtObject
  <2>2. journal.owner[Current] = 0 /\ Copies(Current) = {}
    BY <1>9, <2>1 DEF MirrorInv, ObjectRests
  <2>3. journal'.ready = journal.ready /\ journal'.pending = journal.pending \cup {Current} /\ journal'.owner = journal.owner
    BY <1>1, <1>9 DEF MirrorTyped
  <2>4. \A k \in Keys : Copies(k)' = Copies(k)
    BY <2>1, SameShadows
  <2>5. StateFor(Current) = "free"
    BY <1>9, <2>1, <2>2 DEF StateFor
  <2> DEFINE n == Current
  <2>6. PICK k \in Keys : k = n
    BY <2>1
  <2>7. StateFor(k)' = "claimed" /\ \A m \in Keys \ {k} : StateFor(m)' = StateFor(m)
    <3>1. /\ Copies(k) = {} /\ journal.owner[k] = 0 /\ journal.ready
          /\ journal'.pending = journal.pending \cup {k} /\ journal'.owner = journal.owner /\ journal'.ready = journal.ready
      BY <2>1, <2>2, <2>3, <2>6
    <3> QED
      BY <2>4, <3>1 DEF StateFor
  <2>8. shadowState' = [shadowState EXCEPT ![k] = StateFor(k)'] /\ StateFor(k)' \in Promise!States
    BY <2>7, OneChanges
  <2>9. Promise!One(Promise!Claims)
    BY <2>5, <2>6, <2>7, <2>8 DEF Promise!One, Promise!Claims, StatesAre
  <2> QED
    BY <2>9 DEF Promise!Next
<1>10. CASE JournalLost
  <2>1. UNCHANGED shadows /\ journal.ready /\ ~journal'.ready
    BY <1>1, <1>10 DEF JournalLost, MirrorTyped
  <2> QED
    BY <2>1, LossAndRestart
<1>11. CASE Bootstrap /\ journal' = [journal EXCEPT !.ready = TRUE]
  <2>1. UNCHANGED shadows /\ journal'.ready /\ ~journal.ready
    <3>1. journal = [ready |-> journal.ready, pending |-> journal.pending, owner |-> journal.owner]
      BY <1>1 DEF MirrorTyped
    <3> QED
      BY <1>1, <1>11, <3>1 DEF Bootstrap, KeepsServices, services, MirrorTyped
  <2> QED
    BY <2>1, LossAndRestart
<1>12. CASE Reowned
  <2>1. UNCHANGED shadows
    BY <1>12 DEF Reowned, KeepsServices, services
  <2>2. /\ journal'.ready = journal.ready /\ journal'.pending = journal.pending
        /\ \A n \in Keys : journal.owner[n] # 0 => journal'.owner[n] # 0
    BY <1>1, <1>12 DEF Reowned, MirrorTyped
  <2> QED
    BY <2>1, <2>2, RecordingRecords
<1>13. CASE Note
  <2>1. UNCHANGED shadows /\ run.made # 0
    BY <1>1, <1>13 DEF Note, At, KeepsServices, services, HandFits
  <2>2. /\ journal'.ready = journal.ready /\ journal'.pending = journal.pending
        /\ \A n \in Keys : journal'.owner[n] =
              IF n = Current THEN run.made
              ELSE IF ~AnyConflict /\ Kind[n] \in Recorded /\ Has(n, ListedAnywhere)
              THEN OwnedBy(n, ListedAnywhere) ELSE journal.owner[n]
    BY <1>1, <1>13 DEF Note, MirrorTyped
  <2>3. \A n : Has(n, ListedAnywhere) => OwnedBy(n, ListedAnywhere) # 0
    BY ListedIsOver, Finding
  <2> QED
    BY <2>1, <2>2, <2>3, RecordingRecords
<1> QED
  BY <1>4, <1>5, <1>6, <1>7, <1>8, <1>9, <1>10, <1>11, <1>12, <1>13 DEF JournalMoves

\* Seen as a whole, the mirror does for every object what OneShadow allows: a shadow is made
\* only for a claimed key, only a free key is claimed, and a key whose shadow is on record
\* is never free again; what the loss of the journal unlearns, discovery relearns.
THEOREM PromiseKept == Spec => KeepsPromise
<1>1. Init => Promise!Init
  <2> SUFFICES ASSUME Init PROVE Promise!Init
    OBVIOUS
  <2>1. StatesAre
    BY MirrorStarts, OneState
  <2>2. ~journal.ready /\ \A k : Copies(k) = {}
    BY DEF Init, ServicesInit, Copies, Made
  <2>3. \A k \in Keys : shadowState[k] = "unknown"
    BY <2>1, <2>2 DEF StatesAre, StateFor
  <2> QED
    BY <2>1, <2>3 DEF StatesAre, Promise!Init
<1>2. MirrorInv /\ StatesAre /\ StatesAre' /\ [Next]_vars => [Promise!Next]_shadowState
  <2> SUFFICES ASSUME MirrorInv, StatesAre, StatesAre', [Next]_vars PROVE [Promise!Next]_shadowState
    OBVIOUS
  <2>1. MirrorTyped /\ HandFits
    BY DEF MirrorInv
  <2>2. JournalMoves
    BY <2>1, JournalSteps
  <2>3. CASE ~UNCHANGED journal
    BY <2>2, <2>3, JournalKeepsPromise
  <2>4. CASE UNCHANGED journal
    <3>1. CASE UNCHANGED shadows \/ ShadowsAge
      <4>1. ShadowsAge
        BY <2>1, <3>1 DEF MirrorTyped, ShadowsAge, ShadowsKeep
      <4> QED
        BY <2>1, <2>4, <4>1, AgingRemoves
    <3> QED
      BY <2>1, <3>1, ShadowsStand, MakingKeepsPromise
  <2> QED
    BY <2>3, <2>4
<1> QED
  BY <1>1, <1>2, MirrorHolds, OneState, PTL DEF Spec, KeepsPromise, Promise!Spec


-----------------------------------------------------------------------------
(* What a run claims of its mappings *)

\* The steps that use what the discovery of the mapping found.
Using == {"retire", "object"} \cup AtObject

EndsInError == run.step = "end" => run.errs # {}

\* Unless somebody else changed it, what the run holds of an object is what GitHub shows.
HoldsTrue ==
    run.errs = {} /\ run.step \in Using =>
        \A k \in Keys \ run.touched : LET i == run.mine[k].id IN
            i # 0 => shadows[i].live /\ shadows[i].content = run.mine[k].content

\* So does what it holds of the shadow in hand.
HandTrue ==
    run.step \in {"seek", "record", "verify"} /\ Current \notin run.touched =>
        shadows[run.made].live /\ (run.step # "seek" => shadows[run.made].content = run.content)

Shown(k) == \E i \in Copies(k) : shadows[i].content = run.want[k]

\* As long as nothing went wrong, an object that is done with shows the version read.
DoneIsShown ==
    run.errs = {} /\ ~run.backlog /\ run.step \in {"object"} \cup AtObject =>
        \A k \in KeysOf(run.mapping) \ run.touched :
            run.want[k] # 0 => (\E j \in 1 .. Len(run.todo) : run.todo[j] = k) \/ Shown(k)

ReportInv == EndsInError /\ HoldsTrue /\ HandTrue /\ DoneIsShown

LEMMA Vacuous ==
    ASSUME run'.step \notin Using \cup {"end"}
    PROVE  ReportInv'
BY DEF ReportInv, EndsInError, HoldsTrue, HandTrue, DoneIsShown, Using, AtObject

LEMMA Erring ==
    ASSUME run'.errs # {}, run'.step \notin {"seek", "record", "verify"}
    PROVE  ReportInv'
BY DEF ReportInv, EndsInError, HoldsTrue, HandTrue, DoneIsShown

\* The shadows of an object show what they showed.
ShowsAsBefore(k) ==
    \A i \in Made : shadows[i].key = k =>
        shadows'[i].key = k /\ shadows'[i].live = shadows[i].live /\ shadows'[i].content = shadows[i].content

LEMMA HoldsStay ==
    ASSUME MirrorTyped, HandFits, HoldsTrue, run.step \in Using, run.errs \subseteq run'.errs,
           run.touched \subseteq run'.touched, run'.mine = run.mine,
           \A k \in Keys \ run'.touched : ShowsAsBefore(k)
    PROVE  HoldsTrue'
<1> SUFFICES ASSUME run.errs = {}, NEW k \in Keys \ run'.touched, run.mine[k].id # 0
             PROVE  shadows'[run.mine[k].id].live /\ shadows'[run.mine[k].id].content = run.mine[k].content
  BY DEF HoldsTrue
<1>1. run.mine[k].id \in Made /\ shadows[run.mine[k].id].key = k
  BY MadeTyped DEF MirrorTyped, RunType, HandFits, Made
<1>2. shadows[run.mine[k].id].live /\ shadows[run.mine[k].id].content = run.mine[k].content
  BY DEF HoldsTrue
<1> QED
  BY <1>1, <1>2 DEF ShowsAsBefore

LEMMA ShownStays ==
    ASSUME NEW k, ShowsAsBefore(k), run'.want = run.want, Made \subseteq Made', Shown(k)
    PROVE  Shown(k)'
BY DEF Shown, Copies, ShowsAsBefore

LEMMA DoneStays ==
    ASSUME MirrorTyped, HandFits, DoneIsShown, run.step \in {"object"} \cup AtObject,
           run'.mapping = run.mapping, run'.want = run.want, run.errs \subseteq run'.errs, run.backlog => run'.backlog,
           run.touched \subseteq run'.touched, \A k \in Keys \ run'.touched : Shown(k) => Shown(k)',
           \/ run'.todo = run.todo
           \/ /\ run.todo # << >> /\ run'.todo = Tail(run.todo)
              /\ \A k \in Keys \ run'.touched : k = Current /\ run'.errs = {} /\ ~run'.backlog /\ run.want[k] # 0 => Shown(k)'
    PROVE  DoneIsShown'
<1> SUFFICES ASSUME run'.errs = {}, ~run'.backlog, NEW k \in KeysOf(run.mapping) \ run'.touched, run.want[k] # 0
             PROVE  (\E j \in 1 .. Len(run'.todo) : run'.todo[j] = k) \/ Shown(k)'
  BY DEF DoneIsShown
<1>1. (\E j \in 1 .. Len(run.todo) : run.todo[j] = k) \/ Shown(k)
  BY DEF DoneIsShown
<1>2. run.mapping \in MappingIds /\ k \in Keys
  BY Enrollment DEF HandFits, Discovered
<1>3. CASE Shown(k)
  BY <1>2, <1>3
<1>4. ASSUME NEW j \in 1 .. Len(run.todo), run.todo[j] = k, run.todo # << >>, run'.todo = Tail(run.todo)
      PROVE  k = Current \/ \E n \in 1 .. Len(run'.todo) : run'.todo[n] = k
  <2>1. run.todo \in Seq(Keys)
    BY DEF MirrorTyped, RunType
  <2>2. CASE j = 1
    BY <1>4, <2>1, <2>2 DEF Current
  <2>3. CASE j # 1
    <3>1. j - 1 \in 1 .. Len(run'.todo) /\ run'.todo[j - 1] = k
      BY <1>4, <2>1, <2>3
    <3> QED
      BY <3>1
  <2> QED
    BY <2>2, <2>3
<1>5. CASE run'.todo = run.todo
  BY <1>1, <1>3, <1>5
<1>6. CASE /\ run.todo # << >> /\ run'.todo = Tail(run.todo)
           /\ \A n \in Keys \ run'.touched : n = Current /\ run'.errs = {} /\ ~run'.backlog /\ run.want[n] # 0 => Shown(n)'
  <2>1. k = Current => Shown(k)'
    BY <1>2, <1>6
  <2>2. (\E j \in 1 .. Len(run.todo) : run.todo[j] = k) => k = Current \/ \E n \in 1 .. Len(run'.todo) : run'.todo[n] = k
    BY <1>4, <1>6
  <2> QED
    BY <1>1, <1>3, <2>1, <2>2
<1> QED
  BY <1>5, <1>6


\* A step of somebody else's: what it changes is touched.
LEMMA OthersReport ==
    ASSUME MirrorTyped, HandFits, ReportInv, Made \subseteq Made',
           UNCHANGED <<run.step, run.mapping, run.want, run.mine, run.todo, run.made, run.content, run.backlog, run.errs>>,
           run.touched \subseteq run'.touched, \A k \in Keys \ run'.touched : ShowsAsBefore(k)
    PROVE  ReportInv'
<1>1. EndsInError /\ HoldsTrue /\ HandTrue /\ DoneIsShown
  BY DEF ReportInv
<1>2. CASE run.step \in Using
  <2>1. HoldsTrue'
    BY <1>1, <1>2, HoldsStay
  <2>2. DoneIsShown'
    <3>1. CASE run.step \in {"object"} \cup AtObject
      BY <1>1, <3>1, ShownStays, DoneStays
    <3>2. CASE run.step \notin {"object"} \cup AtObject
      BY <3>2 DEF DoneIsShown
    <3> QED
      BY <3>1, <3>2
  <2>3. HandTrue'
    <3> SUFFICES ASSUME run.step \in {"seek", "record", "verify"}, Current \notin run'.touched
                 PROVE  shadows'[run.made].live /\ (run.step # "seek" => shadows'[run.made].content = run.content)
      BY DEF HandTrue, Current
    <3>1. Current \in Keys /\ run.made \in Made /\ shadows[run.made].key = Current
      <4>1. run.made \in 0 .. Len(shadows) /\ run.made # 0 /\ shadows[run.made].key = Current
        BY DEF HandFits, MirrorTyped, RunType
      <4>2. run.made \in Made
        BY <4>1, MadeTyped DEF Made
      <4>3. Current \in Keys
        BY TheWork DEF HandFits, AtObject
      <4> QED
        BY <4>1, <4>2, <4>3
    <3>2. shadows[run.made].live /\ (run.step # "seek" => shadows[run.made].content = run.content)
      BY <1>1 DEF HandTrue
    <3> QED
      BY <3>1, <3>2 DEF ShowsAsBefore
  <2> QED
    BY <1>1, <2>1, <2>2, <2>3 DEF ReportInv, EndsInError
<1>3. CASE run.step \notin Using
  BY <1>1, <1>3 DEF ReportInv, EndsInError, HoldsTrue, HandTrue, DoneIsShown, Using, AtObject
<1> QED
  BY <1>2, <1>3

LEMMA SameShows ==
    ASSUME UNCHANGED shadows
    PROVE  Made' = Made /\ \A k : ShowsAsBefore(k)
BY DEF ShowsAsBefore, Made

LEMMA WorldReports == ASSUME MirrorTyped, HandFits, ReportInv, Environment PROVE ReportInv'
<1>1. run \in RunType
  BY DEF MirrorTyped
<1>2. ASSUME NEW keys \in SUBSET Keys, Touches(keys), Made \subseteq Made', \A k \in Keys \ keys : ShowsAsBefore(k)
      PROVE  ReportInv'
  <2>1. CASE run.step = "idle"
    BY <1>2, <2>1, Vacuous DEF Touches, At, Using, AtObject
  <2>2. CASE run.step # "idle"
    <3>1. /\ UNCHANGED <<run.step, run.mapping, run.want, run.mine, run.todo, run.made, run.content, run.backlog, run.errs>>
          /\ run'.touched = run.touched \cup keys
      BY <1>1, <1>2, <2>2 DEF Touches, At, RunType
    <3> QED
      BY <1>2, <3>1, OthersReport
  <2> QED
    BY <2>1, <2>2
<1>3. ASSUME UNCHANGED run, Made \subseteq Made', \A k : ShowsAsBefore(k)
      PROVE  ReportInv'
  BY <1>3, OthersReport
<1>4. CASE \E k \in Keys : Apart(Land(k))
  <2>1. PICK k \in Keys : Apart(Land(k))
    BY <1>4
  <2>2. UNCHANGED run /\ (UNCHANGED shadows \/ \E v \in Versions : Creates(k, v))
    BY <2>1 DEF Apart, Land
  <2>3. ASSUME NEW v \in Versions, Creates(k, v) PROVE Made \subseteq Made' /\ \A n : ShowsAsBefore(n)
    <3>1. PICK s \in Shadow : s.key = k /\ shadows' = Append(shadows, s) /\ Len(shadows) < MaxShadows
      BY <2>3, Creating
    <3> QED
      BY <3>1, AddedCopies DEF ShowsAsBefore
  <2> QED
    BY <1>3, <2>2, <2>3, SameShows
<1>5. ASSUME NEW i \in Made, Apart(Appear(i)) PROVE ReportInv'
  <2>1. /\ ShadowsAge
        /\ \A j \in Made : shadows'[j].content = shadows[j].content /\ shadows'[j].live = shadows[j].live
    BY <1>5, Appearing DEF Apart
  <2>2. Made' = Made /\ \A k : ShowsAsBefore(k)
    BY <2>1, AgingKeepsCopies DEF ShowsAsBefore
  <2> QED
    BY <1>3, <1>5, <2>2 DEF Apart
<1>6. ASSUME NEW i \in Made, Alter(i), Touches({shadows[i].key}) PROVE ReportInv'
  <2>1. 0 \in Versions
    BY Enrollment DEF Versions
  <2>2. ShadowsAge /\ \A j \in Made : j # i => shadows'[j] = shadows[j]
    BY <1>6, <2>1, Showing DEF Alter
  <2>3. Made' = Made /\ \A k \in Keys \ {shadows[i].key} : ShowsAsBefore(k)
    BY <2>2, AgingKeepsCopies DEF ShowsAsBefore
  <2>4. {shadows[i].key} \in SUBSET Keys
    BY MadeTyped DEF Shadow
  <2> QED
    BY <1>2, <1>6, <2>3, <2>4
<1>7. ASSUME NEW i \in Made, Remove(i), Touches({shadows[j].key : j \in Deleted(i)}) PROVE ReportInv'
  <2> DEFINE keys == {shadows[j].key : j \in Deleted(i)}
  <2>1. ShadowsAge /\ \A j \in Made \ Deleted(i) : shadows'[j] = shadows[j]
    BY <1>7, Removing
  <2>2. Made' = Made /\ \A k \in Keys \ keys : ShowsAsBefore(k)
    BY <2>1, AgingKeepsCopies DEF ShowsAsBefore
  <2>3. keys \in SUBSET Keys
    BY MadeTyped DEF Shadow, Deleted
  <2> HIDE DEF keys
  <2>4. Touches(keys)
    BY <1>7 DEF keys
  <2> QED
    BY <1>2, <2>2, <2>3, <2>4
<1>8. CASE UNCHANGED <<shadows, run>>
  BY <1>3, <1>8, SameShows
<1> QED
  <2>1. ASSUME NEW k \in Keys, Apart(Occupy(k)) \/ Apart(Vacate(k)) \/ \E v \in Versions : Apart(SourceWrite(k, v))
        PROVE  UNCHANGED <<shadows, run>>
    BY <2>1 DEF Apart, Occupy, Vacate, SourceWrite
  <2>2. ASSUME NEW m \in MappingIds, Apart(LimitEnds(m)) PROVE UNCHANGED <<shadows, run>>
    BY <2>2 DEF Apart, LimitEnds
  <2> QED
    BY <1>4, <1>5, <1>6, <1>7, <1>8, <2>1, <2>2 DEF Environment

\* A step of the run that leaves the shadows and what it holds of them as they are.
LEMMA GoesOn ==
    ASSUME MirrorTyped, HandFits, ReportInv, UNCHANGED shadows, run.step \in {"object"} \cup AtObject,
           run'.step \in {"object"} \cup AtObject, run'.mapping = run.mapping, run'.want = run.want, run'.mine = run.mine,
           run'.touched = run.touched, run.errs \subseteq run'.errs, run.backlog => run'.backlog, HandTrue',
           \/ run'.todo = run.todo
           \/ /\ run.todo # << >> /\ run'.todo = Tail(run.todo)
              /\ \A k \in Keys \ run'.touched : k = Current /\ run'.errs = {} /\ ~run'.backlog /\ run.want[k] # 0 => Shown(k)'
    PROVE  ReportInv'
<1>1. HoldsTrue /\ DoneIsShown /\ run.step \in Using
  BY DEF ReportInv, Using
<1>2. Made' = Made /\ \A k : ShowsAsBefore(k)
  BY SameShows
<1>3. HoldsTrue'
  BY <1>1, <1>2, HoldsStay
<1>4. \A k \in Keys \ run'.touched : Shown(k) => Shown(k)'
  BY <1>2, ShownStays
<1>5. DoneIsShown'
  BY <1>1, <1>4, DoneStays
<1>6. EndsInError'
  BY DEF EndsInError, AtObject
<1> QED
  BY <1>3, <1>5, <1>6 DEF ReportInv


LEMMA FailingReports ==
    ASSUME MirrorTyped,
           \/ AnswerLost \/ Rejected \/ Limited \/ SeekEnds \/ PatchFails \/ OutOfTime \/ TimesOut \/ ReadFails
           \/ \E e : Stops(e)
    PROVE  ReportInv'
<1>1. run \in RunType
  BY DEF MirrorTyped
<1>2. CASE \E e : Stops(e)
  <2>1. PICK e : Stops(e)
    BY <1>2
  <2>2. run'.step = "end" /\ e \in run'.errs
    BY <1>1, <2>1 DEF Stops, Goes, RunType
  <2> QED
    BY <2>2, Erring
<1>3. CASE AnswerLost \/ Rejected \/ PatchFails
  <2>1. run' = SentPasses("other")
    BY <1>3 DEF AnswerLost, Rejected, PatchFails, Goes
  <2>2. run'.step = "object" /\ "other" \in run'.errs
    BY <1>1, <2>1 DEF SentPasses, Sent, RunType
  <2> QED
    BY <2>2, Erring
<1>4. CASE Limited
  <2>1. run' = [SentPasses("limited") EXCEPT !.step = "end"]
    BY <1>4 DEF Limited, Goes
  <2>2. run'.step = "end" /\ "limited" \in run'.errs
    BY <1>1, <2>1 DEF SentPasses, Sent, RunType
  <2> QED
    BY <2>2, Erring
<1>5. CASE SeekEnds \/ TimesOut
  BY <1>2, <1>5 DEF SeekEnds, TimesOut
<1>6. CASE OutOfTime
  <2>1. run'.step = "end" /\ "exhausted" \in run'.errs
    BY <1>1, <1>6 DEF OutOfTime, Goes, RunType
  <2> QED
    BY <2>1, Erring
<1>7. CASE ReadFails
  <2>1. CASE Passes({"other"})
    <3>1. run'.step = "object" /\ "other" \in run'.errs
      BY <1>1, <2>1 DEF Passes, Goes, RunType
    <3> QED
      BY <3>1, Erring
  <2> QED
    BY <1>2, <1>7, <2>1 DEF ReadFails
<1> QED
  BY <1>2, <1>3, <1>4, <1>5, <1>6, <1>7

LEMMA LeavingReports ==
    ASSUME MirrorTyped,
           \/ EnterMapping \/ ReadSource \/ MappingEnds \/ Finish \/ Resolve \/ Settle \/ Bootstrap \/ Reowned \/ Adopt \/ Note
           \/ Killed \/ StartApply \/ RequestBootstrap \/ \E k \in Keys : RequestResolve(k) \/ RequestAdopt(k)
    PROVE  ReportInv'
<1> USE DEF Goes, Moves
<1>1. run \in RunType
  BY DEF MirrorTyped
<1>2. run'.step \in {"idle", "next", "source", "discover", "settle", "reown", "resolve", "bootstrap", "adopt", "note"}
  <2>1. CASE EnterMapping \/ ReadSource
    BY <1>1, <2>1 DEF EnterMapping, ReadSource, At, RunType
  <2>2. CASE MappingEnds
    BY <2>2 DEF MappingEnds, Idle
  <2>3. CASE Finish \/ Settle \/ Reowned \/ Note \/ Killed
    BY <2>3 DEF Finish, Settle, Reowned, Note, Killed, Idle
  <2>4. CASE Resolve \/ Bootstrap
    <3>1. \/ run' = Idle \/ run' = [run EXCEPT !.step = "settle", !.mine = FindsAll]
          \/ run' = [run EXCEPT !.step = "reown", !.mine = FindsAll]
      BY <2>4 DEF Resolve, Bootstrap, Refused
    <3>2. Idle.step = "idle"
      BY DEF Idle
    <3> QED
      BY <1>1, <3>1, <3>2 DEF RunType
  <2>5. CASE Adopt
    <3>1. run' = Idle \/ run' = [run EXCEPT !.step = "note", !.made = Len(shadows) + 1]
      BY <2>5 DEF Adopt
    <3>2. Idle.step = "idle"
      BY DEF Idle
    <3> QED
      BY <1>1, <3>1, <3>2 DEF RunType
  <2>6. CASE StartApply
    BY <2>6 DEF StartApply, Idle
  <2>7. CASE RequestBootstrap
    BY <2>7 DEF RequestBootstrap, Attends, Idle
  <2>8. ASSUME NEW k \in Keys, RequestResolve(k) PROVE run'.step = "resolve"
    BY <2>8 DEF RequestResolve, Attends, Idle
  <2>9. ASSUME NEW k \in Keys, RequestAdopt(k) PROVE run'.step = "adopt"
    BY <2>9 DEF RequestAdopt, Attends, Idle
  <2> QED
    BY <2>1, <2>2, <2>3, <2>4, <2>5, <2>6, <2>7, <2>8, <2>9
<1> QED
  BY <1>2, Vacuous DEF Using, AtObject

LEMMA DiscoverReports == ASSUME MirrorTyped, HandFits, Discover \/ Enumerate, ReportInv PROVE ReportInv'
<1>1. run \in RunType /\ UNCHANGED shadows
  BY DEF MirrorTyped, Discover, Enumerate, KeepsServices, services
<1>2. CASE \E e : Stops(e)
  BY <1>2, FailingReports
<1>3. CASE run' = [run EXCEPT !.step = "retire", !.view = Listing(run.mapping), !.mine = Finds(run.mapping, Listing(run.mapping))]
  <2> DEFINE ids == Listing(run.mapping)
  <2>1. run'.step = "retire" /\ run'.mine = Finds(run.mapping, ids)
    BY <1>1, <1>3 DEF RunType
  <2>2. ids \in SUBSET Made
    BY DEF Listing
  <2>3. ASSUME NEW k \in Keys, run'.mine[k].id # 0
        PROVE  shadows'[run'.mine[k].id].live /\ shadows'[run'.mine[k].id].content = run'.mine[k].content
    <3>1. run'.mine[k] = LET i == OwnedBy(k, ids) IN
             IF k \in KeysOf(run.mapping) /\ i # 0 THEN [id |-> i, content |-> shadows[i].content]
             ELSE [id |-> 0, content |-> 0]
      BY <2>1 DEF Finds
    <3>2. run'.mine[k] = [id |-> OwnedBy(k, ids), content |-> shadows[OwnedBy(k, ids)].content] /\ OwnedBy(k, ids) # 0
      BY <2>3, <3>1
    <3>3. OwnedBy(k, ids) \in ids
      <4> HIDE DEF ids
      <4> QED
        BY <2>2, <3>2, Finding
    <3>4. shadows[OwnedBy(k, ids)].live
      BY <3>3 DEF Listing
    <3> QED
      BY <1>1, <3>2, <3>4
  <2>4. HoldsTrue'
    BY <2>3 DEF HoldsTrue
  <2>5. EndsInError' /\ HandTrue' /\ DoneIsShown'
    BY <2>1 DEF EndsInError, HandTrue, DoneIsShown, AtObject
  <2> QED
    BY <2>4, <2>5 DEF ReportInv
<1>4. CASE Enumerate
  <2>1. /\ run.step = "retire" /\ run'.step = "object" /\ run'.mapping = run.mapping /\ run'.todo = Enrolled[run.mapping]
        /\ run'.errs = run.errs /\ run'.mine = run.mine /\ run'.touched = run.touched
    BY <1>1, <1>4 DEF Enumerate, Goes, At, RunType
  <2>2. HoldsTrue'
    BY <1>1, <2>1, SameShows, HoldsStay DEF ReportInv, Using
  <2>3. DoneIsShown'
    BY <2>1 DEF DoneIsShown, KeysOf
  <2>4. EndsInError' /\ HandTrue'
    BY <2>1 DEF EndsInError, HandTrue
  <2> QED
    BY <2>2, <2>3, <2>4 DEF ReportInv
<1> QED
  BY <1>2, <1>3, <1>4 DEF Discover, Goes

LEMMA WaitReports == ASSUME MirrorTyped, HandFits, Wait, ReportInv PROVE ReportInv'
<1>1. /\ run \in RunType /\ UNCHANGED shadows /\ run.step = "object" /\ run.todo # << >>
      /\ Current \in Keys
  BY TheWork DEF MirrorTyped, Wait, Working, At, KeepsServices, services
<1>2. /\ run'.step = "object" /\ run'.mapping = run.mapping /\ run'.want = run.want /\ run'.mine = run.mine
      /\ run'.touched = run.touched /\ run'.errs = run.errs /\ run'.todo = Tail(run.todo)
      /\ run.backlog => run'.backlog
      /\ run'.backlog \/ ~Wanted \/ UpToDate(Current)
  <2>1. CASE Waits
    BY <1>1, <2>1 DEF Waits, Goes, RunType
  <2>2. CASE Passes({}) /\ (~Wanted \/ UpToDate(Current))
    <3>1. run' = [run EXCEPT !.step = "object", !.todo = Tail(run.todo), !.errs = run.errs]
      BY <2>2 DEF Passes, Goes
    <3> QED
      BY <1>1, <2>2, <3>1 DEF RunType
  <2> QED
    BY <2>1, <2>2 DEF Wait
<1>3. ASSUME NEW k \in Keys \ run'.touched, k = Current, run'.errs = {}, ~run'.backlog, run.want[k] # 0
      PROVE  Shown(k)'
  <2>1. run.mine[k].id # 0 /\ run.mine[k].content = run.want[k]
    BY <1>2, <1>3 DEF Wanted, UpToDate
  <2>2. shadows[run.mine[k].id].live /\ shadows[run.mine[k].id].content = run.want[k]
    BY <1>1, <1>2, <1>3, <2>1 DEF ReportInv, HoldsTrue, Using
  <2>3. run.mine[k].id \in Made /\ shadows[run.mine[k].id].key = k
    BY <1>1, <2>1, MadeTyped DEF RunType, HandFits, Made
  <2>4. Shown(k)
    BY <2>2, <2>3 DEF Shown, Copies
  <2> QED
    BY <1>1, <1>2, <2>4, SameShows, ShownStays
<1>4. HandTrue'
  BY <1>2 DEF HandTrue
<1> QED
  BY <1>1, <1>2, <1>3, <1>4, GoesOn

\* What the run holds of the object it was at.
LEMMA HoldingReports ==
    ASSUME MirrorTyped, HandFits, ReportInv, run.step \in AtObject, run.made # 0, NEW key, key = Current, shadows[run.made].key = key,
           NEW c \in Versions, Made \subseteq Made', run'.step = "object", run'.mapping = run.mapping, run'.want = run.want,
           run'.touched = run.touched, run'.errs = run.errs, run.backlog => run'.backlog, run'.todo = Tail(run.todo),
           run'.mine = [run.mine EXCEPT ![key] = [id |-> run.made, content |-> c]],
           c = run.want[key] \/ run'.backlog,
           \A k \in Keys \ {key} : ShowsAsBefore(k), shadows'[run.made].key = key,
           run.errs = {} /\ key \notin run.touched => shadows'[run.made].live /\ shadows'[run.made].content = c
    PROVE  ReportInv'
<1>1. run \in RunType /\ key \in Keys /\ run.made \in Made
  <2>1. run \in RunType /\ key \in Keys
    BY TheWork DEF MirrorTyped, HandFits
  <2> QED
    BY <2>1, MadeTyped DEF RunType, Made
<1>2. HoldsTrue'
  <2> SUFFICES ASSUME run.errs = {}, NEW k \in Keys \ run.touched, run'.mine[k].id # 0
               PROVE  shadows'[run'.mine[k].id].live /\ shadows'[run'.mine[k].id].content = run'.mine[k].content
    BY DEF HoldsTrue
  <2>1. CASE k = key
    <3>1. run'.mine[k] = [id |-> run.made, content |-> c]
      BY <1>1, <2>1 DEF RunType
    <3> QED
      BY <2>1, <3>1
  <2>2. CASE k # key
    <3>1. run'.mine[k] = run.mine[k]
      BY <1>1, <2>2 DEF RunType
    <3>2. run.mine[k].id \in Made /\ shadows[run.mine[k].id].key = k
      BY <1>1, <3>1, MadeTyped DEF RunType, HandFits, Made
    <3>3. shadows[run.mine[k].id].live /\ shadows[run.mine[k].id].content = run.mine[k].content
      BY <3>1 DEF ReportInv, HoldsTrue, Using
    <3> QED
      BY <2>2, <3>1, <3>2, <3>3 DEF ShowsAsBefore
  <2> QED
    BY <2>1, <2>2
<1>3. ASSUME NEW k \in Keys \ run'.touched, k = Current, run'.errs = {}, ~run'.backlog, run.want[k] # 0
      PROVE  Shown(k)'
  <2>1. k = key /\ shadows'[run.made].live /\ shadows'[run.made].content = run.want[k] /\ run.made \in Made'
    BY <1>1, <1>3
  <2> QED
    BY <2>1 DEF Shown, Copies
<1>4. ASSUME NEW k \in Keys \ run'.touched, Shown(k) PROVE Shown(k)' \/ k = key
  BY <1>4, ShownStays
<1>5. DoneIsShown'
  <2>1. run.todo # << >> /\ DoneIsShown
    BY DEF HandFits, ReportInv
  <2>2. CASE run'.errs = {} /\ ~run'.backlog
    <3>1. \A k \in Keys \ run'.touched : Shown(k) => Shown(k)'
      <4> SUFFICES ASSUME NEW k \in Keys \ run'.touched, Shown(k) PROVE Shown(k)'
        OBVIOUS
      <4>1. k = key => Shown(k)'
        <5>1. k = key => shadows'[run.made].live /\ shadows'[run.made].content = run.want[k] /\ run.made \in Made'
          BY <1>1, <2>2
        <5> QED
          BY <5>1 DEF Shown, Copies
      <4> QED
        BY <1>4, <4>1
    <3> QED
      BY <1>3, <2>1, <3>1, DoneStays
  <2> QED
    BY <2>2 DEF DoneIsShown
<1>6. EndsInError' /\ HandTrue'
  BY DEF EndsInError, HandTrue
<1> QED
  BY <1>2, <1>5, <1>6 DEF ReportInv


LEMMA ObjectReports ==
    ASSUME MirrorTyped, HandFits, ReportInv, Refresh \/ Intend \/ Seek \/ Record \/ Renew
    PROVE  ReportInv'
<1> USE DEF Goes, Moves, At
<1>1. run \in RunType /\ UNCHANGED shadows /\ run.step \in {"object"} \cup AtObject
  BY DEF MirrorTyped, Refresh, Intend, Seek, Record, Renew, Needed, Working, KeepsServices, services, AtObject
<1>2. CASE \E e : Stops(e)
  BY <1>2, FailingReports
<1>3. ASSUME NEW ids, run' = [run EXCEPT !.step = "intend", !.view = ids] PROVE ReportInv'
  <2>1. /\ run'.step = "intend" /\ run'.mapping = run.mapping /\ run'.want = run.want /\ run'.mine = run.mine
        /\ run'.touched = run.touched /\ run'.errs = run.errs /\ run'.backlog = run.backlog /\ run'.todo = run.todo
    BY <1>1, <1>3 DEF RunType
  <2> QED
    BY <1>1, <2>1, GoesOn DEF HandTrue, AtObject
<1>4. ASSUME NEW ids, NEW i, shadows[i].live,
             run' = [run EXCEPT !.step = "verify", !.view = ids, !.made = i, !.content = shadows[i].content]
      PROVE  ReportInv'
  <2>1. /\ run'.step = "verify" /\ run'.mapping = run.mapping /\ run'.want = run.want /\ run'.mine = run.mine
        /\ run'.touched = run.touched /\ run'.errs = run.errs /\ run'.backlog = run.backlog /\ run'.todo = run.todo
        /\ run'.made = i /\ run'.content = shadows[i].content
    BY <1>1, <1>4 DEF RunType
  <2>2. HandTrue'
    BY <1>1, <1>4, <2>1 DEF HandTrue
  <2> QED
    BY <1>1, <2>1, <2>2, GoesOn DEF AtObject
<1>5. ASSUME NEW e, e # {}, \/ Passes(e)
                            \/ \E ids : run' = [run EXCEPT !.step = "object", !.view = ids, !.todo = Tail(@), !.errs = @ \cup e]
      PROVE  ReportInv'
  <2>1. run'.step = "object" /\ run'.errs # {}
    BY <1>1, <1>5 DEF Passes, RunType
  <2> QED
    BY <2>1, Erring
<1>6. CASE Intend /\ Moves("post")
  <2>1. /\ run'.step = "post" /\ run'.mapping = run.mapping /\ run'.want = run.want /\ run'.mine = run.mine
        /\ run'.touched = run.touched /\ run'.errs = run.errs /\ run'.backlog = run.backlog /\ run'.todo = run.todo
    BY <1>1, <1>6 DEF RunType
  <2> QED
    BY <1>1, <2>1, GoesOn DEF HandTrue, AtObject
<1>7. ASSUME NEW ids, Seek, run' = [run EXCEPT !.step = "record", !.view = ids, !.content = shadows[run.made].content]
      PROVE  ReportInv'
  <2>1. /\ run'.step = "record" /\ run'.mapping = run.mapping /\ run'.want = run.want /\ run'.mine = run.mine
        /\ run'.touched = run.touched /\ run'.errs = run.errs /\ run'.backlog = run.backlog /\ run'.todo = run.todo
        /\ run'.made = run.made /\ run'.content = shadows[run.made].content
    BY <1>1, <1>7 DEF RunType
  <2>2. HandTrue'
    BY <1>1, <1>7, <2>1 DEF HandTrue, Current, ReportInv, Seek
  <2> QED
    BY <1>1, <2>1, <2>2, GoesOn DEF AtObject
<1>8. CASE Record
  <2>1. /\ run'.step = "verify" /\ run'.mapping = run.mapping /\ run'.want = run.want /\ run'.mine = run.mine
        /\ run'.touched = run.touched /\ run'.errs = run.errs /\ run'.backlog = run.backlog /\ run'.todo = run.todo
        /\ run'.made = run.made /\ run'.content = run.content
    BY <1>1, <1>8 DEF Record, RunType
  <2>2. HandTrue'
    BY <1>1, <1>8, <2>1 DEF HandTrue, Current, ReportInv, Record
  <2> QED
    BY <1>1, <2>1, <2>2, GoesOn DEF AtObject
<1>9. ASSUME NEW ids, NEW i, run' = [run EXCEPT !.step = "patch", !.view = ids, !.made = i] PROVE ReportInv'
  <2>1. /\ run'.step = "patch" /\ run'.mapping = run.mapping /\ run'.want = run.want /\ run'.mine = run.mine
        /\ run'.touched = run.touched /\ run'.errs = run.errs /\ run'.backlog = run.backlog /\ run'.todo = run.todo
    BY <1>1, <1>9 DEF RunType
  <2> QED
    BY <1>1, <2>1, GoesOn DEF HandTrue, AtObject
<1>10. CASE Refresh
  <2>1. PICK ids \in Reads(run.mapping) :
           \/ RediscoveryStops(ids)
           \/ IF (run.mine[Current].id # 0 /\ OwnedBy(Current, ids) = 0) \/ Orphan(Current, ids) THEN Stops("conflict")
              ELSE IF OwnedBy(Current, ids) = 0 THEN run' = [run EXCEPT !.step = "intend", !.view = ids]
              ELSE IF shadows[OwnedBy(Current, ids)].live
                   THEN run' = [run EXCEPT !.step = "verify", !.view = ids, !.made = OwnedBy(Current, ids),
                                           !.content = shadows[OwnedBy(Current, ids)].content]
              ELSE run' = [run EXCEPT !.step = "object", !.view = ids, !.todo = Tail(@), !.errs = @ \cup {"other"}]
    BY <1>10 DEF Refresh
  <2>2. CASE RediscoveryStops(ids)
    BY <1>2, <2>2 DEF RediscoveryStops
  <2>3. CASE Stops("conflict")
    BY <1>2, <2>3
  <2>4. CASE run' = [run EXCEPT !.step = "intend", !.view = ids]
    BY <1>3, <2>4
  <2>5. CASE /\ shadows[OwnedBy(Current, ids)].live
             /\ run' = [run EXCEPT !.step = "verify", !.view = ids, !.made = OwnedBy(Current, ids),
                                   !.content = shadows[OwnedBy(Current, ids)].content]
    BY <1>4, <2>5
  <2>6. CASE run' = [run EXCEPT !.step = "object", !.view = ids, !.todo = Tail(@), !.errs = @ \cup {"other"}]
    <3>1. {"other"} # {}
      OBVIOUS
    <3> QED
      BY <1>5, <2>6, <3>1
  <2> QED
    BY <2>1, <2>2, <2>3, <2>4, <2>5, <2>6
<1>11. CASE Intend
  <2>1. {"unresolved"} # {}
    OBVIOUS
  <2> QED
    BY <1>5, <1>6, <1>11, <2>1 DEF Intend
<1>12. CASE Seek
  <2>1. PICK ids \in Reads(run.mapping) :
           \/ Stops("conflict")
           \/ /\ OwnedBy(Current, ids) = run.made
              /\ run' = [run EXCEPT !.step = "record", !.view = ids, !.content = shadows[OwnedBy(Current, ids)].content]
    BY <1>12 DEF Seek
  <2> QED
    BY <1>2, <1>7, <1>12, <2>1
<1>13. CASE Renew
  <2>1. PICK ids \in Reads(run.mapping) :
           \/ RediscoveryStops(ids) \/ Stops("conflict")
           \/ run' = [run EXCEPT !.step = "patch", !.view = ids, !.made = OwnedBy(Current, ids)]
    BY <1>13 DEF Renew
  <2>2. CASE RediscoveryStops(ids)
    BY <1>2, <2>2 DEF RediscoveryStops
  <2> QED
    BY <1>2, <1>9, <2>1, <2>2
<1> QED
  BY <1>8, <1>10, <1>11, <1>12, <1>13

LEMMA AcceptedReports == ASSUME MirrorTyped, HandFits, ReportInv, Accepted PROVE ReportInv'
<1>1. /\ run.step = "post" /\ run \in RunType /\ Creates(Current, run.want[Current])
      /\ run' = [Sent EXCEPT !.step = "seek", !.made = Len(shadows) + 1]
  BY DEF Accepted, At, Goes, MirrorTyped
<1>2. /\ run'.step = "seek" /\ run'.mapping = run.mapping /\ run'.want = run.want /\ run'.mine = run.mine
      /\ run'.touched = run.touched /\ run'.errs = run.errs /\ run'.backlog = run.backlog /\ run'.todo = run.todo
      /\ run'.made = Len(shadows) + 1
  BY <1>1 DEF Sent, RunType
<1>3. Current \in Keys /\ run.want[Current] \in Versions
  BY <1>1, TheWork DEF HandFits, AtObject, RunType
<1>4. PICK s \in Shadow : s.key = Current /\ s.live /\ shadows' = Append(shadows, s) /\ Len(shadows) < MaxShadows
  BY <1>1, <1>3, Creating
<1>5. Made \subseteq Made' /\ (\A k : ShowsAsBefore(k)) /\ shadows'[Len(shadows) + 1] = s
  BY <1>4, AddedCopies DEF ShowsAsBefore
<1>6. HoldsTrue'
  BY <1>1, <1>2, <1>5, HoldsStay DEF ReportInv, Using, AtObject
<1>7. DoneIsShown'
  BY <1>1, <1>2, <1>5, ShownStays, DoneStays DEF ReportInv, AtObject
<1>8. EndsInError' /\ HandTrue'
  BY <1>2, <1>4, <1>5 DEF EndsInError, HandTrue
<1> QED
  BY <1>6, <1>7, <1>8 DEF ReportInv

LEMMA VerifyReports == ASSUME MirrorTyped, HandFits, ReportInv, Verify PROVE ReportInv'
<1>1. /\ run.step = "verify" /\ run \in RunType /\ UNCHANGED shadows
      /\ run.made # 0 /\ shadows[run.made].key = Current /\ Current \in Keys
  BY TheWork DEF Verify, At, KeepsServices, services, MirrorTyped, HandFits, AtObject
<1>2. CASE run.left > 0 /\ Moves("renew")
  <2>1. /\ run'.step = "renew" /\ run'.mapping = run.mapping /\ run'.want = run.want /\ run'.mine = run.mine
        /\ run'.touched = run.touched /\ run'.errs = run.errs /\ run'.backlog = run.backlog /\ run'.todo = run.todo
    BY <1>1, <1>2 DEF Moves, Goes, RunType
  <2> QED
    BY <1>1, <2>1, GoesOn DEF HandTrue, AtObject
<1>3. CASE \/ run.content = run.want[Current] /\ run' = Holds(run.made, run.content)
           \/ run' = [Holds(run.made, run.content) EXCEPT !.backlog = TRUE]
  <2>1. /\ run'.step = "object" /\ run'.mapping = run.mapping /\ run'.want = run.want
        /\ run'.touched = run.touched /\ run'.errs = run.errs /\ (run.backlog => run'.backlog) /\ run'.todo = Tail(run.todo)
        /\ run'.mine = [run.mine EXCEPT ![Current] = [id |-> run.made, content |-> run.content]]
        /\ run.content = run.want[Current] \/ run'.backlog
    BY <1>1, <1>3 DEF Holds, RunType
  <2>2. Current \notin run.touched => shadows[run.made].live /\ shadows[run.made].content = run.content
    BY <1>1 DEF ReportInv, HandTrue
  <2>3. PICK key : key = Current
    OBVIOUS
  <2>4. run.content \in Versions /\ run.step \in AtObject
    BY <1>1 DEF RunType, AtObject
  <2> QED
    BY <1>1, <2>1, <2>2, <2>3, <2>4, SameShows, HoldingReports
<1> QED
  BY <1>2, <1>3 DEF Verify, Goes

LEMMA PatchReports == ASSUME MirrorTyped, HandFits, ReportInv, Patch PROVE ReportInv'
<1>1. /\ run.step = "patch" /\ run \in RunType /\ run.made # 0 /\ shadows[run.made].key = Current /\ Current \in Keys
      /\ shadows[run.made].live
  BY TheWork DEF Patch, At, MirrorTyped, HandFits, AtObject
<1>2. CASE run' = SentPasses("other")
  <2>1. run'.step = "object" /\ "other" \in run'.errs
    BY <1>1, <1>2 DEF SentPasses, Sent, RunType
  <2> QED
    BY <2>1, Erring
<1>3. CASE ShowsVersion(run.made, run.want[Current]) /\ run' = [Holds(run.made, run.want[Current]) EXCEPT !.left = @ - 1]
  <2>1. PICK key \in Keys : key = Current
    BY <1>1
  <2>2. PICK c \in Versions : c = run.want[key]
    BY <1>1 DEF RunType
  <2>3. /\ run'.step = "object" /\ run'.mapping = run.mapping /\ run'.want = run.want
        /\ run'.touched = run.touched /\ run'.errs = run.errs /\ run'.backlog = run.backlog /\ run'.todo = Tail(run.todo)
        /\ run'.mine = [run.mine EXCEPT ![key] = [id |-> run.made, content |-> c]]
    BY <1>1, <1>3, <2>1, <2>2 DEF Holds, RunType
  <2>4. run.made \in Made
    BY <1>1, MadeTyped DEF RunType, Made
  <2>5. /\ ShadowsAge /\ \A j \in Made : j # run.made => shadows'[j] = shadows[j]
        /\ shadows'[run.made].content = c /\ shadows'[run.made].live = shadows[run.made].live
    BY <1>3, <2>1, <2>2, <2>4, Showing
  <2>6. Made' = Made /\ shadows'[run.made].key = key /\ \A k \in Keys \ {key} : ShowsAsBefore(k)
    BY <1>1, <2>1, <2>4, <2>5, AgingKeepsCopies DEF ShowsAsBefore
  <2> QED
    BY <1>1, <2>1, <2>2, <2>3, <2>5, <2>6, HoldingReports DEF AtObject
<1> QED
  BY <1>2, <1>3 DEF Patch, Goes

LEMMA ReportKept == MirrorInv /\ ReportInv /\ [Next]_vars => ReportInv'
<1> SUFFICES ASSUME MirrorTyped, HandFits, ReportInv, [Next]_vars PROVE ReportInv'
  BY DEF MirrorInv
<1>1. ASSUME UNCHANGED <<shadows, run>> PROVE ReportInv'
  BY <1>1, SameShows, OthersReport
<1>2. CASE RunStep
  <2>1. ASSUME NEW k \in Keys, Retire(k) \/ Reown(k) PROVE UNCHANGED <<shadows, run>>
    BY <2>1 DEF Retire, Reown, KeepsServices, services
  <2> QED
    BY <1>1, <1>2, <2>1, LeavingReports, DiscoverReports, WaitReports, ObjectReports, AcceptedReports, VerifyReports, PatchReports,
       FailingReports DEF RunStep
<1>3. CASE SeekEnds \/ Failure
  BY <1>1, <1>3, FailingReports, LeavingReports DEF Failure, JournalLost
<1>4. CASE Request
  BY <1>4, LeavingReports DEF Request
<1>5. CASE Environment
  BY <1>5, WorldReports
<1>6. CASE UNCHANGED vars
  BY <1>1, <1>6 DEF vars, services
<1> QED
  BY <1>2, <1>3, <1>4, <1>5, <1>6 DEF Next

\* Only the end of a mapping adds to the clean ones.
LEMMA CleanStands ==
    ASSUME MirrorTyped, [Next]_vars, ~MappingEnds
    PROVE  run'.clean \subseteq run.clean
<1> USE DEF Goes, Moves
<1>1. run \in RunType /\ Idle.clean = {}
  BY DEF MirrorTyped, Idle
<1>2. ASSUME UNCHANGED run \/ run' = Idle \/ \E step, todo : Attends(step, todo)
      PROVE  run'.clean \subseteq run.clean
  <2>1. CASE \E step, todo : Attends(step, todo)
    <3>1. PICK step, todo : run' = [Idle EXCEPT !.step = step, !.todo = todo]
      BY <2>1 DEF Attends
    <3>2. run'.clean = {}
      BY <3>1 DEF Idle
    <3> QED
      BY <3>2
  <2> QED
    BY <1>1, <1>2, <2>1
<1>3. ASSUME \E e : Stops(e) \/ Passes(e) PROVE run'.clean \subseteq run.clean
  <2>1. PICK e : Stops(e) \/ Passes(e)
    BY <1>3
  <2> QED
    BY <1>1, <2>1 DEF Stops, Passes, RunType
<1>4. ASSUME Waits PROVE run'.clean \subseteq run.clean
  BY <1>1, <1>4 DEF Waits, RunType
<1>5. ASSUME NEW ids, RediscoveryStops(ids) PROVE run'.clean \subseteq run.clean
  BY <1>3, <1>5 DEF RediscoveryStops
<1>6. CASE RunStep
  <2>1. CASE EnterMapping \/ ReadSource \/ Enumerate
    BY <1>1, <2>1 DEF EnterMapping, ReadSource, Enumerate, RunType
  <2>2. CASE Discover
    <3>1. \/ \E e : Stops(e)
          \/ run' = [run EXCEPT !.step = "retire", !.view = Listing(run.mapping), !.mine = Finds(run.mapping, Listing(run.mapping))]
      BY <2>2 DEF Discover
    <3> QED
      BY <1>1, <1>3, <3>1 DEF RunType
  <2>3. CASE Wait
    BY <1>3, <1>4, <2>3 DEF Wait
  <2>4. CASE Refresh
    <3>1. \/ \E ids : RediscoveryStops(ids)
          \/ \E e : Stops(e)
          \/ \E ids : run' = [run EXCEPT !.step = "intend", !.view = ids]
          \/ \E ids, i : run' = [run EXCEPT !.step = "verify", !.view = ids, !.made = i, !.content = shadows[i].content]
          \/ \E ids : run' = [run EXCEPT !.step = "object", !.view = ids, !.todo = Tail(@), !.errs = @ \cup {"other"}]
      BY <2>4, Zenon DEF Refresh
    <3> QED
      BY <1>1, <1>3, <1>5, <3>1 DEF RunType
  <2>5. CASE Intend \/ Record
    BY <1>1, <1>3, <2>5 DEF Intend, Record, RunType
  <2>6. CASE Accepted \/ Rejected \/ PatchFails
    BY <1>1, <2>6 DEF Accepted, Rejected, PatchFails, SentPasses, Sent, RunType
  <2>7. CASE Seek
    <3>1. \/ \E e : Stops(e)
          \/ \E ids, i : run' = [run EXCEPT !.step = "record", !.view = ids, !.content = shadows[i].content]
      BY <2>7 DEF Seek
    <3> QED
      BY <1>1, <1>3, <3>1 DEF RunType
  <2>8. CASE Verify
    BY <1>1, <2>8 DEF Verify, Holds, RunType
  <2>9. CASE Renew
    <3>1. \/ \E ids : RediscoveryStops(ids)
          \/ \E e : Stops(e)
          \/ \E ids, i : run' = [run EXCEPT !.step = "patch", !.view = ids, !.made = i]
      BY <2>9 DEF Renew
    <3> QED
      BY <1>1, <1>3, <1>5, <3>1 DEF RunType
  <2>10. CASE Patch
    <3>1. run' = [Holds(run.made, run.want[Current]) EXCEPT !.left = @ - 1] \/ run' = SentPasses("other")
      BY <2>10 DEF Patch
    <3> QED
      BY <1>1, <3>1 DEF SentPasses, Sent, Holds, RunType
  <2>11. CASE Finish \/ Settle \/ Reowned \/ Note
    BY <1>2, <2>11 DEF Finish, Settle, Reowned, Note
  <2>12. CASE Resolve
    BY <1>1, <1>2, <2>12 DEF Resolve, Refused, RunType
  <2>13. CASE Bootstrap
    BY <1>1, <1>2, <2>13 DEF Bootstrap, Refused, RunType
  <2>14. CASE Adopt
    <3>1. run' = Idle \/ run' = [run EXCEPT !.step = "note", !.made = Len(shadows) + 1]
      BY <2>14 DEF Adopt
    <3> QED
      BY <1>1, <1>2, <3>1 DEF RunType
  <2>15. CASE \E k \in Keys : Retire(k) \/ Reown(k)
    BY <1>2, <2>15 DEF Retire, Reown
  <2> QED
    BY <1>6, <2>1, <2>2, <2>3, <2>4, <2>5, <2>6, <2>7, <2>8, <2>9, <2>10, <2>11, <2>12, <2>13, <2>14, <2>15 DEF RunStep
<1>7. CASE SeekEnds \/ TimesOut \/ ReadFails
  BY <1>3, <1>7 DEF SeekEnds, TimesOut, ReadFails
<1>8. CASE AnswerLost \/ Rejected \/ Limited \/ OutOfTime
  BY <1>1, <1>8 DEF AnswerLost, Rejected, Limited, OutOfTime, SentPasses, Sent, RunType
<1>9. CASE Killed \/ JournalLost
  BY <1>2, <1>9 DEF Killed, JournalLost
<1>10. CASE Request
  <2>1. CASE StartApply
    <3>1. run'.clean = {}
      BY <2>1 DEF StartApply, Idle
    <3> QED
      BY <3>1
  <2>2. CASE RequestBootstrap
    BY <1>2, <2>2 DEF RequestBootstrap
  <2>3. CASE \E k \in Keys : RequestResolve(k) \/ RequestAdopt(k)
    BY <1>2, <2>3 DEF RequestResolve, RequestAdopt
  <2> QED
    BY <1>10, <2>1, <2>2, <2>3 DEF Request
<1>11. CASE Environment
  <2>1. UNCHANGED run \/ \E keys : Touches(keys)
    BY <1>11, Zenon DEF Environment, Apart
  <2> QED
    BY <1>1, <1>2, <2>1 DEF Touches, RunType
<1>12. CASE UNCHANGED vars
  BY <1>2, <1>12 DEF vars
<1> QED
  BY <1>6, <1>7, <1>8, <1>9, <1>10, <1>11, <1>12 DEF Next, Failure

LEMMA ReportStarts == Init => ReportInv
<1> SUFFICES ASSUME Init PROVE ReportInv
  OBVIOUS
<1>1. run.step = "idle"
  BY DEF Init, Idle
<1> QED
  BY <1>1 DEF ReportInv, EndsInError, HoldsTrue, HandTrue, DoneIsShown, Using, AtObject

\* A mapping is clean only if nothing went wrong and nothing is left to do, and what is done with
\* is shown.
LEMMA CleanIsShown ==
    ASSUME MirrorTyped, ReportInv, [Next]_vars, NEW m \in MappingIds, m \in run'.clean \ run.clean,
           NEW k \in KeysOf(m) \ run.touched, run.want[k] # 0
    PROVE  Shown(k)
<1>1. MappingEnds
  BY CleanStands
<1>2. run'.clean = run.clean \cup {n \in {run.mapping} : MappingErrors = {} /\ ~run.backlog}
  BY <1>1 DEF MappingEnds, Goes, Idle
<1>3. m = run.mapping /\ MappingErrors = {} /\ ~run.backlog
  BY <1>2
<1>4. run.errs = {}
  BY <1>3 DEF MappingErrors
<1>5. run.step = "object" /\ run.todo = << >>
  BY <1>1, <1>4 DEF MappingEnds, At, ReportInv, EndsInError
<1>6. ~\E j \in 1 .. Len(run.todo) : run.todo[j] = k
  BY <1>5
<1> QED
  BY <1>3, <1>4, <1>5, <1>6 DEF ReportInv, DoneIsShown

\* Reports claim no more than was done: a mapping is reported as converged only when each of its
\* objects shows the version read, unless somebody else changed it meanwhile, and a run passes
\* without a call for attention only when no create is unaccounted for.
THEOREM ReportsTrue == Spec => ReportsAreTrue
<1>1. MirrorInv /\ ReportInv /\ [Next]_vars =>
        \A m \in MappingIds : run'.clean # run.clean /\ m \in run'.clean \ run.clean =>
          \A k \in KeysOf(m) \ run.touched :
              run.want[k] # 0 => \E i \in Copies(k) : shadows[i].content = run.want[k]
  BY CleanIsShown DEF MirrorInv, Shown
<1>2. Spec => ConvergedIsMirrored
  BY <1>1, MirrorHolds, ReportStarts, ReportKept, PTL DEF Spec, ConvergedIsMirrored
<1> QED
  BY <1>2, UncertaintyShown DEF ReportsAreTrue

=============================================================================
