------------------------------ MODULE GalaxyCache ------------------------------
(***************************************************************************)
(* scripts/galaxy_dependencies.py, with the checks of                      *)
(* scripts/dependencies.py: the Galaxy roles and collections of a          *)
(* requirements file are installed once into a shared cache, copied with   *)
(* the repository's overrides into generations that are never changed, and *)
(* selected in a checkout through links.                                   *)
(*                                                                         *)
(* A requirements file and the override files are numbers: what is         *)
(* installed carries the number its metadata declares (0 when the metadata *)
(* is gone) and whether all its files are there, which no check of the     *)
(* program can tell.                                                       *)
(***************************************************************************)
EXTENDS Naturals, FiniteSets, SequencesExt

CONSTANTS
    Preparers,       \* processes that run scripts/galaxy_dependencies.py
    Checkouts,       \* working copies that share HOMELAB_GALAXY_CACHE_DIR
    HomeOf,          \* the checkout each of the preparers runs in
    Versions,        \* revisions of requirements.yml
    Overrides,       \* revisions of overrides/ansible-galaxy
    MaxEdits,        \* how often a developer changes either of them
    MaxGalaxyFaults, \* how many preparers are killed, operations fail (disk, network,
                     \* permissions) or files of the cache are changed by something else
    MaxGenerations   \* how many generations are ever published

ASSUME GalaxyConstants ==
    /\ HomeOf \in [Preparers -> Checkouts]
    /\ 0 \notin Versions \cup Overrides
    /\ {MaxEdits, MaxGalaxyFaults, MaxGenerations} \subseteq Nat

VARIABLES
    want,      \* [c] -> the files of the checkout
    entry,     \* [c] -> what roles, collections and requirements.sha256 are in .ansible
    current,   \* [c] -> the selection .galaxy-current points to
    own,       \* [c] -> the directories made before the cache existed, if it had them
    kept,      \* [c] -> the own directories that lie in a backup
    bases,     \* [requirements hash] -> the installed base
    gens,      \* the published generations
    holder,    \* the preparers that hold the cache's lock: none or one
    work,      \* [p] -> the local state of a preparer
    luck       \* how much of each bound is used up

galaxyVars == <<want, entry, current, own, kept, bases, gens, holder, work, luck>>

-----------------------------------------------------------------------------
Files == [req : Versions, ovr : Overrides]
Links == {"roles", "collections", "requirements"}   \* the order they are moved in
Order == <<"roles", "collections", "requirements">>
NoBase == [req |-> 0, whole |-> FALSE]
NoSelection == [gen |-> 0, req |-> 0, src |-> 0, inst |-> 0]
NoFiles == [req |-> 0, ovr |-> 0]

Idle == [pc |-> "idle", hash |-> NoFiles, repair |-> FALSE, cand |-> NoBase, ovr |-> 0,
         gen |-> 0, sel |-> NoSelection, moved |-> << >>, linked |-> 0,
         retain |-> FALSE, disturbed |-> FALSE, before |-> << >>]

GalaxyInit ==
    /\ want \in [Checkouts -> Files]
    /\ \E layout \in [Checkouts -> {"none", "own", "other"}] :
           /\ entry = [c \in Checkouts |-> [n \in Links |-> layout[c]]]
           /\ own = [c \in Checkouts |-> [req |-> want[c].req, ovr |-> want[c].ovr,
                                          had |-> layout[c] = "own"]]
    /\ current = [c \in Checkouts |-> NoSelection]
    /\ kept = [c \in Checkouts |-> {}]
    /\ bases = [v \in Versions |-> NoBase]
    /\ gens = << >>
    /\ holder = {}
    /\ work = [p \in Preparers |-> Idle]
    /\ luck = [edits |-> 0, faults |-> 0]

-----------------------------------------------------------------------------
(* What the checkout shows to Ansible and to dependencies.py verify.       *)

Nothing == [req |-> 0, ovr |-> 0, whole |-> FALSE]

Shown(c, n) ==
    CASE entry[c][n] = "own" -> [req |-> own[c].req, ovr |-> own[c].ovr, whole |-> TRUE]
      [] entry[c][n] = "link" /\ current[c].gen > 0 ->
            [req |-> gens[current[c].gen].req, ovr |-> gens[current[c].gen].ovr,
             whole |-> gens[current[c].gen].whole]
      [] OTHER -> Nothing

\* What bootstrap_sha256 digests: requirements.yml, the overrides and their installed copies.
Digest(c, installed) == [req |-> want[c].req, src |-> want[c].ovr, inst |-> installed]

Fingerprint(c) ==
    CASE entry[c]["requirements"] = "own" ->
            [req |-> own[c].req, src |-> own[c].ovr, inst |-> own[c].ovr]
      [] entry[c]["requirements"] = "link" ->
            [req |-> current[c].req, src |-> current[c].src, inst |-> current[c].inst]
      [] OTHER -> [req |-> 0, src |-> 0, inst |-> 0]

Verified(c) ==
    /\ Shown(c, "roles").req = want[c].req
    /\ Shown(c, "collections").req = want[c].req
    /\ Shown(c, "roles").ovr = want[c].ovr
    /\ Fingerprint(c) = Digest(c, Shown(c, "roles").ovr)

StableLinks(c) == (\A n \in Links : entry[c][n] = "link") /\ current[c].gen > 0

OwnDirectories(c) == {n \in {"roles", "collections"} : entry[c][n] = "own"}

VerifiedLegacy(c) ==
    /\ \A n \in {"roles", "collections"} : Shown(c, n) # Nothing
    /\ Verified(c)

-----------------------------------------------------------------------------
(* A preparer. *)

At(p, pc) == work[p].pc = pc
Cache == <<bases, gens>>
Layout == <<entry, current, kept>>

\* A repair, or a generation that is there and not valid, wants a new base.
Fresh(p) == work[p].repair \/ \E i \in DOMAIN gens : gens[i].name = work[p].hash

\* Mutant: a generation is trusted for the success file alone.
ValidByName(p, i) == gens[i].name = work[p].hash

\* The checks read the checkout's files again, after the hash was taken.
Valid(p, i) ==
    /\ gens[i].name = work[p].hash
    /\ gens[i].req = want[HomeOf[p]].req
    /\ gens[i].ovr = want[HomeOf[p]].ovr

\* main, prepare: the files are hashed before the lock is asked for.
StartPrepare(p, repair) ==
    /\ At(p, "idle")
    /\ work' = [work EXCEPT ![p] = [Idle EXCEPT !.pc = "waiting", !.repair = repair,
                                                !.hash = want[HomeOf[p]]]]
    /\ UNCHANGED <<want, own, holder, luck, Cache, Layout>>

\* Mutant: the lock is shared, as LOCK_SH would make it.
TakeLockShared(p) ==
    /\ At(p, "waiting")
    /\ holder' = {p}
    /\ work' = [work EXCEPT ![p].pc = "lookup",
                            ![p].before = <<entry[HomeOf[p]], current[HomeOf[p]]>>]
    /\ UNCHANGED <<want, own, luck, Cache, Layout>>

TakeLock(p) ==
    /\ At(p, "waiting")
    /\ holder = {}
    /\ holder' = {p}
    /\ work' = [work EXCEPT ![p].pc = "lookup",
                            ![p].before = <<entry[HomeOf[p]], current[HomeOf[p]]>>]
    /\ UNCHANGED <<want, own, luck, Cache, Layout>>

Reuse(p, i) ==
    /\ At(p, "lookup")
    /\ ~work[p].repair
    /\ Valid(p, i)
    /\ work' = [work EXCEPT ![p].pc = "selection", ![p].gen = i, ![p].hash = NoFiles]
    /\ UNCHANGED <<want, own, holder, luck, Cache, Layout>>

NoReuse(p) ==
    /\ At(p, "lookup")
    /\ work[p].repair \/ \A i \in DOMAIN gens : ~Valid(p, i)
    /\ work' = [work EXCEPT ![p].pc = IF Fresh(p) THEN "fresh" ELSE "base"]
    /\ UNCHANGED <<want, own, holder, luck, Cache, Layout>>

\* _install_base_fresh.
RemoveBase(p) ==
    /\ At(p, "fresh")
    /\ bases' = [bases EXCEPT ![work[p].hash.req] = NoBase]
    /\ work' = [work EXCEPT ![p].pc = "base"]
    /\ UNCHANGED <<want, own, holder, luck, gens, Layout>>

\* _install_base: a base whose metadata declare the versions is used as it is.
UseBase(p) ==
    /\ At(p, "base")
    /\ bases[work[p].hash.req].req = want[HomeOf[p]].req
    /\ work' = [work EXCEPT ![p].pc = "copy"]
    /\ UNCHANGED <<want, own, holder, luck, Cache, Layout>>

InstallBase(p) ==
    /\ At(p, "base")
    /\ bases[work[p].hash.req].req # want[HomeOf[p]].req
    /\ work' = [work EXCEPT ![p].pc = "replace",
                            ![p].cand = [req |-> want[HomeOf[p]].req, whole |-> TRUE]]
    /\ UNCHANGED <<want, own, holder, luck, Cache, Layout>>

\* An older base is removed before the candidate takes its name.
PublishBase(p) ==
    /\ At(p, "replace")
    /\ work[p].cand.req = want[HomeOf[p]].req
    /\ bases' = [bases EXCEPT ![work[p].hash.req] = work[p].cand]
    /\ work' = [work EXCEPT ![p].pc = "copy", ![p].cand = NoBase]
    /\ UNCHANGED <<want, own, holder, luck, gens, Layout>>

\* _publish_generation: copy the base, lay the overrides over it, ...
CopyBase(p) ==
    /\ At(p, "copy")
    /\ work' = [work EXCEPT ![p].pc = "publish", ![p].cand = bases[work[p].hash.req],
                            ![p].ovr = want[HomeOf[p]].ovr]
    /\ UNCHANGED <<want, own, holder, luck, Cache, Layout>>

\* ... check the copy, and give it its name in one rename.
PublishGeneration(p) ==
    /\ At(p, "publish")
    /\ work[p].cand.req = want[HomeOf[p]].req
    /\ work[p].ovr = want[HomeOf[p]].ovr
    /\ Len(gens) < MaxGenerations
    /\ gens' = Append(gens, [name |-> work[p].hash, req |-> work[p].cand.req,
                             ovr |-> work[p].ovr, whole |-> work[p].cand.whole])
    /\ work' = [work EXCEPT ![p].pc = "selection", ![p].gen = Len(gens) + 1,
                            ![p].cand = NoBase, ![p].ovr = 0, ![p].hash = NoFiles]
    /\ UNCHANGED <<want, own, holder, luck, bases, Layout>>

\* _publish_selection: the fingerprint is taken of the files as they are now.
PublishSelection(p) ==
    /\ At(p, "selection")
    /\ LET c == HomeOf[p]  d == Digest(c, gens[work[p].gen].ovr) IN
       work' = [work EXCEPT ![p].pc = "select", ![p].gen = 0,
           ![p].sel = [gen |-> work[p].gen, req |-> d.req, src |-> d.src, inst |-> d.inst]]
    /\ UNCHANGED <<want, own, holder, luck, Cache, Layout>>

-----------------------------------------------------------------------------
(* _select *)

End(p) == holder' = {} /\ work' = [work EXCEPT ![p] = Idle]

\* The usual case: one os.replace of .galaxy-current.
Repoint(p) ==
    LET c == HomeOf[p] IN
    /\ At(p, "select")
    /\ StableLinks(c)
    /\ current' = [current EXCEPT ![c] = work[p].sel]
    /\ End(p)
    /\ UNCHANGED <<want, own, luck, entry, kept, Cache>>

\* Unmanaged directories are refused; the caller reports it and exits.
Refuse(p) ==
    LET c == HomeOf[p] IN
    /\ At(p, "select")
    /\ ~StableLinks(c)
    /\ OwnDirectories(c) # {} /\ ~VerifiedLegacy(c)
    /\ End(p)
    /\ UNCHANGED <<want, own, luck, Cache, Layout>>

Retains(c) == OwnDirectories(c) # {}

\* Everything is moved to a backup first, and the links are made anew.
TakeOver(p) ==
    LET c == HomeOf[p] IN
    /\ At(p, "select")
    /\ ~StableLinks(c)
    /\ OwnDirectories(c) = {} \/ VerifiedLegacy(c)
    /\ work' = [work EXCEPT ![p].pc = "move", ![p].retain = Retains(c)]
    /\ UNCHANGED <<want, own, holder, luck, Cache, Layout>>

Present(c) == {k \in DOMAIN Order : entry[c][Order[k]] # "none"}

\* Every entry there is goes to the backup, in order; .galaxy-current is the last.
MoveAway(p) ==
    LET c == HomeOf[p] IN
    /\ At(p, "move")
    /\ \/ \E k \in Present(c) : LET n == Order[k] IN
              /\ \A j \in Present(c) : k <= j
              /\ entry' = [entry EXCEPT ![c][n] = "none"]
              /\ kept' = [kept EXCEPT ![c] = IF entry[c][n] = "own" THEN @ \cup {n} ELSE @]
              /\ work' = [work EXCEPT ![p].moved = Append(@, <<n, entry[c][n]>>)]
              /\ UNCHANGED current
       \/ /\ Present(c) = {} /\ current[c].gen > 0
          /\ current' = [current EXCEPT ![c] = NoSelection]
          /\ work' = [work EXCEPT ![p].pc = "link", ![p].moved = Append(@, <<"current", current[c]>>)]
          /\ UNCHANGED <<entry, kept>>
       \/ /\ Present(c) = {} /\ current[c].gen = 0
          /\ work' = [work EXCEPT ![p].pc = "link"]
          /\ UNCHANGED Layout
    /\ UNCHANGED <<want, own, holder, luck, Cache>>

\* The links come in the same order, and with .galaxy-current they lead somewhere.
PutLink(p) ==
    LET c == HomeOf[p]  k == work[p].linked + 1 IN
    /\ At(p, "link")
    /\ IF k <= Len(Order)
       THEN /\ entry' = [entry EXCEPT ![c][Order[k]] = "link"]
            /\ work' = [work EXCEPT ![p].linked = k]
            /\ UNCHANGED current
       ELSE /\ current' = [current EXCEPT ![c] = work[p].sel]
            /\ work' = [work EXCEPT ![p].pc = "tidy"]
            /\ UNCHANGED entry
    /\ UNCHANGED <<want, own, holder, luck, kept, Cache>>

\* What the backup holds of the directories that were there before.
BackedUp(p) == {work[p].moved[k][1] : k \in {j \in DOMAIN work[p].moved : work[p].moved[j][2] = "own"}}

\* An archive of earlier directories stays, without its links; another backup goes.
Tidy(p) ==
    LET c == HomeOf[p] IN
    /\ At(p, "tidy")
    /\ kept' = [kept EXCEPT ![c] = @ \ (IF work[p].retain THEN {"requirements"} ELSE BackedUp(p))]
    /\ End(p)
    /\ UNCHANGED <<want, own, luck, entry, current, Cache>>

\* Mutant: the links that were published are left where they are.
UndoLinkLeft(p) ==
    LET c == HomeOf[p] IN
    /\ At(p, "undo") /\ work[p].linked > 0
    /\ work' = [work EXCEPT ![p].linked = 0]
    /\ UNCHANGED <<want, own, holder, luck, Cache, Layout>>

\* The rollback: published links go, in the order they came, ...
UndoLink(p) ==
    LET c == HomeOf[p]
        left == {k \in 1 .. work[p].linked : entry[c][Order[k]] = "link"} IN
    /\ At(p, "undo") /\ work[p].linked > 0
    /\ IF left # {}
       THEN entry' = [entry EXCEPT ![c][Order[CHOOSE k \in left : \A j \in left : k <= j]] = "none"]
            /\ UNCHANGED work
       ELSE work' = [work EXCEPT ![p].linked = 0] /\ UNCHANGED entry
    /\ UNCHANGED <<want, own, holder, luck, current, kept, Cache>>

\* ... what was moved comes back, the last first, ...
UndoMove(p) ==
    LET c == HomeOf[p]  m == work[p].moved IN
    /\ At(p, "undo") /\ work[p].linked = 0 /\ m # << >>
    /\ IF Last(m)[1] = "current"
       THEN current' = [current EXCEPT ![c] = Last(m)[2]] /\ UNCHANGED <<entry, kept>>
       ELSE /\ entry' = [entry EXCEPT ![c][Last(m)[1]] = Last(m)[2]]
            /\ kept' = [kept EXCEPT ![c] = IF Last(m)[2] = "own" THEN @ \ {Last(m)[1]} ELSE @]
            /\ UNCHANGED current
    /\ work' = [work EXCEPT ![p].moved = Front(m)]
    /\ UNCHANGED <<want, own, holder, luck, Cache>>

\* ... and the error goes to the caller.
Undone(p) ==
    /\ At(p, "undo") /\ work[p].linked = 0 /\ work[p].moved = << >>
    /\ End(p)
    /\ UNCHANGED <<want, own, luck, Cache, Layout>>

-----------------------------------------------------------------------------
(* Failures. Removing a base is not atomic: some of its files may be left, *)
(* with or without the metadata.                                           *)

Remains(b) == {b} \cup (IF b.req = 0 THEN {} ELSE {NoBase, [req |-> b.req, whole |-> FALSE]})

Removes(p) == work[p].pc \in {"fresh", "replace"}

Fails(p) ==
    /\ work[p].pc \notin {"idle", "waiting", "undo", "tidy"}
    /\ luck.faults < MaxGalaxyFaults
    /\ luck' = [luck EXCEPT !.faults = @ + 1]
    /\ IF work[p].pc \in {"move", "link"}
       THEN work' = [work EXCEPT ![p].pc = "undo"] /\ UNCHANGED <<holder, bases>>
       ELSE /\ End(p)
            /\ IF Removes(p)
               THEN \E b \in Remains(bases[work[p].hash.req]) :
                        bases' = [bases EXCEPT ![work[p].hash.req] = b]
               ELSE UNCHANGED bases
    /\ UNCHANGED <<want, own, gens, Layout>>

\* A check of a candidate finds that the files changed while it was made.
Rejects(p) ==
    /\ \/ At(p, "replace") /\ work[p].cand.req # want[HomeOf[p]].req
       \/ /\ At(p, "publish")
          /\ <<work[p].cand.req, work[p].ovr>> # <<want[HomeOf[p]].req, want[HomeOf[p]].ovr>>
    /\ End(p)
    /\ UNCHANGED <<want, own, luck, Cache, Layout>>

\* The kernel drops the lock with the process; what is half done stays.
Kill(p) ==
    /\ work[p].pc # "idle"
    /\ luck.faults < MaxGalaxyFaults
    /\ luck' = [luck EXCEPT !.faults = @ + 1]
    /\ holder' = holder \ {p}
    /\ work' = [work EXCEPT ![p] = Idle]
    /\ IF Removes(p)
       THEN \E b \in Remains(bases[work[p].hash.req]) :
                bases' = [bases EXCEPT ![work[p].hash.req] = b]
       ELSE UNCHANGED bases
    /\ UNCHANGED <<want, own, gens, Layout>>

\* Preparers that are past the lock, in a checkout, notice none of this.
Disturb(C) == [p \in Preparers |->
    IF HomeOf[p] \in C /\ work[p].pc \notin {"idle", "waiting"}
    THEN [work[p] EXCEPT !.disturbed = TRUE] ELSE work[p]]

Edit(c) ==
    /\ luck.edits < MaxEdits
    /\ luck' = [luck EXCEPT !.edits = @ + 1]
    /\ \E f \in Files \ {want[c]} : want' = [want EXCEPT ![c] = f]
    /\ work' = Disturb({c})
    /\ UNCHANGED <<own, holder, Cache, Layout>>

\* Files of a generation or a base are lost, or an installed override is edited in place.
Damage ==
    /\ luck.faults < MaxGalaxyFaults
    /\ luck' = [luck EXCEPT !.faults = @ + 1]
    /\ \/ \E i \in DOMAIN gens : \E o \in Overrides \cup {gens[i].ovr} :
              /\ gens' = [gens EXCEPT ![i].whole = FALSE, ![i].ovr = o]
              /\ UNCHANGED bases
       \/ \E v \in Versions : \E b \in Remains(bases[v]) \ {bases[v]} :
              bases' = [bases EXCEPT ![v] = b] /\ UNCHANGED gens
    /\ work' = Disturb(Checkouts)
    /\ UNCHANGED <<want, own, holder, Layout>>

-----------------------------------------------------------------------------
PreparerNext(p) ==
    \/ \E repair \in BOOLEAN : StartPrepare(p, repair)
    \/ TakeLock(p)
    \/ \E i \in DOMAIN gens : Reuse(p, i)
    \/ NoReuse(p) \/ RemoveBase(p) \/ UseBase(p) \/ InstallBase(p) \/ PublishBase(p)
    \/ CopyBase(p) \/ PublishGeneration(p) \/ PublishSelection(p)
    \/ Repoint(p) \/ Refuse(p) \/ TakeOver(p) \/ MoveAway(p) \/ PutLink(p) \/ Tidy(p)
    \/ UndoLink(p) \/ UndoMove(p) \/ Undone(p)
    \/ Fails(p) \/ Rejects(p) \/ Kill(p)

GalaxyNext == (\E p \in Preparers : PreparerNext(p)) \/ (\E c \in Checkouts : Edit(c)) \/ Damage

-----------------------------------------------------------------------------
GalaxyTypeOK ==
    /\ want \in [Checkouts -> Files]
    /\ own \in [Checkouts -> [req : Versions, ovr : Overrides, had : BOOLEAN]]
    /\ \A c \in Checkouts : \A n \in Links : entry[c][n] \in {"none", "own", "other", "link"}
    /\ \A c \in Checkouts : current[c].gen \in 0 .. Len(gens)
    /\ \A v \in Versions : bases[v] \in [req : Versions \cup {0}, whole : BOOLEAN]
    /\ holder \subseteq Preparers /\ Cardinality(holder) <= 1
    /\ \A p \in Preparers : work[p].pc \notin {"idle", "waiting"} => holder = {p}

\* A preparer ends well in this step; it ends, and not by a kill or before it touched the checkout.
Delivers(p) == Repoint(p) \/ Tidy(p)
Ends(p) == work[p].pc \notin {"idle", "waiting"} /\ work'[p].pc = "idle" /\ luck' = luck

\* A preparation that ends well, with no edit and no damage since it took the lock, leaves
\* a checkout that dependencies.py verify accepts, whatever was edited before the lock and
\* whatever other preparers left behind; and after a repair every file is there, whatever
\* was lost before.
PrepareDelivers == [][
    \A p \in Preparers : Delivers(p) /\ ~work[p].disturbed =>
        /\ Verified(HomeOf[p])'
        /\ work[p].repair => gens'[current'[HomeOf[p]].gen].whole]_galaxyVars

\* A preparation that is refused, or fails after any number of moves and links, leaves the
\* links and directories of its checkout as it found them.
FailureRestores == [][
    \A p \in Preparers : Ends(p) /\ ~Delivers(p) =>
        <<entry'[HomeOf[p]], current'[HomeOf[p]]>> = work[p].before]_galaxyVars

\* Once a checkout has the stable links, no preparation, failure or kill ever takes them
\* away, not for one step: whoever reads them finds a whole selection of a generation.
StaysSelected == [][
    \A c \in Checkouts : StableLinks(c) =>
        StableLinks(c)' /\ current'[c].gen \in DOMAIN gens']_galaxyVars

\* Directories that were there before the cache are in place or in a backup, through every
\* failure, rollback and kill.
LegacyKept ==
    \A c \in Checkouts : own[c].had =>
        \A n \in {"roles", "collections"} : entry[c][n] = "own" \/ n \in kept[c]

\* A preparation never makes a checkout worse: it delivers what was asked for, and what is
\* selected stays selected until something else is.
SelectionIsSound == PrepareDelivers /\ StaysSelected

\* Nothing of a developer's is lost: a failure restores the checkout, and directories of its
\* own survive even a kill.
NothingIsLost == FailureRestores /\ []LegacyKept
=============================================================================
