---------------------------- MODULE CaddyHostProofs ----------------------------
(***************************************************************************)
(* Proofs about CaddyHost, for any numbers of certificates, revisions and  *)
(* faults.                                                                 *)
(***************************************************************************)
EXTENDS CaddyHost, TLAPS

\* Caddy runs the boot configuration with the certificate that it selects.
Serves == Active => running.boot = boot /\ running.cert = Loaded.cert

\* The steps at which each process holds the deployment lock.
TlsLocked == TlsSteps \ {"idle", "lockRecover", "issue", "lockPublish", "restart", "restarting", "restarted", "restartFailed"}
ApplyLocked == ApplySteps \ {"idle", "lock", "restart", "restarting", "restarted", "restartFailed"}
CaddyLocked == Starting \ {"waiting", "launch"}

LockFits ==
    /\ lock = "tls" <=> tpc \in TlsLocked
    /\ lock = "apply" <=> apc \in ApplyLocked
    /\ lock = "caddy" <=> caddy \in CaddyLocked
    /\ lock = "tls" => desired # 0

\* What the store of generations holds.
StoreFits ==
    /\ \A g \in gens : g <= issued
    /\ current <= issued /\ SelectionComplete

\* The record of a publication: both of its configurations render the manifest.
JournalFits ==
    Journaled =>
        /\ ~pending.set /\ desired # 0 /\ DiskAuthority
        /\ journal.previousBoot = [rev |-> desired, tls |-> journal.previous # 0]
        /\ journal.candidateBoot = [rev |-> desired, tls |-> TRUE]
        /\ journal.previous < journal.generation /\ journal.generation <= issued
        /\ journal.previous \in gens \cup {0}
        /\ journal.status # "restored" => journal.generation \in gens
        /\ journal.status = "restored" =>
             /\ journal.generation \in gens \cup retired
             /\ current = journal.previous /\ boot = journal.previousBoot /\ Serves

\* The record of an activation.
MarkerFits ==
    pending.set =>
        /\ MarkerAuthority
        /\ pending.desiredPrevious # 0 => pending.previous = Render(pending.desiredPrevious)

\* Without a record, everything is as committed.
SettledFits == Settled => CommittedIsRendered /\ Serves

\* The contexts in which the coordinator reaches a step.
RestartSteps == {"release", "restart", "restarting", "restarted", "restartFailed"}
ContextFits ==
    /\ tpc \in {"create", "prepare", "discard", "unprepare", "record"} => tctx = "publish"
    /\ tpc \in {"preflight", "switch", "undo"} => tctx \in {"publish", "retry"}
    /\ tpc \in {"activate", "commit", "failed"} => tctx \in Loading \ {"unchanged"}
    /\ tpc = "load" => tctx \in Loading
    /\ tpc \in {"undone", "blame", "again", "retire", "purge"} \cup RestartSteps => RollingBack
    /\ tpc = "unjournal" => tctx = "retry" \/ RollingBack

Publishing == tpc \in {"create", "prepare", "discard"} \/ (tpc = "preflight" /\ tctx = "publish")
Unjournaled == tpc \in {"issue", "lockPublish", "publish", "purge"} \/ Publishing \/ (tpc = "load" /\ tctx = "unchanged")
Retaining ==
    \/ tpc \in {"switch", "record", "unprepare", "activate", "again", "commit", "failed", "undo", "undone", "blame"} \cup RestartSteps
    \/ tpc = "preflight" /\ tctx = "retry"
    \/ tpc = "load" /\ tctx # "unchanged"
Ending == tpc \in {"retire", "unjournal"}

\* What the coordinator relies on, by its step.
PublishFits ==
    /\ Unjournaled => ~Journaled
    /\ tpc \in {"lockPublish", "publish"} \/ (Publishing /\ tpc # "discard") => cand = issued /\ cand # 0
    /\ Publishing => cand # current
    /\ tpc = "prepare" \/ (tpc = "preflight" /\ tctx = "publish") => cand \in gens
    /\ tpc = "prepare" => ~pending.set

RetainFits ==
    /\ Retaining \/ Ending => Journaled /\ cand = journal.generation
    /\ Retaining \/ (tpc = "unjournal" /\ tctx = "retry") => journal.status # "restored"
    /\ tpc = "retire" \/ (tpc = "unjournal" /\ tctx # "retry") => journal.status = "restored"
    /\ tpc = "retire" => cand \in gens

SelectionFits ==
    /\ tpc = "unprepare" \/ (tpc = "switch" /\ tctx = "publish") =>
         current = journal.previous /\ boot = journal.previousBoot /\ Serves
    /\ RollingBack /\ tpc \in {"undone", "activate", "load", "again", "commit"} \cup RestartSteps =>
         /\ current = journal.previous
         /\ tpc # "undone" => journal.status # "recovered"
         /\ tpc \notin {"undone", "activate"} => boot = journal.previousBoot
    /\ tctx \in {"publish", "retry"} /\ tpc \in {"record", "activate", "load", "commit", "unjournal"} =>
         /\ current = journal.generation
         /\ tpc \notin {"record", "activate"} => boot = journal.candidateBoot
    /\ tpc \in {"commit", "unjournal"} => Serves

\* What the activation relies on, by its step.
MarkedSteps == ApplyLocked \ {"check", "backup", "mark"}
ApplyFits ==
    /\ apc # "idle" => wanted \in Revisions
    /\ apc \in ApplyLocked => ~Journaled /\ (pending.set <=> apc \in MarkedSteps)
    /\ apc = "mark" => lastGood = boot
    /\ apc \in {"write", "load", "commit", "clear"} =>
         pending.candidate = Candidate /\ pending.desiredCandidate = wanted
    /\ apc \in {"load", "commit", "clear"} \/ (actx = "kept" /\ apc \in {"backup", "mark", "write"}) => boot = Candidate
    /\ apc \in {"commit", "clear", "undoClear"} \/ (actx = "kept" /\ apc \in {"backup", "mark", "write"}) => Serves
    /\ apc = "clear" => desired = wanted
    /\ apc \in {"undoBoot", "undoLoad", "undoClear"} => desired = pending.desiredPrevious
    /\ apc \in {"undoLoad", "undoClear"} => boot = pending.previous

\* What a start relies on, by its step.
StartFits ==
    /\ caddy \in {"disk", "pointer", "boot", "restored"} => Journaled
    /\ caddy \in {"previous", "clear"} => pending.set /\ desired = pending.desiredPrevious
    /\ caddy = "clear" => boot = lastGood

TlsFits == ContextFits /\ PublishFits /\ RetainFits /\ SelectionFits
HostInv ==
    /\ TypeOK /\ LockFits /\ StoreFits /\ JournalFits /\ MarkerFits /\ SettledFits
    /\ TlsFits /\ ApplyFits /\ StartFits

-----------------------------------------------------------------------------
(* Shapes *)

\* A new status leaves the rest of the record.
LEMMA Statused ==
    ASSUME journal \in Journals, NEW status \in JournalStatuses, HasStatus(status)
    PROVE  /\ journal' \in Journals /\ journal'.status = status
           /\ UNCHANGED <<journal.previous, journal.generation, journal.rev, journal.previousBoot,
                          journal.candidateBoot, journal.restart, journal.disk>>
BY DEF HasStatus, Records, Journals

LEMMA RestartNoted ==
    ASSUME journal \in Journals, NEW restart \in BOOLEAN, journal' = [journal EXCEPT !.restart = restart]
    PROVE  /\ journal' \in Journals
           /\ UNCHANGED <<journal.status, journal.previous, journal.generation, journal.rev, journal.previousBoot,
                          journal.candidateBoot, journal.disk>>
BY DEF Journals

LEMMA DiskNoted ==
    ASSUME journal \in Journals, NEW disk \in {"pending", "restored"}, journal' = [journal EXCEPT !.disk = disk]
    PROVE  /\ journal' \in Journals
           /\ UNCHANGED <<journal.status, journal.previous, journal.generation, journal.rev, journal.previousBoot,
                          journal.candidateBoot, journal.restart>>
BY DEF Journals

LEMMA Blank ==
    /\ NoJournal \in Journals /\ NoJournal.status = "none" /\ NoMarker \in Markers /\ ~NoMarker.set
    /\ MaxGeneration \in Nat /\ MaxRevision \in Nat /\ MaxFaults \in Nat
BY HostBounds DEF NoJournal, Journals, JournalStatuses, NoMarker, Markers, Boots, AdminBoot

LEMMA LoadedIs ==
    ASSUME TypeOK
    PROVE  /\ Loaded \in [boot : Boots, cert : 0 .. MaxGeneration, stray : BOOLEAN]
           /\ Loaded.boot = boot /\ Loaded.cert = IF boot.tls THEN current ELSE 0
           /\ \A r \in 0 .. MaxRevision : Render(r) \in Boots /\ Render(r).rev = r /\ Render(r).tls = (current # 0)
BY Blank DEF Loaded, TypeOK, HostTypeOK, Render, Boots

-----------------------------------------------------------------------------
(* Types *)

LEMMA TypeStarts == Init => TypeOK
BY Blank DEF Init, HostInit, TlsInit, ApplyInit, TypeOK, HostTypeOK, TlsTypeOK, ApplyTypeOK, TlsSteps, ApplySteps,
         NotRunning, AdminBoot, Boots, Generations

LEMMA FaultsCount == ASSUME faults \in 0 .. MaxFaults, Fault \/ NoFault PROVE faults' \in 0 .. MaxFaults
BY Blank DEF Fault, NoFault


LEMMA TlsTyped == HostInv /\ (TlsNext \/ TlsKilled) => TypeOK'
<1> SUFFICES ASSUME HostInv, TlsNext \/ TlsKilled PROVE TypeOK'
  OBVIOUS
<1>a. TypeOK /\ PublishFits /\ RetainFits /\ JournalFits /\ StoreFits
  BY DEF HostInv, TlsFits
<1> USE <1>a, Blank DEF TypeOK, HostTypeOK, TlsTypeOK, ApplyTypeOK, Goes, TlsKeeps, KeepsStore, KeepsSelection, KeepsDisk, activation,
        service, Ends, TlsRests, TlsSteps, Loading
<1>1. CASE RenewStarts \/ TlsLocks \/ RecoverNothing \/ PublishInvalid \/ PublishUnchanged \/ PublishNew
  <2>1. CASE RenewStarts \/ TlsLocks
    BY <1>1, <2>1 DEF RenewStarts, TlsLocks
  <2>2. CASE RecoverNothing \/ PublishInvalid \/ PublishUnchanged \/ PublishNew
    BY <1>1, <2>2 DEF RecoverNothing, PublishInvalid, PublishUnchanged, PublishNew
  <2> QED
    BY <1>1, <2>1, <2>2
<1>2. CASE Issue
  BY <1>2 DEF Issue, Generations
<1>3. CASE CreateGeneration \/ Discard
  <2>1. tpc = "create" => cand \in Generations
    BY DEF PublishFits, Publishing, Generations
  <2>2. gens' \subseteq Generations
    BY <1>3, <2>1 DEF CreateGeneration, Discard
  <2> QED
    BY <1>3, <2>2 DEF CreateGeneration, Discard
<1>4. CASE Retire \/ Purge
  <2>1. tpc = "retire" => cand \in gens
    BY DEF RetainFits
  <2> QED
    BY <1>4, <2>1 DEF Retire, Purge
<1>5. ASSUME \E status \in JournalStatuses : HasStatus(status) PROVE journal' \in Journals
  BY <1>5, Statused
<1>6. CASE Preflight
  <2>1. journal' \in Journals
    BY <1>5, <1>6 DEF Preflight, JournalStatuses
  <2> QED
    BY <1>6, <2>1 DEF Preflight
<1>7. CASE PreflightFails \/ ActivateFails
  <2>1. faults' \in 0 .. MaxFaults
    BY <1>7, FaultsCount DEF PreflightFails, ActivateFails, FailsUnless
  <2> QED
    BY <1>7, <2>1 DEF PreflightFails, ActivateFails
<1>8. CASE Prepare
  <2>1. Prepared \in Journals
    BY DEF Prepared, Journals, JournalStatuses, Boots
  <2> QED
    BY <1>8, <2>1 DEF Prepare, Records
<1>9. CASE Switch \/ SwitchFails
  <2>1. faults' \in 0 .. MaxFaults
    BY <1>9, FaultsCount DEF Switch, SwitchFails
  <2> QED
    BY <1>9, <2>1 DEF Switch, SwitchFails
<1>10. CASE Unprepare \/ CommitPublication \/ Unjournal
  BY <1>10 DEF Unprepare, CommitPublication, Unjournal, Records
<1>11. CASE RecordSwitch \/ CommitOutcome \/ RecordUndo \/ Blame
  <2>1. journal' \in Journals
    BY <1>5, <1>11 DEF RecordSwitch, CommitOutcome, RecordUndo, Blame, JournalStatuses
  <2> QED
    BY <1>11, <2>1 DEF RecordSwitch, CommitOutcome, RecordUndo, Blame
<1>12. SelectedBoot \in Boots
  BY DEF SelectedBoot, Journals
<1>13. CASE Activate
  BY <1>12, <1>13 DEF Activate
<1>14. Verified \in Journals /\ Loaded \in [boot : Boots, cert : 0 .. MaxGeneration, stray : BOOLEAN]
  BY LoadedIs DEF Verified, Journals
<1>15. ASSUME FailedReload PROVE running' \in [boot : Boots, cert : 0 .. MaxGeneration, stray : BOOLEAN]
  BY <1>14, <1>15 DEF FailedReload, ReloadResidue
<1>16. CASE Load
  <2>1. running' = Loaded /\ journal' \in Journals
    BY <1>14, <1>16 DEF Load, Records
  <2> QED
    BY <1>14, <1>16, <2>1 DEF Load
<1>17. CASE LoadFails
  <2>1. faults' \in 0 .. MaxFaults
    BY <1>17, FaultsCount DEF LoadFails
  <2>2. running' \in [boot : Boots, cert : 0 .. MaxGeneration, stray : BOOLEAN] /\ journal' \in Journals
    BY <1>14, <1>15, <1>17 DEF LoadFails, Records
  <2> QED
    BY <1>17, <2>1, <2>2 DEF LoadFails
<1>18. CASE LoadNeedsRestart
  <2>1. faults' \in 0 .. MaxFaults
    BY <1>18, FaultsCount DEF LoadNeedsRestart, FailsUnless
  <2>2. running' \in [boot : Boots, cert : 0 .. MaxGeneration, stray : BOOLEAN] /\ journal' \in Journals
    BY <1>15, <1>18, RestartNoted DEF LoadNeedsRestart, Records
  <2> QED
    BY <1>18, <2>1, <2>2 DEF LoadNeedsRestart
<1>19. CASE Release \/ RestartCaddy
  <2>1. NotRunning \in [boot : Boots, cert : 0 .. MaxGeneration, stray : BOOLEAN]
    BY DEF NotRunning, AdminBoot, Boots
  <2> QED
    BY <1>19, <2>1 DEF Release, RestartCaddy, CaddyRestarts, Starting
<1>20. CASE Relock \/ RelockFails
  <2>1. faults' \in 0 .. MaxFaults
    BY <1>20, FaultsCount DEF Relock, RelockFails, FailsUnless
  <2> QED
    BY <1>20, <2>1 DEF Relock, RelockFails
<1>21. CASE Again \/ AgainFails
  <2>1. faults' \in 0 .. MaxFaults /\ journal' \in Journals
    BY <1>14, <1>21, FaultsCount DEF Again, AgainFails, FailsUnless, Records
  <2> QED
    BY <1>12, <1>14, <1>21, <2>1 DEF Again, AgainFails
<1>22. CASE ActivationFailed
  BY <1>22 DEF ActivationFailed
<1>23. CASE Undo \/ UndoFails
  <2>1. journal.previous \in 0 .. MaxGeneration
    BY DEF Journals
  <2>2. faults' \in 0 .. MaxFaults
    BY <1>23, FaultsCount DEF Undo, UndoFails
  <2> QED
    BY <1>23, <2>1, <2>2 DEF Undo, UndoFails
<1>24. CASE RecoverRestored \/ RecoverRetry \/ RecoverPrevious
  <2>1. journal.generation \in 0 .. MaxGeneration
    BY DEF Journals
  <2> QED
    BY <1>24, <2>1 DEF RecoverRestored, RecoverRetry, RecoverPrevious, Found
<1>25. CASE TlsKilled
  <2>1. faults' \in 0 .. MaxFaults
    BY <1>25, FaultsCount DEF TlsKilled
  <2> QED
    BY <1>25, <2>1 DEF TlsKilled, files
<1> QED
  BY <1>1, <1>2, <1>3, <1>4, <1>6, <1>7, <1>8, <1>9, <1>10, <1>11, <1>13, <1>16, <1>17, <1>18, <1>19, <1>20, <1>21, <1>22,
     <1>23, <1>24, <1>25 DEF TlsNext, TlsProgress

LEMMA ApplyTyped == HostInv /\ (ApplyNext \/ ApplyKilled) => TypeOK'
<1> SUFFICES ASSUME HostInv, ApplyNext \/ ApplyKilled PROVE TypeOK'
  OBVIOUS
<1>a. TypeOK /\ ApplyFits
  BY DEF HostInv
<1> USE <1>a, Blank DEF TypeOK, HostTypeOK, TlsTypeOK, ApplyTypeOK, Proceeds, ApplyKeeps, KeepsConfiguration, coordinator, service,
        Finishes, ApplyRests, ApplySteps
<1>1. CASE ApplyLocks \/ CheckUnchanged \/ Check \/ Backup \/ CommitManifest \/ Clear \/ UndoManifest \/ UndoBoot
           \/ UndoInvalid \/ UndoClear \/ ApplyRestarted
  <2>1. pending.desiredPrevious \in 0 .. MaxRevision
    BY DEF Markers
  <2> QED
    BY <1>1, <2>1 DEF ApplyLocks, CheckUnchanged, Check, Backup, CommitManifest, Clear, UndoManifest, UndoBoot, UndoInvalid, UndoClear,
                ApplyRestarted
<1>2. Candidate \in Boots
  BY LoadedIs DEF Candidate
<1>3. CASE Mark \/ WriteBoot
  <2>1. [set |-> TRUE, previous |-> boot, candidate |-> Candidate, desiredPrevious |-> desired, desiredCandidate |-> wanted] \in Markers
    BY <1>2 DEF Markers
  <2> QED
    BY <1>2, <1>3, <2>1 DEF Mark, WriteBoot
<1>4. ASSUME FailedReload PROVE running' \in [boot : Boots, cert : 0 .. MaxGeneration, stray : BOOLEAN]
  BY <1>4, LoadedIs DEF FailedReload, ReloadResidue
<1>5. CASE LoadBoot \/ UndoLoad
  BY <1>5, LoadedIs DEF LoadBoot, UndoLoad
<1>6. CASE CheckFails \/ WriteFails \/ ApplyKilled
  <2>1. faults' \in 0 .. MaxFaults
    BY <1>6, FaultsCount DEF CheckFails, WriteFails, ApplyKilled, FailsUnless
  <2> QED
    BY <1>2, <1>6, <2>1 DEF CheckFails, WriteFails, ApplyKilled, files
<1>7. CASE LoadBootFails \/ UndoNeedsRestart
  <2>1. faults' \in 0 .. MaxFaults
    BY <1>7, FaultsCount DEF LoadBootFails, UndoNeedsRestart, FailsUnless
  <2> QED
    BY <1>4, <1>7, <2>1 DEF LoadBootFails, UndoNeedsRestart
<1>8. CASE RestartForApply
  BY <1>8 DEF RestartForApply, CaddyRestarts, NotRunning, AdminBoot, Boots, Starting
<1>9. ASSUME NEW r \in Revisions, ApplyStarts(r) PROVE TypeOK'
  BY <1>9 DEF ApplyStarts, Revisions
<1> QED
  BY <1>1, <1>3, <1>5, <1>6, <1>7, <1>8, <1>9 DEF ApplyNext, ApplyProgress

LEMMA CaddyTyped == TypeOK /\ (CaddyNext \/ HostRestarts) => TypeOK'
<1> SUFFICES ASSUME TypeOK, CaddyNext \/ HostRestarts PROVE TypeOK'
  OBVIOUS
<1> USE Blank DEF TypeOK, HostTypeOK, TlsTypeOK, ApplyTypeOK, Step, files, coordinator, activation, Starting
<1>1. CASE CaddyStarts \/ StartLocks \/ NothingPending \/ PendingBoot \/ PendingClear
  BY <1>1 DEF CaddyStarts, StartLocks, NothingPending, PendingBoot, PendingClear
<1>2. CASE DiskRecord \/ DiskRestored
  <2>1. journal' \in Journals
    BY <1>2, DiskNoted DEF DiskRecord, DiskRestored
  <2> QED
    BY <1>2, <2>1 DEF DiskRecord, DiskRestored
<1>3. CASE DiskPointer \/ DiskBoot \/ PendingManifest
  <2>1. /\ journal.generation \in 0 .. MaxGeneration /\ journal.previous \in 0 .. MaxGeneration
        /\ journal.candidateBoot \in Boots /\ journal.previousBoot \in Boots /\ pending.desiredPrevious \in 0 .. MaxRevision
    BY DEF Journals, Markers
  <2> QED
    BY <1>3, <2>1 DEF DiskPointer, DiskBoot, PendingManifest
<1>4. ASSUME NEW outcome \in {"restarted", "restartFailed"}, JobEnds(outcome)
      PROVE  TlsTypeOK' /\ ApplyTypeOK'
  BY <1>4 DEF JobEnds, TlsSteps, ApplySteps
<1>5. CASE Launch
  BY <1>4, <1>5, LoadedIs DEF Launch
<1>6. CASE StartFails
  <2>1. faults' \in 0 .. MaxFaults
    BY <1>6, FaultsCount DEF StartFails, FailsUnless
  <2> QED
    BY <1>4, <1>6, <2>1 DEF StartFails
<1>7. CASE CaddyCrash \/ OperatorReload \/ OperatorReloadFails \/ HostRestarts
  <2>1. faults' \in 0 .. MaxFaults
    BY <1>7, FaultsCount DEF CaddyCrash, OperatorReload, OperatorReloadFails, HostRestarts
  <2>2. running' \in [boot : Boots, cert : 0 .. MaxGeneration, stray : BOOLEAN]
    <3>1. NotRunning \in [boot : Boots, cert : 0 .. MaxGeneration, stray : BOOLEAN]
      BY DEF NotRunning, AdminBoot, Boots
    <3>2. Loaded \in [boot : Boots, cert : 0 .. MaxGeneration, stray : BOOLEAN]
      BY LoadedIs
    <3> QED
      BY <1>7, <3>1, <3>2 DEF CaddyCrash, OperatorReload, OperatorReloadFails, HostRestarts, ReloadResidue
  <2> QED
    BY <1>7, <2>1, <2>2 DEF CaddyCrash, OperatorReload, OperatorReloadFails, HostRestarts, TlsRests, ApplyRests, TlsSteps, ApplySteps
<1>8. ASSUME NEW g \in Generations, Expire(g) PROVE TypeOK'
  BY <1>8, FaultsCount DEF Expire, service
<1> QED
  BY <1>1, <1>2, <1>3, <1>5, <1>6, <1>7, <1>8 DEF CaddyNext, CaddyProgress

-----------------------------------------------------------------------------
(* The lock *)

LEMMA LockKept == HostInv /\ Next => LockFits'
<1> SUFFICES ASSUME TypeOK, LockFits, ContextFits, RetainFits, JournalFits, ApplyFits, Next PROVE LockFits'
  BY DEF HostInv, TlsFits
<1> USE DEF TypeOK, HostTypeOK, TlsTypeOK, ApplyTypeOK, LockFits, TlsLocked, TlsSteps, ApplyLocked, ApplySteps, CaddyLocked, Starting,
        Goes, TlsKeeps, KeepsDisk, KeepsStore, KeepsSelection, activation, service, coordinator, Ends, TlsRests,
        Proceeds, ApplyKeeps, KeepsConfiguration, Finishes, ApplyRests
<1>1. CASE RenewStarts \/ TlsLocks
  BY <1>1 DEF RenewStarts, TlsLocks
<1>2. CASE \/ RecoverNothing \/ Issue \/ PublishInvalid \/ PublishUnchanged \/ PublishNew \/ CreateGeneration \/ Preflight \/ PreflightFails
           \/ Discard \/ Prepare \/ Switch \/ SwitchFails \/ Unprepare \/ RecordSwitch
  BY <1>2 DEF RecoverNothing, Issue, PublishInvalid, PublishUnchanged, PublishNew, CreateGeneration, Preflight, PreflightFails,
              Discard, Prepare, Switch, SwitchFails, Unprepare, RecordSwitch
<1>3. CASE \/ Activate \/ ActivateFails \/ Load \/ LoadFails \/ LoadNeedsRestart \/ Release \/ Again \/ AgainFails \/ CommitPublication
           \/ CommitOutcome \/ Retire \/ Unjournal \/ Purge \/ ActivationFailed \/ Undo \/ UndoFails \/ RecordUndo \/ Blame
           \/ RecoverRestored \/ RecoverRetry \/ RecoverPrevious
  BY <1>3 DEF Activate, ActivateFails, Load, LoadFails, LoadNeedsRestart, Release, Again, AgainFails, CommitPublication,
              CommitOutcome, Retire, Unjournal, Purge, ActivationFailed, Undo, UndoFails, RecordUndo, Blame, RecoverRestored,
              RecoverRetry, RecoverPrevious, Found
<1>4. CASE RestartCaddy \/ RestartForApply
  BY <1>4 DEF RestartCaddy, RestartForApply, CaddyRestarts
<1>5. CASE Relock \/ RelockFails
  <2>1. desired # 0
    BY <1>5 DEF Relock, RelockFails, RetainFits, Retaining, RestartSteps, JournalFits
  <2> QED
    BY <1>5, <2>1 DEF Relock, RelockFails
<1>6. CASE TlsKilled \/ ApplyKilled \/ HostRestarts
  BY <1>6 DEF TlsKilled, ApplyKilled, HostRestarts, files
<1>7. CASE \/ ApplyLocks \/ CheckUnchanged \/ Check \/ CheckFails \/ Backup \/ Mark \/ WriteBoot \/ LoadBoot \/ LoadBootFails
           \/ CommitManifest \/ Clear \/ WriteFails \/ UndoManifest \/ UndoBoot \/ UndoLoad \/ UndoInvalid \/ UndoNeedsRestart \/ UndoClear
           \/ ApplyRestarted \/ \E r \in Revisions : ApplyStarts(r)
  BY <1>7 DEF ApplyLocks, CheckUnchanged, Check, CheckFails, Backup, Mark, WriteBoot, LoadBoot, LoadBootFails, CommitManifest, Clear,
              WriteFails, UndoManifest, UndoBoot, UndoLoad, UndoInvalid, UndoNeedsRestart, UndoClear, ApplyRestarted, ApplyStarts
<1>8. CASE \/ CaddyStarts \/ StartLocks \/ DiskRecord \/ DiskPointer \/ DiskBoot \/ DiskRestored \/ NothingPending
           \/ PendingManifest \/ PendingBoot \/ PendingClear \/ CaddyCrash \/ OperatorReload \/ OperatorReloadFails
           \/ \E g \in Generations : Expire(g)
  BY <1>8 DEF CaddyStarts, StartLocks, DiskRecord, DiskPointer, DiskBoot, DiskRestored, NothingPending, PendingManifest, PendingBoot,
              PendingClear, CaddyCrash, OperatorReload, OperatorReloadFails, Expire, Step, files, Active, Reloadable
<1>9. CASE Launch \/ StartFails
  BY <1>9 DEF Launch, StartFails, JobEnds, Step, files
<1> QED
  BY <1>1, <1>2, <1>3, <1>4, <1>5, <1>6, <1>7, <1>8, <1>9 DEF Next, TlsNext, TlsProgress, ApplyNext, ApplyProgress, CaddyNext, CaddyProgress

-----------------------------------------------------------------------------
(* The coordinator's contexts *)

LEMMA ContextKept == HostInv /\ Next => ContextFits'
<1> SUFFICES ASSUME ContextFits, Next PROVE ContextFits'
  BY DEF HostInv, TlsFits
<1> USE DEF ContextFits, RestartSteps, Loading, RollingBack, Goes, Ends, TlsRests
<1>1. CASE \/ RenewStarts \/ TlsLocks \/ RecoverNothing \/ Issue \/ PublishInvalid \/ PublishUnchanged \/ PublishNew \/ CreateGeneration
           \/ Preflight \/ PreflightFails \/ Discard \/ Prepare \/ Switch \/ SwitchFails \/ Unprepare \/ RecordSwitch
  BY <1>1 DEF RenewStarts, TlsLocks, RecoverNothing, Issue, PublishInvalid, PublishUnchanged, PublishNew, CreateGeneration, Preflight,
              PreflightFails, Discard, Prepare, Switch, SwitchFails, Unprepare, RecordSwitch
<1>2. CASE \/ Activate \/ ActivateFails \/ Load \/ LoadFails \/ LoadNeedsRestart \/ Release \/ RestartCaddy \/ Relock \/ RelockFails
           \/ Again \/ AgainFails \/ CommitPublication \/ CommitOutcome \/ Retire \/ Unjournal \/ Purge
  BY <1>2 DEF Activate, ActivateFails, Load, LoadFails, LoadNeedsRestart, Release, RestartCaddy, Relock, RelockFails, Again, AgainFails,
              CommitPublication, CommitOutcome, Retire, Unjournal, Purge
<1>3. CASE ActivationFailed \/ Undo \/ UndoFails \/ RecordUndo \/ Blame \/ RecoverRestored \/ RecoverRetry \/ RecoverPrevious
  BY <1>3 DEF ActivationFailed, Undo, UndoFails, RecordUndo, Blame, RecoverRestored, RecoverRetry, RecoverPrevious, Found
<1>4. CASE TlsKilled \/ HostRestarts
  BY <1>4 DEF TlsKilled, HostRestarts
<1>5. CASE Launch \/ StartFails
  BY <1>5 DEF Launch, StartFails, JobEnds
<1>6. ASSUME UNCHANGED coordinator PROVE ContextFits'
  BY <1>6 DEF coordinator
<1>7. ApplyNext \/ ApplyKilled => UNCHANGED coordinator
  BY DEF ApplyNext, ApplyProgress, ApplyKilled, ApplyLocks, CheckUnchanged, Check, CheckFails, Backup, Mark, WriteBoot, LoadBoot,
         LoadBootFails, CommitManifest, Clear, WriteFails, UndoManifest, UndoBoot, UndoLoad, UndoInvalid, UndoNeedsRestart, UndoClear,
         RestartForApply, ApplyRestarted, ApplyStarts, ApplyKeeps
<1>8. CaddyNext => Launch \/ StartFails \/ UNCHANGED coordinator
  BY DEF CaddyNext, CaddyProgress, CaddyStarts, StartLocks, DiskRecord, DiskPointer, DiskBoot, DiskRestored, NothingPending,
         PendingManifest, PendingBoot, PendingClear, CaddyCrash, OperatorReload, OperatorReloadFails, Expire
<1> QED
  BY <1>1, <1>2, <1>3, <1>4, <1>5, <1>6, <1>7, <1>8 DEF Next, TlsNext, TlsProgress

-----------------------------------------------------------------------------
(* The records *)

RecordsFit == StoreFits /\ JournalFits /\ MarkerFits /\ SettledFits

LEMMA Journal ==
    ASSUME TypeOK
    PROVE  /\ journal.status \in JournalStatuses /\ journal.previous \in 0 .. MaxGeneration
           /\ journal.generation \in 0 .. MaxGeneration /\ journal.previousBoot \in Boots /\ journal.candidateBoot \in Boots
           /\ pending.previous \in Boots /\ pending.candidate \in Boots /\ pending.set \in BOOLEAN
           /\ pending.desiredPrevious \in 0 .. MaxRevision /\ pending.desiredCandidate \in 0 .. MaxRevision
           /\ boot.tls \in BOOLEAN
BY DEF TypeOK, HostTypeOK, Journals, Markers, Boots

\* How Caddy comes to serve a configuration, and goes on to.
LEMMA ServesLoaded ==
    ASSUME running' = Loaded, UNCHANGED <<boot, current>>
    PROVE  Serves'
BY DEF Loaded, Serves

LEMMA ServesStays ==
    ASSUME UNCHANGED <<boot, current>>, Serves, Active' => Active,
           UNCHANGED running \/ FailedReload \/ running' \in ReloadResidue \/ running' = Loaded \/ ~Active'
    PROVE  Serves'
<1>1. CASE running' = Loaded
  BY <1>1, ServesLoaded
<1>2. CASE running' = [running EXCEPT !.stray = TRUE]
  <2>1. ASSUME Active' PROVE running'.boot = running.boot /\ running'.cert = running.cert
    BY <1>2
  <2> QED
    BY <2>1 DEF Serves, Loaded
<1>3. CASE running' = running \/ ~Active'
  BY <1>3 DEF Serves, Loaded
<1> QED
  BY <1>1, <1>2, <1>3 DEF FailedReload, ReloadResidue

LEMMA RecordsStay ==
    ASSUME HostInv, UNCHANGED <<gens, current, boot, desired, pending, lastGood, issued, journal>>,
           Serves => Serves', UNCHANGED retired \/ ~Journaled
    PROVE  RecordsFit'
<1> USE DEF HostInv
<1>1. StoreFits'
  BY DEF StoreFits, SelectionComplete
<1>2. JournalFits'
  BY DEF JournalFits, Journaled, DiskAuthority
<1>3. MarkerFits' /\ SettledFits'
  BY DEF MarkerFits, MarkerAuthority, SettledFits, Settled, Journaled, CommittedIsRendered, Render
<1> QED
  BY <1>1, <1>2, <1>3 DEF RecordsFit

SameTransaction == UNCHANGED <<journal.previous, journal.generation, journal.rev, journal.previousBoot, journal.candidateBoot>>
AtPrevious == current = journal.previous /\ boot = journal.previousBoot
AtCandidate == current = journal.generation /\ boot = journal.candidateBoot

LEMMA StatusMoves ==
    ASSUME HostInv, Journaled, Journaled', SameTransaction,
           UNCHANGED <<gens, retired, current, boot, desired, pending, lastGood, issued>>, Serves => Serves',
           UNCHANGED journal.status \/ journal.status # "restored",
           journal'.status = "restored" => AtPrevious /\ Serves
    PROVE  RecordsFit'
<1> USE DEF HostInv
<1>1. StoreFits'
  BY DEF StoreFits, SelectionComplete
<1>2. JournalFits'
  BY DEF JournalFits, Journaled, DiskAuthority, SameTransaction, AtPrevious
<1>3. ~pending.set
  BY DEF JournalFits
<1>4. MarkerFits' /\ SettledFits'
  BY <1>3 DEF MarkerFits, SettledFits, Settled, Journaled
<1> QED
  BY <1>1, <1>2, <1>4 DEF RecordsFit

LEMMA SelectionMoves ==
    ASSUME HostInv, Journaled, journal.status # "restored",
           UNCHANGED <<gens, retired, journal, desired, pending, lastGood, issued>>,
           current' \in {current, journal.previous, journal.generation}, boot' \in {boot, journal.previousBoot, journal.candidateBoot}
    PROVE  RecordsFit'
<1> USE DEF HostInv
<1>1. journal.generation \in gens /\ journal.previous \in gens \cup {0} /\ ~pending.set /\ DiskAuthority
      /\ journal.previous < journal.generation /\ journal.generation <= issued
      /\ journal.previous \in Nat /\ journal.generation \in Nat /\ issued \in Nat
  BY Journal, Blank DEF JournalFits, TypeOK, HostTypeOK
<1>2. StoreFits'
  BY <1>1 DEF StoreFits, SelectionComplete, DiskAuthority
<1>3. JournalFits'
  BY <1>1 DEF JournalFits, Journaled, DiskAuthority
<1>4. MarkerFits' /\ SettledFits'
  BY <1>1 DEF MarkerFits, SettledFits, Settled, Journaled
<1> QED
  BY <1>2, <1>3, <1>4 DEF RecordsFit

LEMMA JournalEnds ==
    ASSUME HostInv, Journaled, journal' = NoJournal, UNCHANGED <<gens, retired, current, boot, desired, pending, lastGood, issued>>,
           Serves', AtPrevious \/ AtCandidate
    PROVE  RecordsFit'
<1> USE DEF HostInv
<1>1. ~Journaled' /\ ~pending.set
  BY Blank DEF Journaled, JournalFits
<1>2. journal.previous \in Nat /\ journal.generation \in Nat /\ journal.generation # 0
  BY Journal, Blank DEF JournalFits
<1>3. boot = Render(desired)
  BY <1>2 DEF JournalFits, AtPrevious, AtCandidate, Render
<1>4. StoreFits'
  BY DEF StoreFits, SelectionComplete
<1>5. JournalFits' /\ MarkerFits'
  BY <1>1 DEF JournalFits, MarkerFits
<1>6. SettledFits'
  BY <1>3 DEF SettledFits, CommittedIsRendered, Render
<1> QED
  BY <1>4, <1>5, <1>6 DEF RecordsFit

LEMMA TlsRecords == HostInv /\ (TlsNext \/ TlsKilled) => RecordsFit'
<1> SUFFICES ASSUME HostInv, TlsNext \/ TlsKilled PROVE RecordsFit'
  OBVIOUS
<1>a. TypeOK /\ ContextFits /\ PublishFits /\ RetainFits /\ SelectionFits /\ StoreFits /\ JournalFits /\ MarkerFits /\ SettledFits /\ LockFits
  BY DEF HostInv, TlsFits
<1> USE DEF Goes, TlsKeeps, KeepsStore, KeepsSelection, KeepsDisk, activation, service
<1>1. CASE \/ RenewStarts \/ TlsLocks \/ PreflightFails \/ ActivateFails \/ Release \/ Relock \/ RelockFails \/ ActivationFailed
           \/ RecoverRestored \/ RecoverRetry \/ RecoverPrevious \/ TlsKilled
  <2>1. UNCHANGED <<gens, retired, current, boot, desired, pending, lastGood, issued, journal, caddy, running>>
    BY <1>1 DEF RenewStarts, TlsLocks, PreflightFails, ActivateFails, Release, Relock, RelockFails, ActivationFailed, RecoverRestored,
                RecoverRetry, RecoverPrevious, Found, TlsKilled, files
  <2>2. Serves => Serves'
    BY <2>1 DEF Serves, Active, Loaded
  <2> QED
    BY <2>1, <2>2, RecordsStay
<1>2. CASE RecoverNothing \/ PublishInvalid \/ PublishUnchanged \/ PublishNew \/ Purge
  <2>1. UNCHANGED <<gens, current, boot, desired, pending, lastGood, issued, journal, caddy, running>>
    BY <1>2 DEF RecoverNothing, PublishInvalid, PublishUnchanged, PublishNew, Purge
  <2>2. ~Journaled
    BY <1>a, <1>2 DEF RecoverNothing, PublishInvalid, PublishUnchanged, PublishNew, Purge, PublishFits, Unjournaled
  <2>3. Serves => Serves'
    BY <2>1 DEF Serves, Active, Loaded
  <2> QED
    BY <2>1, <2>2, <2>3, RecordsStay
<1>3. CASE RestartCaddy
  <2>1. Serves'
    BY <1>3 DEF RestartCaddy, CaddyRestarts, Serves, Active
  <2> QED
    BY <1>3, <2>1, RecordsStay DEF RestartCaddy
<1>4. CASE Issue \/ CreateGeneration \/ Discard
  <2>1. UNCHANGED <<retired, current, boot, desired, pending, lastGood, journal, caddy, running>>
    BY <1>4 DEF Issue, CreateGeneration, Discard
  <2>2. ~Journaled /\ ~Journaled'
    BY <1>a, <1>4, <2>1 DEF Issue, CreateGeneration, Discard, PublishFits, Unjournaled, Publishing, Journaled
  <2>3. Serves => Serves'
    BY <2>1 DEF Serves, Active, Loaded
  <2>4. StoreFits'
    <3>1. current \in Nat /\ issued \in Nat /\ \A g \in gens : g \in Nat
      BY <1>a, Blank DEF TypeOK, HostTypeOK, Generations
    <3>2. CASE Issue
      BY <1>a, <3>1, <3>2 DEF Issue, StoreFits, SelectionComplete, Generations
    <3>3. CASE CreateGeneration \/ Discard
      BY <1>a, <3>1, <3>3 DEF CreateGeneration, Discard, StoreFits, SelectionComplete, PublishFits, Publishing
    <3> QED
      BY <1>4, <3>2, <3>3
  <2>5. JournalFits' /\ MarkerFits' /\ SettledFits'
    BY <1>a, <2>1, <2>2, <2>3 DEF JournalFits, MarkerFits, MarkerAuthority, SettledFits, Settled, CommittedIsRendered, Render
  <2> QED
    BY <2>4, <2>5 DEF RecordsFit
<1>5. CASE Prepare
  <2>1. /\ ~Journaled /\ ~pending.set /\ cand = issued /\ cand # current /\ cand \in gens /\ desired # 0 /\ current <= issued
        /\ current # 0 => current \in gens
    BY <1>a, <1>5 DEF Prepare, PublishFits, Unjournaled, Publishing, LockFits, TlsLocked, TlsSteps, StoreFits, SelectionComplete
  <2>2. boot = Render(desired) /\ Serves
    BY <1>a, <2>1 DEF SettledFits, Settled, CommittedIsRendered
  <2>3. UNCHANGED <<gens, retired, current, boot, desired, pending, lastGood, issued>>
    BY <1>5 DEF Prepare
  <2>4. /\ journal'.status = "prepared" /\ journal'.previous = current /\ journal'.generation = cand /\ journal'.rev = desired
        /\ journal'.previousBoot = boot /\ journal'.candidateBoot = [rev |-> desired, tls |-> TRUE]
    BY <1>5 DEF Prepare, Records, Prepared
  <2>5. current \in Nat /\ issued \in Nat
    BY <1>a, Blank DEF TypeOK, HostTypeOK
  <2>6. StoreFits' /\ MarkerFits' /\ SettledFits'
    BY <1>a, <2>1, <2>3, <2>4 DEF StoreFits, SelectionComplete, MarkerFits, SettledFits, Settled, Journaled
  <2>7. JournalFits'
    BY <2>1, <2>2, <2>3, <2>4, <2>5 DEF JournalFits, Journaled, DiskAuthority, Render
  <2> QED
    BY <2>6, <2>7 DEF RecordsFit
<1>6. CASE Switch \/ SwitchFails \/ Activate \/ Undo \/ UndoFails
  <2>1. Journaled /\ journal.status # "restored" /\ cand = journal.generation
    BY <1>a, <1>6 DEF Switch, SwitchFails, Activate, Undo, UndoFails, RetainFits, Retaining
  <2>2. UNCHANGED <<gens, retired, journal, desired, pending, lastGood, issued>>
    BY <1>6 DEF Switch, SwitchFails, Activate, Undo, UndoFails
  <2>3. current' \in {current, journal.previous, journal.generation} /\ boot' \in {boot, journal.previousBoot, journal.candidateBoot}
    BY <1>6, <2>1 DEF Switch, SwitchFails, Activate, Undo, UndoFails, SelectedBoot
  <2> QED
    BY <2>1, <2>2, <2>3, SelectionMoves
<1>7. CASE Unprepare \/ CommitPublication \/ Unjournal
  <2>1. /\ Journaled /\ journal' = NoJournal /\ UNCHANGED <<gens, retired, current, boot, desired, pending, lastGood, issued, caddy, running>>
    BY <1>a, <1>7 DEF Unprepare, CommitPublication, Unjournal, RetainFits, Retaining, Ending, Records
  <2>2. AtPrevious \/ AtCandidate
    BY <1>a, <1>7, <2>1 DEF Unprepare, CommitPublication, Unjournal, SelectionFits, RetainFits, JournalFits, AtPrevious, AtCandidate
  <2>3. Serves /\ Serves'
    BY <1>a, <1>7, <2>1 DEF Unprepare, CommitPublication, Unjournal, SelectionFits, Serves, Active, Loaded
  <2> QED
    BY <2>1, <2>2, <2>3, JournalEnds
<1>8. CASE Preflight \/ RecordSwitch \/ CommitOutcome \/ RecordUndo \/ Blame
  <2>1. UNCHANGED <<gens, retired, current, boot, desired, pending, lastGood, issued, caddy, running>>
    BY <1>8 DEF Preflight, RecordSwitch, CommitOutcome, RecordUndo, Blame
  <2>2. Serves => Serves'
    BY <2>1 DEF Serves, Active, Loaded
  <2>3. CASE UNCHANGED journal
    BY <2>1, <2>2, <2>3, RecordsStay
  <2>4. ASSUME NEW status \in JournalStatuses \ {"none"}, HasStatus(status), Journaled, journal.status # "restored",
               status = "restored" => AtPrevious /\ Serves
        PROVE  RecordsFit'
    <3>1. SameTransaction /\ journal'.status = status
      BY <1>a, <2>4, Statused DEF SameTransaction, TypeOK, HostTypeOK
    <3> QED
      BY <2>1, <2>2, <2>4, <3>1, StatusMoves DEF Journaled
  <2>5. CASE Preflight
    BY <1>a, <2>3, <2>4, <2>5 DEF Preflight, RetainFits, Retaining, JournalStatuses
  <2>6. CASE RecordSwitch \/ RecordUndo \/ Blame
    BY <1>a, <2>4, <2>6 DEF RecordSwitch, RecordUndo, Blame, RetainFits, Retaining, JournalStatuses
  <2>7. CASE CommitOutcome
    <3>1. tctx # "retry" => AtPrevious /\ Serves
      BY <1>a, <2>7 DEF CommitOutcome, ContextFits, SelectionFits, AtPrevious, RollingBack, Loading
    <3> QED
      BY <1>a, <2>4, <2>7, <3>1 DEF CommitOutcome, RetainFits, Retaining, JournalStatuses
  <2> QED
    BY <1>8, <2>5, <2>6, <2>7
<1>9. CASE Load \/ LoadFails \/ LoadNeedsRestart \/ AgainFails
  <2>1. UNCHANGED <<gens, retired, current, boot, desired, pending, lastGood, issued, caddy>>
    BY <1>9 DEF Load, LoadFails, LoadNeedsRestart, AgainFails
  <2>2. Serves => Serves'
    BY <1>9, <2>1, ServesStays DEF Load, LoadFails, LoadNeedsRestart, AgainFails, Active
  <2>3. CASE UNCHANGED journal
    BY <2>1, <2>2, <2>3, RecordsStay
  <2>4. CASE ~UNCHANGED journal
    <3>1. Journaled /\ journal.status # "restored"
      BY <1>a, <1>9, <2>4 DEF Load, LoadFails, LoadNeedsRestart, AgainFails, RetainFits, Retaining, RollingBack
    <3>2. PICK restart \in BOOLEAN : journal' = [journal EXCEPT !.restart = restart]
      BY <1>9, <2>4 DEF Load, LoadFails, LoadNeedsRestart, AgainFails, Records, Verified
    <3>3. SameTransaction /\ UNCHANGED journal.status
      BY <1>a, <3>2, RestartNoted DEF SameTransaction, TypeOK, HostTypeOK
    <3> QED
      BY <2>1, <2>2, <3>1, <3>3, StatusMoves DEF Journaled
  <2> QED
    BY <2>3, <2>4
<1>10. CASE Again
  <2>1. Journaled /\ journal.status # "restored" /\ AtPrevious
    BY <1>a, <1>10 DEF Again, RetainFits, Retaining, SelectionFits, ContextFits, AtPrevious
  <2>2. UNCHANGED <<gens, retired, current, boot, desired, pending, lastGood, issued, caddy>>
    BY <1>10, <2>1 DEF Again, AtPrevious, SelectedBoot
  <2>3. SameTransaction /\ UNCHANGED journal.status
    BY <1>a, <1>10, RestartNoted DEF Again, Records, Verified, SameTransaction, TypeOK, HostTypeOK
  <2>4. Serves'
    BY <1>10, <2>2, ServesLoaded DEF Again
  <2> QED
    BY <2>1, <2>2, <2>3, <2>4, StatusMoves DEF Journaled
<1>11. CASE Retire
  <2>1. /\ Journaled /\ journal.status = "restored" /\ cand = journal.generation /\ AtPrevious /\ journal.previous # journal.generation
    BY <1>a, <1>11, Journal, Blank DEF Retire, RetainFits, Ending, JournalFits, AtPrevious
  <2>2. UNCHANGED <<current, boot, desired, pending, lastGood, issued, journal, caddy, running>> /\ gens' = gens \ {cand} /\ cand \in retired'
    BY <1>11 DEF Retire
  <2>3. StoreFits'
    BY <1>a, <2>1, <2>2 DEF StoreFits, SelectionComplete, AtPrevious
  <2>4. JournalFits'
    BY <1>a, <2>1, <2>2, Journal, Blank DEF JournalFits, Journaled, DiskAuthority, Serves, Active, Loaded, AtPrevious
  <2>5. MarkerFits' /\ SettledFits'
    BY <1>a, <2>1, <2>2 DEF MarkerFits, JournalFits, SettledFits, Settled, Journaled
  <2> QED
    BY <2>3, <2>4, <2>5 DEF RecordsFit
<1> QED
  BY <1>1, <1>2, <1>3, <1>4, <1>5, <1>6, <1>7, <1>8, <1>9, <1>10, <1>11 DEF TlsNext, TlsProgress

-----------------------------------------------------------------------------
(* The coordinator *)

\* The steps that begin a run or look for a publication.
Beginning == RenewStarts \/ TlsLocks \/ RecoverNothing \/ Issue \/ PublishInvalid \/ PublishUnchanged \/ PublishNew
\* Those that write a record.
Recording ==
    \/ Preflight \/ Prepare \/ Unprepare \/ RecordSwitch \/ Load \/ LoadFails \/ LoadNeedsRestart \/ Again \/ AgainFails
    \/ CommitPublication \/ CommitOutcome \/ RecordUndo \/ Blame \/ Unjournal
\* And the others.
Proceeding ==
    \/ CreateGeneration \/ PreflightFails \/ Discard \/ Switch \/ SwitchFails \/ Activate \/ ActivateFails \/ Release \/ RestartCaddy
    \/ Relock \/ RelockFails \/ Retire \/ Purge \/ ActivationFailed \/ Undo \/ UndoFails
    \/ RecoverRestored \/ RecoverRetry \/ RecoverPrevious

LEMMA TlsNextIs == TlsNext <=> Beginning \/ Recording \/ Proceeding
BY DEF TlsNext, TlsProgress, Beginning, Recording, Proceeding

LEMMA JournalStands ==
    ASSUME HostInv, Beginning \/ Proceeding \/ TlsKilled
    PROVE  UNCHANGED journal
BY DEF Beginning, Proceeding, RenewStarts, TlsLocks, RecoverNothing, Issue, PublishInvalid, PublishUnchanged, PublishNew,
       CreateGeneration, PreflightFails, Discard, Switch, SwitchFails, Activate, ActivateFails, Release, RestartCaddy, Relock,
       RelockFails, Retire, Purge, ActivationFailed, Undo, UndoFails, RecoverRestored, RecoverRetry, RecoverPrevious, Found, KeepsDisk,
       TlsKilled, files

\* What the recording steps write.
LEMMA Written ==
    ASSUME HostInv, Recording
    PROVE  /\ UNCHANGED <<gens, current, issued, pending, desired>>
           /\ \/ UNCHANGED journal
              \/ Prepare
              \/ (Unprepare \/ CommitPublication \/ Unjournal) /\ ~Journaled'
              \/ /\ SameTransaction
                 /\ UNCHANGED journal.status \/ journal'.status \in JournalStatuses \ {"none", "restored"} \/ CommitOutcome
<1>a. journal \in Journals
  BY DEF HostInv, TypeOK, HostTypeOK
<1> USE DEF Recording
<1>1. UNCHANGED <<gens, current, issued, pending, desired>>
  BY DEF Preflight, Prepare, Unprepare, RecordSwitch, Load, LoadFails, LoadNeedsRestart, Again, AgainFails, CommitPublication,
         CommitOutcome, RecordUndo, Blame, Unjournal, TlsKeeps, KeepsStore, KeepsSelection
<1>2. CASE Unprepare \/ CommitPublication \/ Unjournal
  BY <1>1, <1>2, Blank DEF Unprepare, CommitPublication, Unjournal, Records, Journaled
<1>3. CASE Preflight \/ RecordSwitch \/ CommitOutcome \/ RecordUndo \/ Blame
  <2>1. CASE UNCHANGED journal
    BY <1>1, <2>1
  <2>2. CASE CommitOutcome
    <3>1. PICK status \in JournalStatuses : HasStatus(status)
      BY <2>2 DEF CommitOutcome, JournalStatuses
    <3>2. SameTransaction
      BY <1>a, <3>1, Statused DEF SameTransaction
    <3> QED
      BY <1>1, <2>2, <3>2
  <2>3. CASE ~CommitOutcome /\ ~UNCHANGED journal
    <3>1. PICK status \in JournalStatuses \ {"none", "restored"} : HasStatus(status)
      BY <1>3, <2>3 DEF Preflight, RecordSwitch, RecordUndo, Blame, JournalStatuses
    <3>2. SameTransaction /\ journal'.status = status
      BY <1>a, <3>1, Statused DEF SameTransaction
    <3> QED
      BY <1>1, <3>2
  <2> QED
    BY <2>1, <2>2, <2>3
<1>4. CASE Load \/ LoadFails \/ LoadNeedsRestart \/ Again \/ AgainFails
  <2>1. UNCHANGED journal \/ \E restart \in BOOLEAN : journal' = [journal EXCEPT !.restart = restart]
    BY <1>4 DEF Load, LoadFails, LoadNeedsRestart, Again, AgainFails, Records, Verified
  <2> QED
    BY <1>1, <1>a, <2>1, RestartNoted DEF SameTransaction
<1> QED
  BY <1>1, <1>2, <1>3, <1>4

LEMMA PublishKept == HostInv /\ (TlsNext \/ TlsKilled) => PublishFits'
<1> SUFFICES ASSUME HostInv, TlsNext \/ TlsKilled PROVE PublishFits'
  OBVIOUS
<1>a. TypeOK /\ ContextFits /\ PublishFits /\ RetainFits /\ SelectionFits /\ JournalFits
  BY DEF HostInv, TlsFits
<1> USE <1>a DEF ContextFits, Loading, PublishFits, Unjournaled, Publishing, RestartSteps, Goes, TlsKeeps, KeepsDisk, KeepsStore, KeepsSelection, Journaled, Ends, TlsRests
<1>1. CASE Beginning
  <2>1. UNCHANGED <<journal, current, pending>>
    BY <1>1 DEF Beginning, RenewStarts, TlsLocks, RecoverNothing, Issue, PublishInvalid, PublishUnchanged, PublishNew
  <2> QED
    BY <1>1, <2>1 DEF Beginning, RenewStarts, TlsLocks, RecoverNothing, Issue, PublishInvalid, PublishUnchanged, PublishNew
<1>2. CASE Proceeding \/ TlsKilled
  <2>1. UNCHANGED journal
    BY <1>2, JournalStands
  <2>2. CASE CreateGeneration \/ PreflightFails \/ Discard \/ TlsKilled
    BY <2>1, <2>2 DEF CreateGeneration, PreflightFails, Discard, TlsKilled, files
  <2>3. CASE Switch \/ SwitchFails \/ Activate \/ ActivateFails \/ Release \/ RestartCaddy \/ Relock \/ RelockFails
    BY <2>1, <2>3 DEF Switch, SwitchFails, Activate, ActivateFails, Release, RestartCaddy, Relock, RelockFails
  <2>4. CASE Retire \/ Purge \/ ActivationFailed \/ Undo \/ UndoFails
    BY <2>1, <2>4 DEF Retire, Purge, ActivationFailed, Undo, UndoFails
  <2>5. CASE RecoverRestored \/ RecoverRetry \/ RecoverPrevious
    BY <2>1, <2>5 DEF RecoverRestored, RecoverRetry, RecoverPrevious, Found
  <2> QED
    BY <1>2, <2>2, <2>3, <2>4, <2>5 DEF Proceeding
<1>3. CASE Recording
  <2>1. UNCHANGED <<gens, current, issued, pending>>
    BY <1>3, Written
  <2>2. CASE Preflight
    BY <2>1, <2>2 DEF Preflight, Acceptable
  <2>3. CASE Prepare
    BY <2>3 DEF Prepare
  <2>4. CASE Unprepare \/ Unjournal \/ CommitPublication
    <3>1. ~Journaled'
      BY <2>4, Blank DEF Unprepare, Unjournal, CommitPublication, Records
    <3>2. tpc = "unprepare" => cand # current
      BY Journal, Blank DEF SelectionFits, RetainFits, Retaining, JournalFits
    <3> QED
      BY <2>4, <3>1, <3>2 DEF Unprepare, Unjournal, CommitPublication
  <2>5. CASE RecordSwitch \/ Load \/ LoadFails \/ LoadNeedsRestart
    BY <2>5 DEF RecordSwitch, Load, LoadFails, LoadNeedsRestart
  <2>6. CASE Again \/ AgainFails \/ CommitOutcome \/ RecordUndo \/ Blame
    BY <2>6 DEF Again, AgainFails, CommitOutcome, RecordUndo, Blame
  <2> QED
    BY <1>3, <2>2, <2>3, <2>4, <2>5, <2>6 DEF Recording
<1> QED
  BY <1>1, <1>2, <1>3, TlsNextIs

LEMMA RetainKept == HostInv /\ (TlsNext \/ TlsKilled) => RetainFits'
<1> SUFFICES ASSUME HostInv, TlsNext \/ TlsKilled PROVE RetainFits'
  OBVIOUS
<1>a. TypeOK /\ ContextFits /\ PublishFits /\ RetainFits /\ JournalFits
  BY DEF HostInv, TlsFits
<1> USE DEF RetainFits, Retaining, Ending, RestartSteps, Goes, Ends, TlsRests, Journaled
<1>1. CASE Beginning
  <2>1. UNCHANGED <<journal, gens>>
    BY <1>1 DEF Beginning, RenewStarts, TlsLocks, RecoverNothing, Issue, PublishInvalid, PublishUnchanged, PublishNew, TlsKeeps,
                KeepsDisk, KeepsStore
  <2> QED
    BY <1>a, <1>1, <2>1 DEF Beginning, RenewStarts, TlsLocks, RecoverNothing, Issue, PublishInvalid, PublishUnchanged, PublishNew
<1>2. CASE Proceeding \/ TlsKilled
  <2>1. UNCHANGED journal
    BY <1>2, JournalStands
  <2>2. CASE CreateGeneration \/ PreflightFails \/ Discard \/ TlsKilled
    BY <1>a, <2>1, <2>2 DEF CreateGeneration, PreflightFails, Discard, TlsKilled, ContextFits
  <2>3. CASE Switch \/ SwitchFails \/ Activate \/ ActivateFails \/ Release \/ RestartCaddy \/ Relock \/ RelockFails
    BY <1>a, <2>1, <2>3 DEF Switch, SwitchFails, Activate, ActivateFails, Release, RestartCaddy, Relock, RelockFails
  <2>4. CASE Retire \/ Purge \/ ActivationFailed \/ Undo \/ UndoFails
    BY <1>a, <2>1, <2>4 DEF Retire, Purge, ActivationFailed, Undo, UndoFails, ContextFits, RollingBack
  <2>5. CASE RecoverRestored \/ RecoverRetry \/ RecoverPrevious
    BY <1>a, <2>1, <2>5 DEF RecoverRestored, RecoverRetry, RecoverPrevious, Found, TlsKeeps, KeepsDisk, KeepsStore
  <2> QED
    BY <1>2, <2>2, <2>3, <2>4, <2>5 DEF Proceeding
<1>3. CASE Recording
  <2>1. UNCHANGED gens
    BY <1>3, Written
  <2>2. ASSUME NEW status \in JournalStatuses, HasStatus(status)
        PROVE  journal'.status = status /\ journal'.generation = journal.generation
    BY <1>a, <2>2, Statused DEF TypeOK, HostTypeOK
  <2>3. CASE Preflight
    <3>1. UNCHANGED journal \/ (tctx = "retry" /\ journal'.status = "retry_pending" /\ journal'.generation = journal.generation)
      BY <2>2, <2>3 DEF Preflight, JournalStatuses
    <3> QED
      BY <1>a, <2>3, <3>1 DEF Preflight, ContextFits
  <2>4. CASE Prepare
    BY <2>4 DEF Prepare, Records, Prepared
  <2>5. CASE Unprepare \/ Unjournal \/ CommitPublication
    BY <1>a, <2>5 DEF Unprepare, Unjournal, CommitPublication
  <2>6. CASE RecordSwitch \/ RecordUndo \/ Blame
    <3>1. journal'.status \in {"switched", "rollback_pending", "rollback_failed"} /\ journal'.generation = journal.generation
      BY <2>2, <2>6 DEF RecordSwitch, RecordUndo, Blame, JournalStatuses
    <3> QED
      BY <1>a, <2>6, <3>1 DEF RecordSwitch, RecordUndo, Blame
  <2>7. CASE CommitOutcome
    <3>1. journal'.status = (IF tctx = "retry" THEN "recovered" ELSE "restored") /\ journal'.generation = journal.generation
      BY <2>2, <2>7 DEF CommitOutcome, JournalStatuses
    <3> QED
      BY <1>a, <2>1, <2>7, <3>1 DEF CommitOutcome, JournalFits
  <2>8. CASE Load \/ LoadFails \/ LoadNeedsRestart \/ Again \/ AgainFails
    <3>1. UNCHANGED <<journal.status, journal.generation>>
      <4>1. UNCHANGED journal \/ \E restart \in BOOLEAN : journal' = [journal EXCEPT !.restart = restart]
        BY <2>8 DEF Load, LoadFails, LoadNeedsRestart, Again, AgainFails, Records, Verified
      <4> QED
        BY <1>a, <4>1, RestartNoted DEF TypeOK, HostTypeOK
    <3> QED
      BY <1>a, <2>8, <3>1 DEF Load, LoadFails, LoadNeedsRestart, Again, AgainFails, ContextFits, RollingBack
  <2> QED
    BY <1>3, <2>3, <2>4, <2>5, <2>6, <2>7, <2>8 DEF Recording
<1> QED
  BY <1>1, <1>2, <1>3, TlsNextIs

LEMMA SelectionKept == HostInv /\ (TlsNext \/ TlsKilled) => SelectionFits'
<1> SUFFICES ASSUME HostInv, TlsNext \/ TlsKilled PROVE SelectionFits'
  OBVIOUS
<1>a. TypeOK /\ ContextFits /\ PublishFits /\ RetainFits /\ SelectionFits /\ JournalFits /\ SettledFits
  BY DEF HostInv, TlsFits
<1> USE DEF SelectionFits, RestartSteps, Goes, Ends, TlsRests, RollingBack, TlsKeeps, KeepsDisk, KeepsStore, KeepsSelection, service
<1>1. CASE Beginning
  BY <1>a, <1>1 DEF Beginning, RenewStarts, TlsLocks, RecoverNothing, Issue, PublishInvalid, PublishUnchanged, PublishNew
<1>2. CASE Proceeding \/ TlsKilled
  <2>1. UNCHANGED journal
    BY <1>2, JournalStands
  <2>2. CASE CreateGeneration \/ PreflightFails \/ Discard \/ TlsKilled
    BY <1>a, <2>1, <2>2 DEF CreateGeneration, PreflightFails, Discard, TlsKilled, ContextFits
  <2>3. CASE Switch \/ SwitchFails
    <3>1. cand = journal.generation /\ tctx \in {"publish", "retry"}
      BY <1>a, <2>3 DEF Switch, SwitchFails, RetainFits, Retaining, ContextFits
    <3>2. CASE Switch
      BY <1>a, <2>1, <3>1, <3>2 DEF Switch, ContextFits
    <3>3. CASE SwitchFails
      <4>1. CASE tpc' = "unprepare"
        <5>1. tpc = "switch" /\ tctx = "publish" /\ current' = current
          BY <1>a, <3>1, <3>3, <4>1, Journal, Blank DEF SwitchFails, JournalFits, RetainFits, Retaining, ContextFits
        <5> QED
          BY <1>a, <2>1, <3>3, <4>1, <5>1 DEF SwitchFails, Serves, Active, Loaded
      <4>2. CASE tpc' = "undo"
        BY <4>2
      <4> QED
        BY <3>3, <4>1, <4>2 DEF SwitchFails
    <3> QED
      BY <2>3, <3>2, <3>3
  <2>4. CASE Activate
    <3>1. journal.previous # journal.generation /\ Journaled
      BY <1>a, <2>4, Journal, Blank DEF Activate, RetainFits, Retaining, JournalFits
    <3> QED
      BY <1>a, <2>1, <2>4, <3>1 DEF Activate, SelectedBoot
  <2>5. CASE ActivateFails \/ Release \/ RestartCaddy \/ Relock \/ RelockFails
    BY <1>a, <2>1, <2>5 DEF ActivateFails, Release, RestartCaddy, Relock, RelockFails
  <2>6. CASE Retire \/ Purge \/ ActivationFailed \/ Undo \/ UndoFails
    <3>1. tpc = "retire" => Serves /\ RollingBack
      BY <1>a DEF RetainFits, Ending, JournalFits, ContextFits
    <3> QED
      BY <1>a, <2>1, <2>6, <3>1 DEF Retire, Purge, ActivationFailed, Undo, UndoFails, Serves, Active, Loaded
  <2>7. CASE RecoverRestored
    <3>1. Serves /\ Journaled
      BY <1>a, <2>7 DEF RecoverRestored, Found, JournalFits
    <3> QED
      BY <2>1, <2>7, <3>1 DEF RecoverRestored, Found, Serves, Active, Loaded
  <2>8. CASE RecoverRetry \/ RecoverPrevious
    BY <2>1, <2>8 DEF RecoverRetry, RecoverPrevious, Found, RetryDue
  <2> QED
    BY <1>2, <2>2, <2>3, <2>4, <2>5, <2>6, <2>7, <2>8 DEF Proceeding
<1>3. CASE Recording
  <2>1. UNCHANGED current
    BY <1>3, Written
  <2>2. ASSUME NEW status \in JournalStatuses, HasStatus(status)
        PROVE  journal'.status = status /\ SameTransaction
    BY <1>a, <2>2, Statused DEF TypeOK, HostTypeOK, SameTransaction
  <2>3. CASE Preflight
    BY <2>3 DEF Preflight
  <2>4. CASE Prepare
    <3>1. journal'.previous = current /\ journal'.previousBoot = boot
      BY <2>4 DEF Prepare, Records, Prepared
    <3>2. Serves
      BY <1>a, <2>4 DEF Prepare, PublishFits, Unjournaled, Publishing, SettledFits, Settled
    <3> QED
      BY <1>a, <2>4, <3>1, <3>2 DEF Prepare, ContextFits, Serves, Active, Loaded
  <2>5. CASE Unprepare \/ Unjournal \/ CommitPublication
    BY <2>5 DEF Unprepare, Unjournal, CommitPublication
  <2>6. CASE RecordSwitch \/ RecordUndo
    <3>1. journal'.status \in {"switched", "rollback_pending"} /\ SameTransaction
      BY <2>2, <2>6 DEF RecordSwitch, RecordUndo, JournalStatuses
    <3> QED
      BY <1>a, <2>6, <3>1 DEF RecordSwitch, RecordUndo, SameTransaction, ContextFits
  <2>7. CASE Blame
    BY <2>7 DEF Blame
  <2>8. CASE CommitOutcome
    <3>1. SameTransaction
      BY <2>2, <2>8 DEF CommitOutcome, JournalStatuses
    <3> QED
      BY <1>a, <2>8, <3>1 DEF CommitOutcome, SameTransaction, Serves, Active, Loaded
  <2>9. ASSUME UNCHANGED journal \/ \E restart \in BOOLEAN : journal' = [journal EXCEPT !.restart = restart]
        PROVE  UNCHANGED journal.status /\ SameTransaction
    BY <1>a, <2>9, RestartNoted DEF TypeOK, HostTypeOK, SameTransaction
  <2>10. CASE Load
    <3>1. UNCHANGED journal.status /\ SameTransaction
      BY <2>9, <2>10 DEF Load, Records, Verified
    <3>2. Serves'
      BY <2>10, ServesLoaded DEF Load
    <3> QED
      BY <1>a, <2>10, <3>1, <3>2 DEF Load, SameTransaction
  <2>11. CASE LoadFails
    BY <2>11 DEF LoadFails
  <2>12. CASE LoadNeedsRestart
    <3>1. UNCHANGED journal.status /\ SameTransaction
      BY <2>9, <2>12 DEF LoadNeedsRestart, Records
    <3> QED
      BY <1>a, <2>12, <3>1 DEF LoadNeedsRestart, SameTransaction
  <2>13. CASE Again
    <3>1. UNCHANGED journal.status /\ SameTransaction
      BY <2>9, <2>13 DEF Again, Records, Verified
    <3>2. RollingBack /\ AtPrevious
      BY <1>a, <2>13 DEF Again, ContextFits, AtPrevious
    <3>3. UNCHANGED boot
      BY <2>13, <3>2 DEF Again, AtPrevious, SelectedBoot
    <3>4. Serves'
      BY <2>13, <3>3, ServesLoaded DEF Again
    <3> QED
      BY <1>a, <2>13, <3>1, <3>2, <3>3, <3>4 DEF Again, SameTransaction, AtPrevious
  <2>14. CASE AgainFails
    BY <2>14 DEF AgainFails
  <2> QED
    BY <1>3, <2>3, <2>4, <2>5, <2>6, <2>7, <2>8, <2>10, <2>11, <2>12, <2>13, <2>14 DEF Recording
<1> QED
  BY <1>1, <1>2, <1>3, TlsNextIs

LEMMA TlsAside == HostInv /\ (TlsNext \/ TlsKilled) => ApplyFits' /\ StartFits'
<1> SUFFICES ASSUME HostInv, TlsNext \/ TlsKilled PROVE ApplyFits' /\ StartFits'
  OBVIOUS
<1>a. LockFits /\ ApplyFits /\ StartFits /\ TypeOK
  BY DEF HostInv
<1>1. UNCHANGED <<desired, pending, lastGood, activation>>
  <2>1. CASE TlsKilled
    BY <2>1 DEF TlsKilled, files
  <2>2. CASE Beginning
    BY <2>2 DEF Beginning, TlsKeeps, RenewStarts, TlsLocks, RecoverNothing, Issue, PublishInvalid, PublishUnchanged, PublishNew
  <2>3. CASE Recording
    BY <2>3 DEF Recording, TlsKeeps, Preflight, Prepare, Unprepare, RecordSwitch, Load, LoadFails, LoadNeedsRestart, Again, AgainFails,
                CommitPublication, CommitOutcome, RecordUndo, Blame, Unjournal
  <2>4. CASE Proceeding
    BY <2>4 DEF Proceeding, TlsKeeps, CreateGeneration, PreflightFails, Discard, Switch, SwitchFails, Activate, ActivateFails, Release,
                RestartCaddy, Relock, RelockFails, Retire, Purge, ActivationFailed, Undo, UndoFails, RecoverRestored, RecoverRetry,
                RecoverPrevious, Found
  <2> QED
    BY <2>1, <2>2, <2>3, <2>4, TlsNextIs
<1>2. caddy' = "waiting" \/ UNCHANGED caddy
  <2>1. CASE TlsKilled
    BY <2>1 DEF TlsKilled, service
  <2>2. CASE Beginning
    BY <2>2 DEF Beginning, service, RenewStarts, TlsLocks, RecoverNothing, Issue, PublishInvalid, PublishUnchanged, PublishNew
  <2>3. CASE Recording
    BY <2>3 DEF Recording, service, Preflight, Prepare, Unprepare, RecordSwitch, Load, LoadFails, LoadNeedsRestart, Again, AgainFails,
                CommitPublication, CommitOutcome, RecordUndo, Blame, Unjournal
  <2>4. CASE Proceeding
    BY <2>4 DEF Proceeding, service, CreateGeneration, PreflightFails, Discard, Switch, SwitchFails, Activate, ActivateFails, Release,
                RestartCaddy, CaddyRestarts, Relock, RelockFails, Retire, Purge, ActivationFailed, Undo, UndoFails, RecoverRestored,
                RecoverRetry, RecoverPrevious, Found
  <2> QED
    BY <2>1, <2>2, <2>3, <2>4, TlsNextIs
<1>3. CASE lock = "tls"
  <2>1. apc \notin ApplyLocked /\ caddy \notin CaddyLocked
    BY <1>a, <1>3 DEF LockFits
  <2>2. ApplyFits'
    BY <1>a, <1>1, <2>1 DEF ApplyFits, activation, ApplyLocked, ApplySteps, TypeOK, ApplyTypeOK
  <2>3. StartFits'
    BY <1>2, <2>1 DEF StartFits, CaddyLocked, Starting
  <2> QED
    BY <2>2, <2>3
<1>4. CASE lock # "tls"
  <2>1. tpc \notin TlsLocked /\ tpc \in TlsSteps
    BY <1>a, <1>4 DEF LockFits, TypeOK, TlsTypeOK
  <2>2. TlsKilled \/ RenewStarts \/ TlsLocks \/ Issue \/ RestartCaddy \/ Relock \/ RelockFails
    BY <2>1 DEF TlsLocked, TlsSteps, TlsNext, TlsProgress, Goes, RecoverNothing, PublishInvalid, PublishUnchanged, PublishNew,
                CreateGeneration, Preflight, PreflightFails, Discard, Prepare, Switch, SwitchFails, Unprepare, RecordSwitch, Activate,
                ActivateFails, Load, LoadFails, LoadNeedsRestart, Release, Again, AgainFails, CommitPublication, CommitOutcome,
                Retire, Unjournal, Purge, ActivationFailed, Undo, UndoFails, RecordUndo, Blame, RecoverRestored, RecoverRetry,
                RecoverPrevious, Found
  <2>3. UNCHANGED <<journal, current, boot>> /\ (UNCHANGED <<caddy, running>> \/ caddy' = "waiting")
    BY <2>2 DEF TlsKilled, files, service, RenewStarts, TlsLocks, Issue, RestartCaddy, CaddyRestarts, Relock, RelockFails, KeepsDisk,
                KeepsStore, KeepsSelection
  <2>4. Serves => Serves'
    BY <2>3 DEF Serves, Active, Loaded
  <2>5. ApplyFits'
    BY <1>a, <1>1, <2>3, <2>4 DEF ApplyFits, activation, Journaled, Candidate, Render
  <2>6. StartFits'
    BY <1>a, <1>1, <2>3 DEF StartFits, Journaled
  <2> QED
    BY <2>5, <2>6
<1> QED
  BY <1>3, <1>4

LEMMA TlsKeepsInv == HostInv /\ (TlsNext \/ TlsKilled) => HostInv'
<1>1. TlsNext \/ TlsKilled => Next
  BY DEF Next
<1> QED
  BY <1>1, TlsTyped, LockKept, TlsRecords, ContextKept, PublishKept, RetainKept, SelectionKept, TlsAside DEF HostInv, TlsFits, RecordsFit

-----------------------------------------------------------------------------
(* The activation *)

LEMMA ApplyKeepsTls ==
    ASSUME ApplyNext \/ ApplyKilled
    PROVE  /\ UNCHANGED <<gens, retired, current, journal, issued, expired, coordinator>>
           /\ UNCHANGED caddy \/ (RestartForApply /\ caddy' = "waiting")
<1>1. CASE ApplyKilled
  BY <1>1 DEF ApplyKilled, files, service
<1>2. CASE ApplyNext
  <2>1. UNCHANGED <<gens, retired, current, journal, issued, expired, coordinator>>
    BY <1>2 DEF ApplyNext, ApplyProgress, ApplyKeeps, ApplyLocks, CheckUnchanged, Check, CheckFails, Backup, Mark, WriteBoot, LoadBoot,
                LoadBootFails, CommitManifest, Clear, WriteFails, UndoManifest, UndoBoot, UndoLoad, UndoInvalid, UndoNeedsRestart,
                UndoClear, RestartForApply, ApplyRestarted, ApplyStarts
  <2>2. UNCHANGED caddy \/ (RestartForApply /\ caddy' = "waiting")
    BY <1>2 DEF ApplyNext, ApplyProgress, service, ApplyLocks, CheckUnchanged, Check, CheckFails, Backup, Mark, WriteBoot, LoadBoot,
                LoadBootFails, CommitManifest, Clear, WriteFails, UndoManifest, UndoBoot, UndoLoad, UndoInvalid, UndoNeedsRestart,
                UndoClear, RestartForApply, CaddyRestarts, ApplyRestarted, ApplyStarts
  <2> QED
    BY <2>1, <2>2
<1> QED
  BY <1>1, <1>2

\* The steps without the lock change nothing that others rely on.
LEMMA ApplyUnlocked ==
    ASSUME TypeOK, LockFits, lock # "apply", ApplyNext \/ ApplyKilled
    PROVE  /\ UNCHANGED <<boot, desired, pending, lastGood>>
           /\ UNCHANGED <<caddy, running>> \/ caddy' = "waiting"
           /\ ApplyLocks \/ (\E r \in Revisions : ApplyStarts(r)) \/ RestartForApply \/ ApplyRestarted \/ ApplyKilled
<1>1. apc \notin ApplyLocked /\ apc \in ApplySteps
  BY DEF LockFits, TypeOK, ApplyTypeOK
<1>2. ApplyLocks \/ (\E r \in Revisions : ApplyStarts(r)) \/ RestartForApply \/ ApplyRestarted \/ ApplyKilled
  BY <1>1 DEF ApplyLocked, ApplySteps, ApplyNext, ApplyProgress, Proceeds, CheckUnchanged, Check, CheckFails, Backup, Mark, WriteBoot,
              LoadBoot, LoadBootFails, CommitManifest, Clear, WriteFails, UndoManifest, UndoBoot, UndoLoad, UndoInvalid,
              UndoNeedsRestart, UndoClear
<1> QED
  BY <1>2 DEF ApplyLocks, ApplyStarts, RestartForApply, CaddyRestarts, ApplyRestarted, ApplyKilled, KeepsConfiguration, service, files

LEMMA ApplyKeepsFits == HostInv /\ (ApplyNext \/ ApplyKilled) => TlsFits' /\ StartFits'
<1> SUFFICES ASSUME HostInv, ApplyNext \/ ApplyKilled PROVE TlsFits' /\ StartFits'
  OBVIOUS
<1>a. TypeOK /\ LockFits /\ ContextFits /\ PublishFits /\ RetainFits /\ SelectionFits /\ ApplyFits /\ StartFits
  BY DEF HostInv, TlsFits
<1>1. UNCHANGED <<gens, current, journal, issued, tpc, tctx, cand>> /\ (UNCHANGED caddy \/ caddy' = "waiting")
  BY ApplyKeepsTls DEF coordinator
<1>2. ContextFits'
  BY <1>a, <1>1 DEF ContextFits, RollingBack
<1>3. RetainFits'
  BY <1>a, <1>1 DEF RetainFits, Retaining, Ending, Journaled
<1>4. CASE lock = "apply"
  <2>1. tpc \notin TlsLocked /\ tpc \in TlsSteps /\ caddy \notin CaddyLocked /\ ~Journaled
    BY <1>a, <1>4 DEF LockFits, ApplyFits, TypeOK, TlsTypeOK
  <2>2. PublishFits'
    BY <1>a, <1>1, <2>1 DEF PublishFits, Unjournaled, Publishing, Journaled, TlsLocked, TlsSteps
  <2>3. tpc \notin RestartSteps
    BY <1>a, <2>1 DEF RetainFits, Retaining
  <2>4. SelectionFits'
    BY <1>1, <2>1, <2>3 DEF SelectionFits, TlsLocked, TlsSteps
  <2>5. StartFits'
    BY <1>1, <2>1 DEF StartFits, CaddyLocked, Starting
  <2> QED
    BY <1>2, <1>3, <2>2, <2>4, <2>5 DEF TlsFits
<1>5. CASE lock # "apply"
  <2>1. UNCHANGED <<boot, desired, pending, lastGood>> /\ (UNCHANGED <<caddy, running>> \/ caddy' = "waiting")
    BY <1>a, <1>5, ApplyUnlocked
  <2>2. Serves => Serves'
    BY <1>1, <2>1 DEF Serves, Active, Loaded
  <2>3. PublishFits' /\ SelectionFits'
    BY <1>a, <1>1, <2>1, <2>2 DEF PublishFits, Unjournaled, Publishing, Journaled, SelectionFits, RollingBack
  <2>4. StartFits'
    BY <1>a, <1>1, <2>1 DEF StartFits, Journaled
  <2> QED
    BY <1>2, <1>3, <2>3, <2>4 DEF TlsFits
<1> QED
  BY <1>4, <1>5

\* What the steps of the activation rely on.
LEMMA AtApply ==
    ASSUME HostInv, apc \in ApplyLocked
    PROVE  /\ ~Journaled /\ wanted \in Revisions /\ (pending.set <=> apc \in MarkedSteps)
           /\ ~pending.set => Serves /\ CommittedIsRendered
           /\ pending.set => MarkerAuthority
           /\ pending.set /\ pending.desiredPrevious # 0 => pending.previous = Render(pending.desiredPrevious)
BY DEF HostInv, ApplyFits, ApplyLocked, SettledFits, Settled, MarkerFits

LEMMA ApplyRecords == HostInv /\ (ApplyNext \/ ApplyKilled) => RecordsFit'
<1> SUFFICES ASSUME HostInv, ApplyNext \/ ApplyKilled PROVE RecordsFit'
  OBVIOUS
<1>a. TypeOK /\ LockFits /\ ApplyFits /\ StoreFits /\ JournalFits /\ MarkerFits /\ SettledFits
  BY DEF HostInv
<1>1. UNCHANGED <<gens, retired, current, journal, issued>> /\ (UNCHANGED caddy \/ caddy' = "waiting")
  BY ApplyKeepsTls
<1>2. ASSUME UNCHANGED <<boot, desired, pending, lastGood>>, UNCHANGED running \/ FailedReload \/ running' = Loaded \/ caddy' = "waiting"
      PROVE  RecordsFit'
  <2>1. Serves => Serves'
    BY <1>1, <1>2, ServesStays DEF Active
  <2> QED
    BY <1>1, <1>2, <2>1, RecordsStay
<1>3. CASE lock # "apply"
  BY <1>2, <1>3, <1>a, ApplyUnlocked
<1> USE DEF Proceeds, ApplyKeeps, KeepsConfiguration, service
<1>4. CASE \/ ApplyKilled \/ CheckUnchanged \/ Check \/ CheckFails \/ LoadBoot \/ LoadBootFails \/ UndoLoad \/ UndoInvalid \/ UndoNeedsRestart
  BY <1>2, <1>4 DEF ApplyKilled, files, CheckUnchanged, Check, CheckFails, LoadBoot, LoadBootFails, UndoLoad, UndoInvalid, UndoNeedsRestart
<1>5. CASE /\ Backup \/ Mark \/ WriteBoot \/ CommitManifest \/ Clear \/ WriteFails \/ UndoManifest \/ UndoBoot \/ UndoClear
           /\ apc \in ApplyLocked
  <2>1. StoreFits'
    BY <1>a, <1>1 DEF StoreFits, SelectionComplete
  <2>2. /\ ~Journaled /\ wanted \in Revisions /\ (pending.set <=> apc \in MarkedSteps)
        /\ ~pending.set => Serves /\ CommittedIsRendered
        /\ pending.set => MarkerAuthority
        /\ pending.set /\ pending.desiredPrevious # 0 => pending.previous = Render(pending.desiredPrevious)
    BY <1>5, AtApply
  <2>3. JournalFits'
    BY <1>1, <2>2 DEF JournalFits, Journaled
  <2>4. CASE Backup
    <3>1. UNCHANGED <<boot, desired, pending, caddy, running>> /\ ~pending.set /\ CommittedIsRendered /\ Serves
      BY <2>2, <2>4 DEF Backup, MarkedSteps
    <3>2. MarkerFits'
      BY <3>1 DEF MarkerFits
    <3>3. desired # 0 => boot = Render(desired)
      BY <2>2, <3>1 DEF CommittedIsRendered, Settled
    <3>4. SettledFits'
      BY <1>1, <3>1, <3>3 DEF SettledFits, CommittedIsRendered, Render, Serves, Active, Loaded
    <3> QED
      BY <2>1, <2>3, <3>2, <3>4 DEF RecordsFit
  <2>5. CASE Mark
    <3>1. UNCHANGED <<boot, desired, lastGood>> /\ ~pending.set /\ CommittedIsRendered /\ lastGood = boot
      BY <1>a, <2>2, <2>5 DEF Mark, MarkedSteps, ApplyFits
    <3>2. pending'.set /\ pending'.previous = boot /\ pending'.desiredPrevious = desired
      BY <2>5 DEF Mark
    <3>3. desired # 0 => boot = Render(desired)
      BY <2>2, <3>1 DEF CommittedIsRendered, Settled
    <3>4. MarkerFits'
      BY <1>1, <3>1, <3>2, <3>3 DEF MarkerFits, MarkerAuthority, Render
    <3>5. SettledFits'
      BY <3>2 DEF SettledFits, Settled
    <3> QED
      BY <2>1, <2>3, <3>4, <3>5 DEF RecordsFit
  <2>6. CASE WriteBoot \/ CommitManifest \/ WriteFails \/ UndoManifest \/ UndoBoot
    <3>1. pending.set /\ UNCHANGED <<pending, lastGood>>
      BY <2>2, <2>6 DEF MarkedSteps, ApplyLocked, ApplySteps, WriteBoot, CommitManifest, WriteFails, UndoManifest, UndoBoot
    <3>2. apc \in {"write", "commit"} => pending.candidate = Candidate /\ pending.desiredCandidate = wanted
      BY <1>a DEF ApplyFits
    <3>3. MarkerAuthority'
      BY <2>2, <2>6, <3>1, <3>2 DEF MarkerAuthority, WriteBoot, CommitManifest, WriteFails, UndoManifest, UndoBoot
    <3>4. MarkerFits'
      BY <1>1, <2>2, <3>1, <3>3 DEF MarkerFits, Render
    <3>5. SettledFits'
      BY <3>1 DEF SettledFits, Settled
    <3> QED
      BY <2>1, <2>3, <3>4, <3>5 DEF RecordsFit
  <2>7. CASE Clear \/ UndoClear
    <3>1. UNCHANGED <<boot, desired, lastGood, caddy, running>> /\ ~pending'.set /\ pending.set
      BY <2>2, <2>7, Blank DEF Clear, UndoClear, MarkedSteps, ApplyLocked, ApplySteps
    <3>2. Serves
      BY <1>a, <2>7 DEF Clear, UndoClear, ApplyFits
    <3>3. desired # 0 => boot = Render(desired)
      BY <1>a, <2>2, <2>7, <3>1 DEF Clear, UndoClear, ApplyFits, Candidate
    <3>4. SettledFits'
      BY <1>1, <3>1, <3>2, <3>3 DEF SettledFits, CommittedIsRendered, Render, Serves, Active, Loaded
    <3>5. MarkerFits'
      BY <3>1 DEF MarkerFits
    <3> QED
      BY <2>1, <2>3, <3>4, <3>5 DEF RecordsFit
  <2> QED
    BY <1>5, <2>4, <2>5, <2>6, <2>7
<1>6. CASE lock = "apply"
  <2>1. apc \in ApplyLocked
    BY <1>a, <1>6 DEF LockFits
  <2>2. ~(ApplyLocks \/ (\E r \in Revisions : ApplyStarts(r)) \/ RestartForApply \/ ApplyRestarted)
    BY <2>1 DEF ApplyLocked, ApplyLocks, ApplyStarts, RestartForApply, ApplyRestarted
  <2> QED
    BY <1>4, <1>5, <2>1, <2>2 DEF ApplyNext, ApplyProgress
<1> QED
  BY <1>3, <1>6

LEMMA ApplyKept == HostInv /\ (ApplyNext \/ ApplyKilled) => ApplyFits'
<1> SUFFICES ASSUME HostInv, ApplyNext \/ ApplyKilled PROVE ApplyFits'
  OBVIOUS
<1>a. TypeOK /\ LockFits /\ ApplyFits
  BY DEF HostInv
<1>1. UNCHANGED <<current, journal>> /\ (UNCHANGED caddy \/ caddy' = "waiting")
  BY ApplyKeepsTls
<1> USE DEF Proceeds, KeepsConfiguration, service, Finishes, ApplyRests, ApplyLocked, MarkedSteps, ApplySteps, Journaled
<1>2. CASE \/ ApplyKilled \/ CheckUnchanged \/ CheckFails \/ UndoInvalid \/ Clear \/ UndoNeedsRestart \/ RestartForApply \/ ApplyRestarted
           \/ \E r \in Revisions : ApplyStarts(r)
  BY <1>a, <1>2 DEF ApplyFits, ApplyKilled, CheckUnchanged, CheckFails, UndoInvalid, Clear, UndoNeedsRestart, RestartForApply,
                    ApplyRestarted, ApplyStarts
<1>3. CASE ApplyLocks
  <2>1. apc = "lock" /\ UNCHANGED <<boot, desired, pending, lastGood>>
    BY <1>3 DEF ApplyLocks
  <2> QED
    BY <1>a, <1>1, <1>3, <2>1 DEF ApplyLocks, ApplyFits
<1>4. apc \in ApplyLocked => /\ ~Journaled /\ wanted \in Revisions /\ (pending.set <=> apc \in MarkedSteps)
                             /\ ~pending.set => Serves
  BY AtApply
<1>5. UNCHANGED <<boot, caddy, running>> => (Serves => Serves')
  BY <1>1 DEF Serves, Active, Loaded
<1>6. CASE Check
  <2>1. UNCHANGED <<boot, desired, pending, lastGood, caddy, running, wanted>> /\ apc = "check"
    BY <1>6 DEF Check
  <2>2. actx' = "kept" => boot = Candidate
    BY <1>6 DEF Check
  <2> QED
    BY <1>1, <1>4, <1>5, <1>6, <2>1, <2>2 DEF Check, ApplyFits, Candidate, Render
<1>7. CASE Backup
  BY <1>a, <1>1, <1>4, <1>5, <1>7 DEF Backup, ApplyFits, Candidate, Render
<1>8. CASE Mark
  <2>1. pending'.set /\ pending'.candidate = Candidate /\ pending'.desiredCandidate = wanted
    BY <1>8 DEF Mark
  <2> QED
    BY <1>a, <1>1, <1>4, <1>5, <1>8, <2>1 DEF Mark, ApplyFits, Candidate, Render
<1>9. CASE WriteBoot
  <2>1. actx = "kept" => Serves /\ boot' = boot
    BY <1>a, <1>9 DEF WriteBoot, ApplyFits
  <2> QED
    BY <1>a, <1>1, <1>4, <1>5, <1>9, <2>1 DEF WriteBoot, ApplyFits, Candidate, Render
<1>10. CASE LoadBoot \/ UndoLoad
  <2>1. Serves'
    BY <1>1, <1>10, ServesLoaded DEF LoadBoot, UndoLoad
  <2> QED
    BY <1>a, <1>1, <1>4, <1>10, <2>1 DEF LoadBoot, UndoLoad, ApplyFits, Candidate, Render
<1>11. CASE LoadBootFails \/ WriteFails
  BY <1>a, <1>1, <1>4, <1>11 DEF LoadBootFails, WriteFails, ApplyFits
<1>12. CASE CommitManifest
  BY <1>a, <1>1, <1>4, <1>5, <1>12 DEF CommitManifest, ApplyFits, Candidate, Render
<1>13. CASE UndoManifest
  BY <1>a, <1>1, <1>4, <1>13 DEF UndoManifest, ApplyFits
<1>14. CASE UndoBoot
  <2>1. lastGood = pending.previous
    BY <1>14, AtApply DEF UndoBoot, MarkerAuthority
  <2> QED
    BY <1>a, <1>1, <1>4, <1>14, <2>1 DEF UndoBoot, ApplyFits
<1>15. CASE UndoClear
  <2>1. ~pending'.set
    BY <1>15, Blank DEF UndoClear
  <2> QED
    BY <1>a, <1>1, <1>4, <1>15, <2>1 DEF UndoClear, ApplyFits
<1> QED
  BY <1>2, <1>3, <1>6, <1>7, <1>8, <1>9, <1>10, <1>11, <1>12, <1>13, <1>14, <1>15 DEF ApplyNext, ApplyProgress

LEMMA ApplyKeepsInv == HostInv /\ (ApplyNext \/ ApplyKilled) => HostInv'
<1>1. ApplyNext \/ ApplyKilled => Next
  BY DEF Next
<1> QED
  BY <1>1, ApplyTyped, LockKept, ApplyRecords, ApplyKeepsFits, ApplyKept DEF HostInv, RecordsFit

-----------------------------------------------------------------------------
(* Starts of Caddy, kills and restarts *)

LEMMA StartStarts ==
    ASSUME HostInv, CaddyNext
    PROVE  /\ UNCHANGED <<gens, retired, issued, lastGood, cand, actx, wanted, tctx>>
           /\ UNCHANGED <<tpc, apc>> \/ Launch \/ StartFails
           /\ UNCHANGED <<boot, desired, pending, current, journal>> \/ lock = "caddy"
           /\ Active' => Active \/ Launch
<1>a. LockFits
  BY DEF HostInv
<1>1. CASE Launch \/ StartFails
  BY <1>1 DEF Launch, StartFails, JobEnds, files, Step, Active
<1>2. CASE \E g \in Generations : Expire(g)
  BY <1>2 DEF Expire, service, coordinator, activation, Active
<1>3. CASE CaddyStarts \/ StartLocks \/ NothingPending \/ CaddyCrash \/ OperatorReload \/ OperatorReloadFails
  BY <1>3 DEF CaddyStarts, StartLocks, NothingPending, CaddyCrash, OperatorReload, OperatorReloadFails, Reloadable, files, coordinator,
              activation, Step, Active
<1>4. CASE DiskRecord \/ DiskPointer \/ DiskBoot \/ DiskRestored \/ PendingManifest \/ PendingBoot \/ PendingClear
  <2>1. lock = "caddy"
    BY <1>a, <1>4 DEF LockFits, CaddyLocked, Starting, DiskRecord, DiskPointer, DiskBoot, DiskRestored, PendingManifest, PendingBoot,
                      PendingClear, Step
  <2> QED
    BY <1>4, <2>1 DEF DiskRecord, DiskPointer, DiskBoot, DiskRestored, PendingManifest, PendingBoot, PendingClear, Step, coordinator,
                      activation, Active
<1> QED
  BY <1>1, <1>2, <1>3, <1>4 DEF CaddyNext, CaddyProgress

LEMMA StartRecords == HostInv /\ (CaddyNext \/ HostRestarts) => RecordsFit'
<1> SUFFICES ASSUME HostInv, CaddyNext \/ HostRestarts PROVE RecordsFit'
  OBVIOUS
<1>a. TypeOK /\ LockFits /\ StoreFits /\ JournalFits /\ MarkerFits /\ SettledFits /\ StartFits
  BY DEF HostInv
<1>1. CASE Launch
  BY <1>1, ServesLoaded, RecordsStay DEF Launch, files
<1>2. CASE \/ StartFails \/ CaddyStarts \/ StartLocks \/ NothingPending \/ CaddyCrash \/ HostRestarts \/ OperatorReload
           \/ OperatorReloadFails \/ \E g \in Generations : Expire(g)
  <2>1. UNCHANGED <<gens, retired, current, boot, desired, pending, lastGood, issued, journal>>
    BY <1>2 DEF StartFails, CaddyStarts, StartLocks, NothingPending, CaddyCrash, HostRestarts, OperatorReload, OperatorReloadFails, Expire,
                files
  <2>2. Active' => Active /\ (UNCHANGED running \/ running' \in ReloadResidue)
    BY <1>2 DEF StartFails, CaddyStarts, StartLocks, NothingPending, CaddyCrash, HostRestarts, OperatorReload, OperatorReloadFails, Expire,
                Step, Active, service, ReloadResidue
  <2>3. Serves => Serves'
    <3>1. CASE ~Active'
      BY <3>1 DEF Serves
    <3>2. CASE Active'
      BY <2>1, <2>2, <3>2, ServesStays
    <3> QED
      BY <3>1, <3>2
  <2> QED
    BY <2>1, <2>3, RecordsStay
<1>3. ~Active' => Serves'
  BY DEF Serves
<1> USE DEF Step
<1>4. CASE DiskRecord \/ DiskRestored
  <2>1. Journaled /\ ~Active'
    BY <1>a, <1>4 DEF DiskRecord, DiskRestored, StartFits, Active
  <2>2. UNCHANGED <<gens, retired, current, boot, desired, pending, lastGood, issued>>
    BY <1>4 DEF DiskRecord, DiskRestored
  <2>3. SameTransaction /\ UNCHANGED journal.status
    BY <1>a, <1>4, DiskNoted DEF DiskRecord, DiskRestored, SameTransaction, TypeOK, HostTypeOK
  <2>4. journal.status = "restored" => AtPrevious /\ Serves
    BY <1>a, <2>1 DEF JournalFits, AtPrevious
  <2> QED
    BY <1>3, <2>1, <2>2, <2>3, <2>4, StatusMoves DEF Journaled
<1>5. CASE DiskPointer \/ DiskBoot
  <2>1. Journaled /\ ~Active'
    BY <1>a, <1>5 DEF DiskPointer, DiskBoot, StartFits, Active
  <2>2. UNCHANGED <<gens, retired, journal, desired, pending, lastGood, issued>>
    BY <1>5 DEF DiskPointer, DiskBoot
  <2>3. CASE journal.status = "restored"
    <3>1. AtPrevious /\ ~SelectsCandidate
      BY <1>a, <2>1, <2>3 DEF JournalFits, AtPrevious, SelectsCandidate
    <3>2. UNCHANGED <<current, boot>>
      BY <1>5, <3>1 DEF DiskPointer, DiskBoot, AtPrevious
    <3> QED
      BY <1>3, <2>1, <2>2, <3>2, RecordsStay
  <2>4. CASE journal.status # "restored"
    BY <1>5, <2>1, <2>2, <2>4, SelectionMoves DEF DiskPointer, DiskBoot
  <2> QED
    BY <2>3, <2>4
<1>6. CASE PendingManifest \/ PendingBoot \/ PendingClear
  <2>1. pending.set /\ ~Active' /\ UNCHANGED <<gens, retired, current, issued, journal, lastGood>>
    BY <1>a, <1>6 DEF PendingManifest, PendingBoot, PendingClear, StartFits, Active
  <2>2. ~Journaled /\ ~Journaled' /\ MarkerAuthority /\ (pending.desiredPrevious # 0 => pending.previous = Render(pending.desiredPrevious))
    BY <1>a, <2>1 DEF JournalFits, MarkerFits, Journaled
  <2>3. StoreFits' /\ JournalFits'
    BY <1>a, <2>1, <2>2 DEF StoreFits, SelectionComplete, JournalFits
  <2>4. CASE PendingManifest \/ PendingBoot
    <3>1. UNCHANGED pending /\ MarkerAuthority'
      BY <2>2, <2>4 DEF PendingManifest, PendingBoot, MarkerAuthority
    <3>2. MarkerFits' /\ SettledFits'
      BY <2>1, <2>2, <3>1 DEF MarkerFits, Render, SettledFits, Settled
    <3> QED
      BY <2>3, <3>2 DEF RecordsFit
  <2>5. CASE PendingClear
    <3>1. ~pending'.set /\ UNCHANGED <<boot, desired>> /\ boot = lastGood /\ desired = pending.desiredPrevious
      BY <1>a, <2>5, Blank DEF PendingClear, StartFits
    <3>2. desired # 0 => boot = Render(desired)
      BY <2>2, <3>1 DEF MarkerAuthority
    <3>3. MarkerFits' /\ SettledFits'
      BY <1>3, <2>1, <3>1, <3>2 DEF MarkerFits, SettledFits, CommittedIsRendered, Render
    <3> QED
      BY <2>3, <3>3 DEF RecordsFit
  <2> QED
    BY <1>6, <2>4, <2>5
<1> QED
  BY <1>1, <1>2, <1>4, <1>5, <1>6 DEF CaddyNext, CaddyProgress

LEMMA StartKept == HostInv /\ (CaddyNext \/ HostRestarts) => StartFits'
<1> SUFFICES ASSUME HostInv, CaddyNext \/ HostRestarts PROVE StartFits'
  OBVIOUS
<1>a. StartFits /\ MarkerFits
  BY DEF HostInv
<1> USE DEF Step, StartFits
<1>1. CASE CaddyStarts \/ NothingPending \/ PendingClear \/ Launch \/ StartFails \/ CaddyCrash \/ HostRestarts
  BY <1>1 DEF CaddyStarts, NothingPending, PendingClear, Launch, StartFails, CaddyCrash, HostRestarts
<1>2. CASE StartLocks \/ DiskPointer \/ DiskBoot
  BY <1>a, <1>2 DEF StartLocks, files, DiskPointer, DiskBoot, Journaled
<1>3. CASE DiskRecord \/ DiskRestored
  <2>1. UNCHANGED journal.status
    BY <1>3, DiskNoted DEF DiskRecord, DiskRestored, HostInv, TypeOK, HostTypeOK
  <2> QED
    BY <1>a, <1>3, <2>1 DEF DiskRecord, DiskRestored, Journaled
<1>4. CASE PendingManifest \/ PendingBoot
  BY <1>a, <1>4 DEF PendingManifest, PendingBoot
<1>5. CASE OperatorReload \/ OperatorReloadFails \/ \E g \in Generations : Expire(g)
  BY <1>a, <1>5 DEF OperatorReload, OperatorReloadFails, Expire, Reloadable, Active, files, service, Journaled
<1> QED
  BY <1>1, <1>2, <1>3, <1>4, <1>5 DEF CaddyNext, CaddyProgress

LEMMA StartAside == HostInv /\ (CaddyNext \/ HostRestarts) => PublishFits' /\ RetainFits' /\ SelectionFits' /\ ApplyFits'
<1> SUFFICES ASSUME HostInv, CaddyNext \/ HostRestarts PROVE PublishFits' /\ RetainFits' /\ SelectionFits' /\ ApplyFits'
  OBVIOUS
<1>a. TypeOK /\ LockFits /\ ContextFits /\ PublishFits /\ RetainFits /\ SelectionFits /\ ApplyFits /\ StartFits
  BY DEF HostInv, TlsFits
<1>1. CASE HostRestarts
  BY <1>1 DEF HostRestarts, TlsRests, ApplyRests, PublishFits, Unjournaled, Publishing, RetainFits, Retaining, Ending, RestartSteps,
              SelectionFits, ApplyFits, ApplyLocked
<1>2. CASE CaddyNext
  <2>1. UNCHANGED <<gens, issued, lastGood, cand, actx, wanted, tctx>>
    BY <1>2, StartStarts
  <2>2. /\ tpc' = tpc \/ (tpc = "restarting" /\ tpc' \in {"restarted", "restartFailed"})
        /\ apc' = apc \/ (apc = "restarting" /\ apc' \in {"restarted", "restartFailed"})
    BY <1>2, StartStarts DEF Launch, StartFails, JobEnds
  <2>3. SameTransaction /\ UNCHANGED <<journal.status>>
    <3>1. CASE DiskRecord \/ DiskRestored
      BY <1>a, <3>1, DiskNoted DEF DiskRecord, DiskRestored, SameTransaction, TypeOK, HostTypeOK
    <3>2. UNCHANGED journal \/ DiskRecord \/ DiskRestored
      BY <1>2 DEF CaddyNext, CaddyProgress, CaddyStarts, StartLocks, DiskPointer, DiskBoot, NothingPending, PendingManifest,
                  PendingBoot, PendingClear, Launch, StartFails, CaddyCrash, OperatorReload, OperatorReloadFails, Expire, files
    <3> QED
      BY <3>1, <3>2 DEF SameTransaction
  <2>4. RetainFits'
    BY <1>a, <2>1, <2>2, <2>3 DEF RetainFits, Retaining, Ending, RestartSteps, Journaled, SameTransaction
  <2>5. CASE lock = "caddy"
    <3>1. tpc \notin TlsLocked /\ apc \notin ApplyLocked /\ tpc \in TlsSteps /\ apc \in ApplySteps
      BY <1>a, <2>5 DEF LockFits, TypeOK, TlsTypeOK, ApplyTypeOK
    <3>2. ApplyFits'
      BY <1>a, <2>1, <2>2, <3>1 DEF ApplyFits, ApplyLocked, ApplySteps
    <3>3. PublishFits'
      BY <1>a, <2>1, <2>2, <2>3, <3>1 DEF PublishFits, Unjournaled, Publishing, Journaled, TlsLocked, TlsSteps
    <3>4. ASSUME tpc \in RestartSteps
          PROVE  AtPrevious /\ UNCHANGED <<current, boot>> /\ journal.status # "recovered" /\ RollingBack
      <4>1. AtPrevious /\ journal.status # "recovered" /\ RollingBack /\ Journaled /\ ~pending.set
        BY <1>a, <3>4 DEF SelectionFits, RestartSteps, ContextFits, AtPrevious, RetainFits, Retaining, HostInv, JournalFits
      <4>2. ~SelectsCandidate
        BY <4>1 DEF SelectsCandidate
      <4>3. ~(PendingManifest \/ PendingBoot \/ PendingClear)
        BY <1>a, <4>1 DEF PendingManifest, PendingBoot, PendingClear, Step, StartFits
      <4>4. CASE DiskPointer \/ DiskBoot
        BY <4>1, <4>2, <4>4 DEF DiskPointer, DiskBoot, AtPrevious
      <4>5. UNCHANGED <<current, boot>> \/ DiskPointer \/ DiskBoot
        BY <1>2, <4>3 DEF CaddyNext, CaddyProgress, CaddyStarts, StartLocks, DiskRecord, DiskRestored, NothingPending,
                    Launch, StartFails, CaddyCrash, OperatorReload, OperatorReloadFails, Expire, files
      <4> QED
        BY <4>1, <4>4, <4>5
    <3>5. ASSUME tpc \in RestartSteps PROVE SelectionFits'
      BY <2>1, <2>2, <2>3, <3>4, <3>5 DEF SelectionFits, RestartSteps, RollingBack, AtPrevious, SameTransaction
    <3>6. ASSUME tpc \notin RestartSteps PROVE SelectionFits'
      <4>1. tpc' = tpc /\ tpc \in {"idle", "lockRecover", "issue", "lockPublish"}
        BY <2>2, <3>1, <3>6 DEF TlsLocked, TlsSteps, RestartSteps
      <4> QED
        BY <4>1 DEF SelectionFits, RestartSteps
    <3> QED
      BY <2>4, <3>2, <3>3, <3>5, <3>6
  <2>6. CASE lock # "caddy"
    <3>1. UNCHANGED <<boot, desired, pending, current, journal>>
      BY <1>2, <2>6, StartStarts
    <3>2. Serves => Serves'
      <4>1. CASE Launch
        BY <3>1, <4>1, ServesLoaded DEF Launch
      <4>2. CASE ~Launch
        <5>1. Active' => Active /\ (UNCHANGED running \/ running' \in ReloadResidue)
          BY <1>2, <4>2 DEF CaddyNext, CaddyProgress, CaddyStarts, StartLocks, DiskRecord, DiskPointer, DiskBoot, DiskRestored,
                      NothingPending, PendingManifest, PendingBoot, PendingClear, StartFails, CaddyCrash, OperatorReload,
                      OperatorReloadFails, Expire, service, Step, Active, ReloadResidue
        <5>2. CASE Active'
          BY <3>1, <5>1, <5>2, ServesStays
        <5> QED
          BY <5>2 DEF Serves
      <4> QED
        BY <4>1, <4>2
    <3>3. PublishFits' /\ SelectionFits'
      BY <1>a, <2>1, <2>2, <3>1, <3>2 DEF PublishFits, Unjournaled, Publishing, Journaled, SelectionFits, RollingBack, RestartSteps
    <3>4. ApplyFits'
      BY <1>a, <2>1, <2>2, <3>1, <3>2 DEF ApplyFits, ApplyLocked, MarkedSteps, ApplySteps, Journaled, Candidate, Render
    <3> QED
      BY <2>4, <3>3, <3>4
  <2> QED
    BY <2>5, <2>6
<1> QED
  BY <1>1, <1>2

LEMMA StartKeepsInv == HostInv /\ (CaddyNext \/ HostRestarts) => HostInv'
<1>1. CaddyNext \/ HostRestarts => Next
  BY DEF Next
<1>2. HostInv => TypeOK
  BY DEF HostInv
<1> QED
  BY <1>1, <1>2, CaddyTyped, LockKept, ContextKept, StartRecords, StartKept, StartAside DEF HostInv, TlsFits, RecordsFit

-----------------------------------------------------------------------------
(* The theorems *)

LEMMA HostStarts == Init => HostInv
<1> SUFFICES ASSUME Init PROVE HostInv
  OBVIOUS
<1> USE DEF Init, HostInit, TlsInit, ApplyInit
<1>1. TypeOK
  BY TypeStarts
<1>2. ~Journaled /\ ~pending.set /\ ~Active
  BY Blank DEF Journaled, Active
<1>3. LockFits /\ StartFits
  BY DEF LockFits, TlsLocked, ApplyLocked, CaddyLocked, Starting, StartFits
<1>4. StoreFits /\ JournalFits /\ MarkerFits /\ SettledFits
  BY <1>2 DEF StoreFits, SelectionComplete, JournalFits, MarkerFits, SettledFits, CommittedIsRendered, Serves
<1>5. TlsFits /\ ApplyFits
  BY DEF TlsFits, ContextFits, PublishFits, Unjournaled, Publishing, RetainFits, Retaining, Ending, RestartSteps, SelectionFits,
         ApplyFits, ApplyLocked
<1> QED
  BY <1>1, <1>3, <1>4, <1>5 DEF HostInv

LEMMA SameInv == HostInv /\ UNCHANGED vars => HostInv'
BY DEF HostInv, vars, files, service, coordinator, activation, TypeOK, HostTypeOK, TlsTypeOK, ApplyTypeOK, LockFits, StoreFits,
       SelectionComplete, JournalFits, Journaled, DiskAuthority, MarkerFits, MarkerAuthority, SettledFits, Settled, CommittedIsRendered,
       Render, Serves, Active, Loaded, TlsFits, ContextFits, RollingBack, PublishFits, Unjournaled, Publishing, RetainFits, Retaining,
       Ending, SelectionFits, ApplyFits, Candidate, StartFits

\* The inductive invariant: the records and what each process relies on at its step.
LEMMA HostHolds == Spec => []HostInv
<1>1. HostInv /\ [Next]_vars => HostInv'
  BY TlsKeepsInv, ApplyKeepsInv, StartKeepsInv, SameInv DEF Next
<1> QED
  BY <1>1, HostStarts, PTL DEF Spec

\* The types of all variables.
THEOREM TypeCorrect == Spec => []TypeOK
<1>1. HostInv => TypeOK
  BY DEF HostInv
<1> QED
  BY <1>1, HostHolds, PTL

\* Wherever a process or the host dies, the next start, timer run or activation finds one record at
\* most, the files that its recovery restores, and a pointer to a whole generation.
THEOREM CrashesRecoverable == Spec => []CrashesAreRecoverable
<1>1. HostInv => CrashesAreRecoverable
  <2> SUFFICES ASSUME HostInv PROVE OneTransaction /\ RecoveryAuthority /\ SelectionComplete
    BY DEF CrashesAreRecoverable
  <2>1. OneTransaction /\ SelectionComplete
    BY DEF HostInv, OneTransaction, JournalFits, StoreFits
  <2>2. RecoveryAuthority
    BY DEF HostInv, RecoveryAuthority, JournalFits, MarkerFits
  <2> QED
    BY <2>1, <2>2
<1> QED
  BY <1>1, HostHolds, PTL

\* Between two transactions the boot file renders the committed manifest, and an active Caddy serves
\* it with the selected certificate.
THEOREM CommittedServed == Spec => []CommittedIsServed
<1>1. HostInv => CommittedIsServed
  BY DEF HostInv, SettledFits, CommittedIsServed, CommittedIsRendered, ServesCommitted, Serves
<1> QED
  BY <1>1, HostHolds, PTL


-----------------------------------------------------------------------------
(* The commits *)

CommittedStays == UNCHANGED <<committedRevision, committedCertificate>>

\* The end of a publication commits its certificate or leaves the one before.
LEMMA PublicationCommits ==
    ASSUME HostInv, Journaled, ~Journaled', UNCHANGED <<current, pending, desired>>, AtPrevious \/ AtCandidate
    PROVE  [Committed!Next]_<<committedRevision, committedCertificate>>
<1>1. /\ ~pending.set /\ desired # 0 /\ journal.previous < journal.generation
      /\ journal.generation \in Generations /\ journal.previous \in Nat
  BY Journal, Blank DEF HostInv, JournalFits, Generations
<1>2. committedRevision = desired /\ committedRevision' = desired /\ committedCertificate = journal.previous /\ committedCertificate' = current
  BY <1>1 DEF committedRevision, committedCertificate
<1>3. CASE AtPrevious
  BY <1>2, <1>3 DEF AtPrevious
<1>4. CASE AtCandidate
  BY <1>1, <1>2, <1>4 DEF AtCandidate, Committed!Next, Committed!CommitCertificate
<1> QED
  BY <1>3, <1>4

LEMMA TlsCommits == HostInv /\ (TlsNext \/ TlsKilled) => [Committed!Next]_<<committedRevision, committedCertificate>>
<1> SUFFICES ASSUME HostInv, TlsNext \/ TlsKilled PROVE [Committed!Next]_<<committedRevision, committedCertificate>>
  OBVIOUS
<1>a. TypeOK /\ PublishFits /\ RetainFits /\ SelectionFits /\ JournalFits /\ ContextFits
  BY DEF HostInv, TlsFits
<1>1. UNCHANGED <<desired, pending>>
  <2>1. CASE TlsKilled
    BY <2>1 DEF TlsKilled, files
  <2>2. CASE Recording
    BY <2>2, Written
  <2>3. CASE Beginning
    BY <2>3 DEF Beginning, TlsKeeps, RenewStarts, TlsLocks, RecoverNothing, Issue, PublishInvalid, PublishUnchanged, PublishNew
  <2>4. CASE Proceeding
    BY <2>4 DEF Proceeding, TlsKeeps, CreateGeneration, PreflightFails, Discard, Switch, SwitchFails, Activate, ActivateFails, Release,
                RestartCaddy, Relock, RelockFails, Retire, Purge, ActivationFailed, Undo, UndoFails, RecoverRestored, RecoverRetry,
                RecoverPrevious, Found
  <2> QED
    BY <2>1, <2>2, <2>3, <2>4, TlsNextIs
<1>2. CASE Beginning \/ Proceeding \/ TlsKilled
  <2>1. UNCHANGED journal
    BY <1>2, JournalStands
  <2>2. Journaled \/ UNCHANGED current
    <3>1. CASE Switch \/ SwitchFails \/ Undo \/ UndoFails
      BY <1>a, <3>1 DEF Switch, SwitchFails, Undo, UndoFails, Goes, RetainFits, Retaining
    <3>2. CASE ~(Switch \/ SwitchFails \/ Undo \/ UndoFails)
      BY <1>2, <3>2 DEF Beginning, RenewStarts, TlsLocks, RecoverNothing, Issue, PublishInvalid, PublishUnchanged, PublishNew,
                  Proceeding, CreateGeneration, PreflightFails, Discard, Activate, ActivateFails, Release, RestartCaddy, Relock,
                  RelockFails, Retire, Purge, ActivationFailed, RecoverRestored, RecoverRetry, RecoverPrevious, Found, TlsKilled, files,
                  KeepsDisk, KeepsSelection
    <3> QED
      BY <3>1, <3>2
  <2> QED
    BY <1>1, <2>1, <2>2 DEF committedRevision, committedCertificate, Journaled
<1>3. CASE Recording
  <2>1. UNCHANGED current
    BY <1>3, Written
  <2>2. CASE Prepare
    <3>1. ~Journaled /\ Journaled' /\ journal'.previous = current
      BY <1>a, <2>2 DEF Prepare, Goes, PublishFits, Unjournaled, Publishing, Records, Prepared, Journaled
    <3> QED
      BY <1>1, <2>1, <3>1 DEF committedRevision, committedCertificate
  <2>3. CASE Unprepare \/ CommitPublication \/ Unjournal
    <3>1. Journaled /\ ~Journaled'
      BY <1>a, <2>3, Blank DEF Unprepare, CommitPublication, Unjournal, Goes, RetainFits, Retaining, Ending, Records, Journaled
    <3>2. AtPrevious \/ AtCandidate
      BY <1>a, <2>3, <3>1 DEF Unprepare, CommitPublication, Unjournal, Goes, SelectionFits, RetainFits, JournalFits, AtPrevious, AtCandidate
    <3> QED
      BY <1>1, <2>1, <3>1, <3>2, PublicationCommits
  <2>4. CASE /\ UNCHANGED journal \/ SameTransaction
             /\ Journaled <=> Journaled'
    BY <1>1, <2>1, <2>4 DEF committedRevision, committedCertificate, SameTransaction
  <2>5. CASE /\ SameTransaction
             /\ UNCHANGED journal.status \/ journal'.status \in JournalStatuses \ {"none", "restored"} \/ CommitOutcome
             /\ ~UNCHANGED journal
             /\ ~(Unprepare \/ CommitPublication \/ Unjournal \/ Prepare)
    <3>1. CASE UNCHANGED journal.status
      BY <2>4, <2>5, <3>1 DEF Journaled
    <3>2. CASE ~UNCHANGED journal.status
      <4>1. Preflight \/ RecordSwitch \/ CommitOutcome \/ RecordUndo \/ Blame
        <5>1. ASSUME journal' = [journal EXCEPT !.restart = TRUE] \/ journal' = [journal EXCEPT !.restart = FALSE]
              PROVE  UNCHANGED journal.status
          BY <5>1, <1>a, RestartNoted DEF TypeOK, HostTypeOK
        <5> QED
          BY <1>3, <2>5, <3>2, <5>1 DEF Recording, Load, LoadFails, LoadNeedsRestart, Again, AgainFails, Records, Verified
      <4>2. Journaled
        BY <1>a, <2>5, <4>1 DEF Preflight, RecordSwitch, CommitOutcome, RecordUndo, Blame, Goes, RetainFits, Retaining
      <4>3. Journaled'
        <5>1. CASE CommitOutcome
          <6>1. PICK status \in {"recovered", "restored"} : HasStatus(status)
            BY <5>1 DEF CommitOutcome
          <6> QED
            BY <1>a, <6>1, Statused DEF TypeOK, HostTypeOK, JournalStatuses, Journaled
        <5> QED
          BY <2>5, <3>2, <5>1 DEF Journaled
      <4> QED
        BY <2>4, <2>5, <4>2, <4>3
    <3> QED
      BY <3>1, <3>2
  <2> QED
    BY <1>3, <2>2, <2>3, <2>4, <2>5, Written DEF Journaled
<1> QED
  BY <1>2, <1>3, TlsNextIs

LEMMA ApplyCommits == HostInv /\ (ApplyNext \/ ApplyKilled) => [Committed!Next]_<<committedRevision, committedCertificate>>
<1> SUFFICES ASSUME HostInv, ApplyNext \/ ApplyKilled PROVE [Committed!Next]_<<committedRevision, committedCertificate>>
  OBVIOUS
<1>a. TypeOK /\ LockFits /\ ApplyFits
  BY DEF HostInv
<1>1. UNCHANGED committedCertificate
  BY ApplyKeepsTls DEF committedCertificate, Journaled
<1>2. CASE UNCHANGED <<desired, pending>>
  BY <1>1, <1>2 DEF committedRevision
<1>3. CASE Mark
  <2>1. ~pending.set /\ pending'.set /\ pending'.desiredPrevious = desired
    BY <1>a, <1>3 DEF Mark, Proceeds, ApplyFits, ApplyLocked, MarkedSteps, ApplySteps
  <2> QED
    BY <1>1, <2>1 DEF committedRevision
<1>4. CASE CommitManifest \/ WriteFails \/ UndoManifest
  <2>1. pending.set /\ UNCHANGED pending
    BY <1>a, <1>4 DEF CommitManifest, WriteFails, UndoManifest, Proceeds, ApplyFits, ApplyLocked, MarkedSteps, ApplySteps
  <2> QED
    BY <1>1, <2>1 DEF committedRevision
<1>5. CASE Clear
  <2>1. desired = wanted /\ wanted \in Revisions /\ ~pending'.set /\ UNCHANGED desired
    BY <1>a, <1>5, Blank DEF Clear, ApplyFits
  <2> QED
    BY <1>1, <2>1 DEF committedRevision, Committed!Next, Committed!CommitRevision
<1>6. CASE UndoClear
  <2>1. desired = pending.desiredPrevious /\ pending.set /\ ~pending'.set /\ UNCHANGED desired
    BY <1>a, <1>6, Blank DEF UndoClear, ApplyFits, ApplyLocked, MarkedSteps, ApplySteps
  <2> QED
    BY <1>1, <2>1 DEF committedRevision
<1> QED
  BY <1>2, <1>3, <1>4, <1>5, <1>6
     DEF ApplyNext, ApplyProgress, KeepsConfiguration, ApplyLocks, CheckUnchanged, Check, CheckFails, Backup, WriteBoot, LoadBoot,
         LoadBootFails, UndoBoot, UndoLoad, UndoInvalid, UndoNeedsRestart, RestartForApply, ApplyRestarted, ApplyStarts, ApplyKilled, files

LEMMA StartCommits == HostInv /\ (CaddyNext \/ HostRestarts) => CommittedStays
<1> SUFFICES ASSUME HostInv, CaddyNext \/ HostRestarts PROVE CommittedStays
  OBVIOUS
<1>a. TypeOK /\ StartFits /\ JournalFits
  BY DEF HostInv
<1>1. CASE UNCHANGED <<desired, pending, current, journal>>
  BY <1>1 DEF CommittedStays, committedRevision, committedCertificate, Journaled
<1>2. CASE DiskRecord \/ DiskRestored
  <2>1. SameTransaction /\ UNCHANGED journal.status
    BY <1>a, <1>2, DiskNoted DEF DiskRecord, DiskRestored, SameTransaction, TypeOK, HostTypeOK
  <2> QED
    BY <1>2, <2>1 DEF DiskRecord, DiskRestored, CommittedStays, committedRevision, committedCertificate, Journaled, SameTransaction
<1>3. CASE DiskPointer
  BY <1>a, <1>3 DEF DiskPointer, Step, StartFits, CommittedStays, committedRevision, committedCertificate, Journaled
<1>4. CASE PendingManifest
  BY <1>4 DEF PendingManifest, CommittedStays, committedRevision, committedCertificate, Journaled
<1>5. CASE PendingClear
  <2>1. pending.set /\ ~pending'.set /\ desired = pending.desiredPrevious
    BY <1>a, <1>5, Blank DEF PendingClear, Step, StartFits
  <2> QED
    BY <1>5, <2>1 DEF PendingClear, CommittedStays, committedRevision, committedCertificate, Journaled
<1> QED
  BY <1>1, <1>2, <1>3, <1>4, <1>5
     DEF CaddyNext, CaddyProgress, CaddyStarts, StartLocks, DiskBoot, NothingPending, PendingBoot, Launch, StartFails, CaddyCrash,
         OperatorReload, OperatorReloadFails, Expire, HostRestarts, files

\* A crash, a failed reload or a rollback changes neither the committed manifest nor the committed
\* certificate: every step of the host is a commit of one of them, or changes neither.
THEOREM CommitsHold == Spec => CommitsAtomically
<1>1. Init => Committed!Init
  BY Blank DEF Init, HostInit, Committed!Init, committedRevision, committedCertificate, Journaled, NoMarker
<1>2. HostInv /\ [Next]_vars => [Committed!Next]_<<committedRevision, committedCertificate>>
  <2>1. UNCHANGED vars => CommittedStays
    BY DEF vars, files, CommittedStays, committedRevision, committedCertificate, Journaled
  <2> QED
    BY <2>1, TlsCommits, ApplyCommits, StartCommits DEF Next, CommittedStays
<1> QED
  BY <1>1, <1>2, HostHolds, PTL DEF Spec, CommitsAtomically, Committed!Spec

=============================================================================
