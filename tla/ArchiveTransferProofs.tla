-------------------------- MODULE ArchiveTransferProofs --------------------------
(***************************************************************************)
(* The transfer of Forgejo keeps the promise of ArchivePromise, and a run  *)
(* that reports no error has done what the report says: for every number  *)
(* of archives and of faults.                                              *)
(***************************************************************************)
EXTENDS ArchiveTransfer, TLAPS

\* What retention may take from the share for good.
Doomed(a) ==
    a \in Archives \ (backupDirs \cup pinned) /\ age[a] = "expired"

\* A marker vouches for what is behind it, or for nothing any more.
MarkersVouch ==
    \A a \in Archives : "COMPLETE" \in remote[a] =>
        (Payloads \subseteq remote[a] /\ a \notin spoiled) \/ Doomed(a)

\* What the run knows of the host holds while it runs.
RunKnows ==
    /\ phase # "idle" => protected = pinned
    /\ \A a \in Archives : seen[a] \in {"old", "expired"} => age[a] \in {"old", "expired"}
    /\ \A a \in Archives : seen[a] = "expired" => age[a] = "expired"
    /\ \A a \in Archives : backups[a] # {} => a \in backupDirs
    /\ \A a \in Archives : age[a] = "none" => a \notin backupDirs \cup pinned /\ "COMPLETE" \notin remote[a]

\* What each phase rests on.
PhaseRests ==
    /\ phase \in LocalPhases => current \in Whole
    /\ phase \in {"copy", "check", "publish"} => "COMPLETE" \notin remote[current]
    /\ phase \in {"check", "publish"} => Payloads \subseteq remote[current]
    /\ phase = "publish" => current \notin spoiled
    /\ phase \in {"copy", "check", "publish", "confirm", "retire", "purge"} => client = NoClient
    /\ phase = "retire" =>
         current \in Delivered \ pinned /\ age[current] \in {"old", "expired"}
    /\ phase = "examine" => current \in Archives \ pinned /\ age[current] = "expired"
    /\ phase = "purge" => Doomed(current)

\* What a command may rely on when it takes effect, however late.
Harmless(c) ==
    /\ c.what = "copy" => c.archive \in Whole /\ "COMPLETE" \notin remote[c.archive]
    /\ c.what = "publish" =>
         c.archive \in Whole \ spoiled /\ Payloads \subseteq remote[c.archive]
    /\ c.what \in {"delete", "rmdir"} => Doomed(c.archive)

ClientIsHarmless == Harmless(client)

ArchiveInv == ArchiveTypeOK /\ MarkersVouch /\ RunKnows /\ PhaseRests /\ ClientIsHarmless

\* What a command on the share may touch keeps its type.
ShareTypeOK ==
    /\ remote \in [Archives -> SUBSET Marked]
    /\ remoteDirs \subseteq Archives /\ spoiled \subseteq Archives

LEMMA ShareTyping ==
    ASSUME ShareTypeOK, NEW a \in Archives, NEW f,
           \/ Copied(a) \/ PartlyCopied(a) \/ Published(a) \/ Deleted(a, f)
           \/ DirectoryRemoved(a) \/ Unaffected
    PROVE  ShareTypeOK'
<1> USE DEF ShareTypeOK, Marked, Payloads
<1>1. CASE Copied(a)
  BY <1>1 DEF Copied
<1>2. CASE PartlyCopied(a)
  BY <1>2 DEF PartlyCopied
<1>3. CASE Published(a)
  BY <1>3 DEF Published
<1>4. CASE Deleted(a, f)
  BY <1>4 DEF Deleted
<1>5. CASE DirectoryRemoved(a)
  BY <1>5 DEF DirectoryRemoved
<1>6. CASE Unaffected
  BY <1>6 DEF Unaffected
<1> QED
  BY <1>1, <1>2, <1>3, <1>4, <1>5, <1>6

Commands == [what : {"copy", "publish", "delete", "rmdir", "read"}, archive : 0..MaxArchives,
             file : Marked \cup {"none"}]

LEMMA CommandTyping ==
    ASSUME ArchiveTypeOK
    PROVE  Command \in Commands /\ Command.archive = current
<1>1. current \in 0..MaxArchives
  BY DEF ArchiveTypeOK
<1>2. Foremost(remote[current]) \in Marked
  BY DEF Foremost, Marked, Payloads
<1>3. (IF phase = "purge" /\ remote[current] # {} THEN Foremost(remote[current]) ELSE "none")
        \in Marked \cup {"none"}
  BY <1>2
<1>4. (IF phase = "copy" THEN "copy" ELSE IF phase = "publish" THEN "publish"
      ELSE IF phase # "purge" THEN "read" ELSE IF remote[current] = {} THEN "rmdir" ELSE "delete")
        \in {"copy", "publish", "delete", "rmdir", "read"}
  OBVIOUS
<1> QED
  BY <1>1, <1>3, <1>4 DEF Command, Commands

\* The phases that are about one archive.
LEMMA CurrentIsArchive ==
    ASSUME ArchiveInv, phase \in LocalPhases \cup RemotePhases \cup {"retire"}
    PROVE  current \in Archives
BY DEF ArchiveInv, PhaseRests, Whole, Doomed, Delivered, LocalPhases, RemotePhases

HostHoldingsTypeOK ==
    /\ age \in [Archives -> Ages] /\ backups \in [Archives -> SUBSET Marked]
    /\ backupDirs \subseteq Archives /\ remnant \in BOOLEAN /\ pinned \subseteq Archives

RunTypeOK ==
    /\ phase \in {"idle", "local", "retire", "list", "remote"} \cup LocalPhases \cup RemotePhases
    /\ current \in 0..MaxArchives /\ pending \subseteq Archives /\ protected \subseteq Archives
    /\ seen \in [Archives -> Ages] /\ erred \subseteq 0..MaxArchives

ClientTypeOK ==
    \/ client = NoClient
    \/ client \in Commands /\ client.what # "read" /\ client.archive \in Archives

LEMMA ArchiveTyping ==
    ASSUME ArchiveInv, [ArchiveNext]_archiveVars
    PROVE  ArchiveTypeOK'
<1> USE ArchivesConstant, TransferConstants
<1> USE DEF ArchiveInv, ArchiveTypeOK, Archives, Ages, Payloads, Marked, LocalPhases, RemotePhases, NoClient
<1>1. CASE SealArchive
  BY <1>1 DEF SealArchive, stores, run, HostUnchanged, Unaffected, OneOlder, NextName, Older
<1>2. CASE DaysPass
  BY <1>2 DEF DaysPass, stores, run, HostUnchanged, Unaffected, OneOlder, NextName, Older
<1>3. CASE Pin
  BY <1>3 DEF Pin, stores, run, HostUnchanged, Unaffected, OneOlder, NextName, Older
<1>4. CASE SealPinned
  <2>1. remnant' \in BOOLEAN
    BY <1>4, Zenon DEF SealPinned
  <2> QED
    BY <1>4, <2>1 DEF SealPinned, run
<1>5. CASE CommandFails
  <2>1. ShareTypeOK /\ Command.archive = current /\ Command \in Commands
    BY CommandTyping DEF ShareTypeOK
  <2>2. Command.what # "read" => phase \in {"copy", "publish", "purge"}
    BY DEF Command
  <2>3. ShareTypeOK'
    <3>1. CASE phase = "list"
      <4>1. Command.what = "read"
        BY <3>1 DEF Command
      <4> QED
        BY <1>5, <2>1, <3>1, <4>1 DEF CommandFails, Effect, Unaffected, ShareTypeOK
    <3>2. CASE phase # "list"
      <4>1. current \in Archives
        BY <1>5, <3>2, CurrentIsArchive DEF CommandFails
      <4>2. Unaffected \/ Effect(Command) \/ PartlyCopied(current)
        BY <1>5 DEF CommandFails
      <4> QED
        BY <2>1, <4>1, <4>2, ShareTyping DEF Effect
    <3> QED
      BY <3>1, <3>2
  <2>4. ClientTypeOK'
    <3>1. Command.what # "read" => current \in Archives
      BY <2>2, CurrentIsArchive
    <3>2. client = NoClient /\ (client' = client \/ (Command.what # "read" /\ client' = Command))
      BY <1>5 DEF CommandFails
    <3> QED
      BY <2>1, <3>1, <3>2 DEF ClientTypeOK
  <2>5. HostHoldingsTypeOK' /\ RunTypeOK' /\ setbacks' \in 0..MaxTransferFaults
    BY <1>5 DEF CommandFails, Raise, HostUnchanged, HostHoldingsTypeOK, RunTypeOK
  <2> QED
    BY <2>3, <2>4, <2>5 DEF ShareTypeOK, ClientTypeOK, HostHoldingsTypeOK, RunTypeOK, Commands
<1>6. CASE NameTaken
  BY <1>6 DEF NameTaken, stores, run, HostUnchanged, Unaffected, Raise
<1>7. CASE ClientEnds
  <2>1. ShareTypeOK /\ client.archive \in Archives
    BY <1>7 DEF ClientEnds, ShareTypeOK
  <2>2. ShareTypeOK'
    BY <1>7, <2>1, ShareTyping DEF ClientEnds, Effect
  <2> QED
    BY <1>7, <2>2 DEF ClientEnds, ShareTypeOK, run, HostUnchanged
<1>8. CASE Begin
  BY <1>8 DEF Begin, stores, run, HostUnchanged, Unaffected, Unsealed
<1>9. CASE SelectLocal
  <2>1. current' \in Archives /\ phase' \in {"local", "probe"} /\ pending' \subseteq Archives
    BY <1>9 DEF SelectLocal, IsFirst
  <2>2. erred' = erred \/ erred' = erred \cup {current'}
    BY <1>9 DEF SelectLocal
  <2>3. erred' \subseteq 0..MaxArchives
    <3>1. erred \subseteq 0..MaxArchives /\ {current'} \subseteq 0..MaxArchives
      BY <2>1
    <3> QED
      BY <2>2, <3>1, Zenon
  <2>4. HostHoldingsTypeOK' /\ ShareTypeOK' /\ ClientTypeOK' /\ setbacks' \in 0..MaxTransferFaults
    BY <1>9 DEF SelectLocal, stores, HostHoldingsTypeOK, ShareTypeOK, ClientTypeOK, Commands
  <2>5. protected' \subseteq Archives /\ seen' \in [Archives -> Ages]
    BY <1>9 DEF SelectLocal
  <2> QED
    BY <2>1, <2>3, <2>4, <2>5 DEF HostHoldingsTypeOK, ShareTypeOK, ClientTypeOK, Commands
<1>10. CASE ProbeComplete
  BY <1>10 DEF ProbeComplete, stores, run, HostUnchanged, Unaffected, Succeeds, Verified
<1>11. CASE ProbeMissing
  BY <1>11 DEF ProbeMissing, stores, run, HostUnchanged, Unaffected, Succeeds, Verified
<1>12. CASE ProbeRefuses
  BY <1>12 DEF ProbeRefuses, stores, run, HostUnchanged, Unaffected, Raise
<1>13. CASE CopyPayloads
  <2>1. current \in Archives
    BY <1>13, CurrentIsArchive DEF CopyPayloads
  <2>2. ShareTypeOK'
    BY <1>13, <2>1, ShareTyping DEF CopyPayloads, ShareTypeOK
  <2> QED
    BY <1>13, <2>2 DEF CopyPayloads, Succeeds, HostUnchanged, ShareTypeOK
<1>14. CASE Check
  BY <1>14 DEF Check, stores, run, HostUnchanged, Unaffected, Succeeds, Verified
<1>15. CASE CheckDiffers
  BY <1>15 DEF CheckDiffers, stores, run, HostUnchanged, Unaffected, Raise
<1>16. CASE PublishMarker
  <2>1. current \in Archives
    BY <1>16, CurrentIsArchive DEF PublishMarker
  <2>2. ShareTypeOK'
    BY <1>16, <2>1, ShareTyping DEF PublishMarker, ShareTypeOK
  <2> QED
    BY <1>16, <2>2 DEF PublishMarker, Succeeds, HostUnchanged, ShareTypeOK
<1>17. CASE Confirm
  BY <1>17 DEF Confirm, stores, run, HostUnchanged, Unaffected, Succeeds, Verified
<1>18. CASE RemovePayload
  BY <1>18 DEF RemovePayload, stores, run, HostUnchanged, Unaffected
<1>19. CASE RemoveLocalDirectory
  BY <1>19 DEF RemoveLocalDirectory, stores, run, HostUnchanged, Unaffected
<1>20. CASE RetireFails
  BY <1>20 DEF RetireFails, stores, run, HostUnchanged, Unaffected, Raise
<1>21. CASE LocalDone
  BY <1>21 DEF LocalDone, stores, run, HostUnchanged, Unaffected
<1>22. CASE ListRemote
  BY <1>22 DEF ListRemote, stores, run, HostUnchanged, Unaffected
<1>23. CASE SelectRemote
  BY <1>23 DEF SelectRemote, stores, run, HostUnchanged, Unaffected, IsFirst
<1>24. CASE Examine
  BY <1>24 DEF Examine, stores, run, HostUnchanged, Unaffected, Succeeds, Verified
<1>25. CASE ExamineRefuses
  BY <1>25 DEF ExamineRefuses, stores, run, HostUnchanged, Unaffected, Raise
<1>26. CASE PurgeFile
  BY <1>26 DEF PurgeFile, stores, run, HostUnchanged, Unaffected, Succeeds, Verified, Deleted
<1>27. CASE PurgeDirectory
  BY <1>27 DEF PurgeDirectory, stores, run, HostUnchanged, Unaffected, Succeeds, Verified, DirectoryRemoved
<1>28. CASE Finish
  BY <1>28 DEF Finish, stores, run, HostUnchanged, Unaffected, Ends, Unsealed
<1>29. CASE Kill
  BY <1>29 DEF Kill, stores, run, HostUnchanged, Unaffected, Ends, Unsealed
<1>30. CASE UNCHANGED archiveVars
  BY <1>30 DEF archiveVars, stores, run
<1> QED
  BY <1>1, <1>2, <1>3, <1>4, <1>5, <1>6, <1>7, <1>8, <1>9, <1>10, <1>11, <1>12, <1>13, <1>14, <1>15,
     <1>16, <1>17, <1>18, <1>19, <1>20, <1>21, <1>22, <1>23, <1>24, <1>25, <1>26, <1>27, <1>28, <1>29,
     <1>30 DEF ArchiveNext

-----------------------------------------------------------------------------
(* What the actions beside the run, and those on the share, leave true *)

Beside == SealArchive \/ DaysPass \/ Pin \/ SealPinned

\* Nothing beside the run takes a whole archive away or brings a doomed one back.
LEMMA BesideKeeps ==
    ASSUME ArchiveInv, Beside
    PROVE  /\ Whole \subseteq Whole'
           /\ \A a \in Archives : Doomed(a) => Doomed(a)'
           /\ \A a \in Archives : age[a] \in {"old", "expired"} => age'[a] \in {"old", "expired"}
           /\ \A a \in Archives : age[a] = "expired" => age'[a] = "expired"
           /\ \A a \in Archives : age[a] # "none" => age'[a] # "none"
           /\ \A a \in Archives : backups'[a] # {} => a \in backupDirs'
           /\ \A a \in Archives : age'[a] = "none" =>
                age[a] = "none" /\ a \notin backupDirs' \cup pinned'
           /\ UNCHANGED <<remote, remoteDirs, spoiled, run, client>>
           /\ phase = "idle" \/ UNCHANGED pinned
<1> USE DEF ArchiveInv, ArchiveTypeOK, RunKnows, Whole, Doomed, Ages, Marked, run
<1>1. CASE SealArchive
  BY <1>1 DEF SealArchive, NextName
<1>2. CASE DaysPass
  BY <1>2 DEF DaysPass, OneOlder, Older
<1>3. CASE Pin
  BY <1>3 DEF Pin, NextName
<1>4. CASE SealPinned
  BY <1>4 DEF SealPinned
<1> QED
  BY <1>1, <1>2, <1>3, <1>4 DEF Beside

\* Every command a run issues is harmless when it issues it.
LEMMA CommandIsHarmless ==
    ASSUME ArchiveInv
    PROVE  Harmless(Command)
<1>1. Command.archive = current
  BY CommandTyping DEF ArchiveInv
<1>2. Command.what = "copy" => phase = "copy"
  BY DEF Command
<1>3. Command.what = "publish" => phase = "publish"
  BY DEF Command
<1>4. Command.what \in {"delete", "rmdir"} => phase = "purge"
  BY DEF Command
<1> QED
  BY <1>1, <1>2, <1>3, <1>4 DEF Harmless, ArchiveInv, PhaseRests, LocalPhases

\* What a harmless command does to the share: it delivers an archive the host has, takes
\* one away that is doomed, or changes nothing that counts.
ShareStep(c) ==
    /\ MarkersVouch'
    /\ \A a \in Archives : age[a] = "none" => "COMPLETE" \notin remote'[a]
    /\ \/ Delivered' = Delivered
       \/ c.archive \in Whole /\ Delivered' = Delivered \cup {c.archive}
       \/ Doomed(c.archive) /\ Delivered' = Delivered \ {c.archive}

LEMMA EffectIsHarmless ==
    ASSUME ArchiveInv, NEW c, c.archive \in Archives, Harmless(c),
           Effect(c) \/ (c.what = "copy" /\ PartlyCopied(c.archive)),
           UNCHANGED <<age, backupDirs, pinned>>
    PROVE  ShareStep(c)
<1> USE DEF ArchiveInv, ArchiveTypeOK, RunKnows, MarkersVouch, Harmless, ShareStep, Delivered,
            RemoteComplete, Doomed, Marked, Payloads, Whole
<1>1. CASE c.what = "copy" /\ (Copied(c.archive) \/ PartlyCopied(c.archive))
  BY <1>1 DEF Copied, PartlyCopied
<1>2. CASE c.what = "publish" /\ Published(c.archive)
  BY <1>2 DEF Published
<1>3. CASE c.what = "delete" /\ Deleted(c.archive, c.file)
  BY <1>3 DEF Deleted
<1>4. CASE c.what = "rmdir" /\ DirectoryRemoved(c.archive)
  BY <1>4 DEF DirectoryRemoved
<1>5. CASE Unaffected
  BY <1>5 DEF Unaffected
<1> QED
  BY <1>1, <1>2, <1>3, <1>4, <1>5 DEF Effect

OnShare ==
    CommandFails \/ ClientEnds \/ CopyPayloads \/ PublishMarker \/ PurgeFile \/ PurgeDirectory

LEMMA ShareSteps ==
    ASSUME ArchiveInv, OnShare
    PROVE  HostUnchanged /\ (ShareStep(Command) \/ ShareStep(client) \/ Unaffected)
<1> USE DEF HostUnchanged
<1>1. Command.archive = current /\ Harmless(Command)
  BY CommandTyping, CommandIsHarmless DEF ArchiveInv
<1>2. CASE CommandFails
  <2>1. CASE phase = "list"
    <3>1. Command.what = "read"
      BY <2>1 DEF Command
    <3> QED
      BY <1>2, <2>1, <3>1 DEF CommandFails, Effect
  <2>2. CASE phase # "list"
    <3>1. current \in Archives
      BY <1>2, <2>2, CurrentIsArchive DEF CommandFails
    <3>2. phase = "copy" => Command.what = "copy"
      BY DEF Command
    <3>3. Unaffected \/ Effect(Command) \/ (Command.what = "copy" /\ PartlyCopied(current))
      BY <1>2, <3>2 DEF CommandFails
    <3>4. HostUnchanged
      BY <1>2 DEF CommandFails
    <3> QED
      BY <1>1, <3>1, <3>3, <3>4, EffectIsHarmless
  <2> QED
    BY <2>1, <2>2
<1>3. CASE ClientEnds
  <2>1. client.archive \in Archives /\ Harmless(client)
    BY <1>3 DEF ClientEnds, ArchiveInv, ArchiveTypeOK, ClientIsHarmless
  <2> QED
    BY <1>3, <2>1, EffectIsHarmless DEF ClientEnds
<1>4. CASE CopyPayloads \/ PublishMarker \/ PurgeFile \/ PurgeDirectory
  <2>1. current \in Archives
    BY <1>4, CurrentIsArchive DEF CopyPayloads, PublishMarker, PurgeFile, PurgeDirectory,
         LocalPhases, RemotePhases
  <2>2. Effect(Command)
    BY <1>4 DEF CopyPayloads, PublishMarker, PurgeFile, PurgeDirectory, Command, Effect
  <2>3. HostUnchanged
    BY <1>4 DEF CopyPayloads, PublishMarker, PurgeFile, PurgeDirectory, Succeeds
  <2> QED
    BY <1>1, <2>1, <2>2, <2>3, EffectIsHarmless
<1> QED
  BY <1>2, <1>3, <1>4 DEF OnShare

\* Every other step leaves the share and the ages alone, and of the host takes only what
\* the archive in retirement still has there.
Retires ==
    /\ phase = "retire"
    /\ \/ UNCHANGED <<backups, backupDirs>>
       \/ RemovePayload /\ UNCHANGED backupDirs
       \/ /\ backups[current] = {} /\ backupDirs' = backupDirs \ {current}
          /\ UNCHANGED backups

LEMMA OtherSteps ==
    ASSUME [ArchiveNext]_archiveVars, ~Beside, ~OnShare
    PROVE  /\ UNCHANGED <<age, remote, remoteDirs, spoiled, pinned>>
           /\ UNCHANGED <<backups, backupDirs>> \/ Retires
           /\ client' \in {client, NoClient}
<1> USE DEF stores, run, Unaffected, HostUnchanged
<1>1. CASE NameTaken \/ Begin \/ SelectLocal \/ ProbeComplete \/ ProbeMissing \/ ProbeRefuses
  BY <1>1 DEF NameTaken, Begin, SelectLocal, ProbeComplete, ProbeMissing, ProbeRefuses, Succeeds
<1>2. CASE Check \/ CheckDiffers \/ Confirm \/ RemovePayload \/ RemoveLocalDirectory
  BY <1>2 DEF Check, CheckDiffers, Confirm, RemovePayload, RemoveLocalDirectory, Succeeds, Retires
<1>3. CASE RetireFails \/ LocalDone \/ ListRemote \/ SelectRemote \/ Examine \/ ExamineRefuses
  BY <1>3 DEF RetireFails, LocalDone, ListRemote, SelectRemote, Examine, ExamineRefuses, Succeeds
<1>4. CASE Finish \/ Kill
  BY <1>4 DEF Finish, Kill, Ends
<1>5. CASE UNCHANGED archiveVars
  BY <1>5 DEF archiveVars
<1> QED
  BY <1>1, <1>2, <1>3, <1>4, <1>5 DEF ArchiveNext, Beside, OnShare

-----------------------------------------------------------------------------
(* The invariant *)

LEMMA MarkersKeepVouching ==
    ASSUME ArchiveInv, [ArchiveNext]_archiveVars
    PROVE  MarkersVouch'
<1>1. CASE Beside
  BY <1>1, BesideKeeps DEF MarkersVouch, ArchiveInv
<1>2. CASE OnShare
  BY <1>2, ShareSteps DEF ShareStep, MarkersVouch, ArchiveInv, Unaffected, HostUnchanged, Doomed
<1>3. CASE ~Beside /\ ~OnShare
  BY <1>3, OtherSteps DEF MarkersVouch, ArchiveInv, ArchiveTypeOK, Doomed, Retires, RemovePayload
<1> QED
  BY <1>1, <1>2, <1>3

LEMMA KnowledgeKeeps ==
    ASSUME ArchiveInv, [ArchiveNext]_archiveVars
    PROVE  RunKnows'
<1> USE DEF ArchiveInv, RunKnows
<1>1. CASE Beside
  BY <1>1, BesideKeeps DEF run
<1>2. CASE OnShare
  <2>1. HostUnchanged /\ (\A a \in Archives : age[a] = "none" => "COMPLETE" \notin remote'[a])
    BY <1>2, ShareSteps DEF ShareStep, Unaffected
  <2>2. UNCHANGED <<protected, seen>> /\ (phase' = "idle" <=> phase = "idle")
    BY <1>2 DEF OnShare, CommandFails, ClientEnds, CopyPayloads, PublishMarker, PurgeFile,
         PurgeDirectory, Succeeds, Raise, run, LocalPhases, RemotePhases
  <2> QED
    BY <2>1, <2>2 DEF HostUnchanged
<1>3. CASE ~Beside /\ ~OnShare
  <2>1. /\ UNCHANGED <<age, remote, pinned>>
        /\ \A a \in Archives : backups'[a] # {} => a \in backupDirs'
        /\ backupDirs' \subseteq backupDirs
    BY <1>3, OtherSteps DEF Retires, RemovePayload, ArchiveTypeOK
  <2>2. \/ phase' = "idle" /\ seen' = Unsealed
        \/ phase # "idle" /\ UNCHANGED <<protected, seen>>
        \/ Begin
        \/ UNCHANGED <<phase, protected, seen>>
    <3>1. CASE NameTaken \/ Begin \/ SelectLocal \/ ProbeComplete \/ ProbeMissing \/ ProbeRefuses
      BY <3>1 DEF NameTaken, SelectLocal, ProbeComplete, ProbeMissing, ProbeRefuses, Succeeds, Raise,
           LocalPhases, RemotePhases
    <3>2. CASE Check \/ CheckDiffers \/ Confirm \/ RemovePayload \/ RemoveLocalDirectory
      BY <3>2 DEF Check, CheckDiffers, Confirm, RemovePayload, RemoveLocalDirectory, Succeeds, Raise, run
    <3>3. CASE RetireFails \/ LocalDone \/ ListRemote \/ SelectRemote \/ Examine \/ ExamineRefuses
      BY <3>3 DEF RetireFails, LocalDone, ListRemote, SelectRemote, Examine, ExamineRefuses, Succeeds, Raise
    <3>4. CASE Finish \/ Kill
      BY <3>4 DEF Finish, Kill, Ends
    <3>5. CASE UNCHANGED archiveVars
      BY <3>5 DEF archiveVars, run
    <3> QED
      BY <1>3, <3>1, <3>2, <3>3, <3>4, <3>5 DEF ArchiveNext, Beside, OnShare
  <2>3. CASE Begin
    BY <2>1, <2>3 DEF Begin
  <2>4. CASE seen' = Unsealed /\ phase' = "idle"
    BY <2>1, <2>4 DEF Unsealed
  <2> QED
    BY <2>1, <2>2, <2>3, <2>4
<1> QED
  BY <1>1, <1>2, <1>3

LEMMA ClientKeepsHarmless ==
    ASSUME ArchiveInv, [ArchiveNext]_archiveVars
    PROVE  ClientIsHarmless'
<1> USE DEF ArchiveInv, ClientIsHarmless, Harmless
<1>1. CASE Beside
  <2>1. client' = client /\ UNCHANGED <<remote, spoiled>> /\ Whole \subseteq Whole'
        /\ (\A a \in Archives : Doomed(a) => Doomed(a)')
    BY <1>1, BesideKeeps
  <2>2. client = NoClient \/ client.archive \in Archives
    BY DEF ArchiveTypeOK
  <2> QED
    BY <2>1, <2>2 DEF NoClient
<1>2. CASE OnShare
  <2>1. client' = NoClient \/ (client' = Command /\ Unaffected /\ HostUnchanged)
    BY <1>2 DEF OnShare, CommandFails, ClientEnds, CopyPayloads, PublishMarker, PurgeFile,
         PurgeDirectory, Succeeds
  <2>2. CASE client' = NoClient
    BY <2>2 DEF NoClient
  <2>3. CASE client' = Command /\ Unaffected /\ HostUnchanged
    <3>1. Harmless(Command)
      BY CommandIsHarmless
    <3>2. UNCHANGED <<remote, spoiled, age, backups, backupDirs, pinned>>
      BY <2>3 DEF Unaffected, HostUnchanged
    <3>3. Whole' = Whole /\ (\A a : Doomed(a) => Doomed(a)')
      BY <3>2 DEF Whole, Doomed
    <3> QED
      BY <2>3, <3>1, <3>2, <3>3
  <2> QED
    BY <2>1, <2>2, <2>3
<1>3. CASE ~Beside /\ ~OnShare
  <2>1. UNCHANGED <<age, remote, spoiled, pinned>> /\ client' \in {client, NoClient}
    BY <1>3, OtherSteps
  <2>2. CASE client' = NoClient
    BY <2>2 DEF NoClient
  <2>3. CASE client' = client /\ client # NoClient
    <3>1. UNCHANGED <<backups, backupDirs>>
      BY <1>3, <2>3, OtherSteps DEF Retires, PhaseRests
    <3> QED
      BY <2>1, <2>3, <3>1 DEF Whole, Doomed
  <2> QED
    BY <2>1, <2>2, <2>3
<1> QED
  BY <1>1, <1>2, <1>3

\* The next phase rests on what the last one saw.
LEMMA PhasesKeepResting ==
    ASSUME ArchiveInv, [ArchiveNext]_archiveVars
    PROVE  PhaseRests'
<1> USE DEF ArchiveInv, PhaseRests, LocalPhases, RemotePhases
<1>1. CASE Beside
  <2>1. /\ UNCHANGED <<remote, spoiled, phase, current, client>> /\ Whole \subseteq Whole'
        /\ \A a \in Archives : Doomed(a) => Doomed(a)'
        /\ \A a \in Archives : age[a] \in {"old", "expired"} => age'[a] \in {"old", "expired"}
        /\ \A a \in Archives : age[a] = "expired" => age'[a] = "expired"
        /\ phase = "idle" \/ UNCHANGED pinned
    BY <1>1, BesideKeeps DEF run
  <2>2. phase \in LocalPhases \cup RemotePhases \cup {"retire"} => current \in Archives
    BY CurrentIsArchive
  <2> QED
    BY <2>1, <2>2 DEF Delivered, RemoteComplete
<1>2. CASE CommandFails \/ NameTaken \/ ProbeRefuses \/ CheckDiffers \/ RetireFails \/ ExamineRefuses
  <2>1. phase' \in {"local", "remote"}
    BY <1>2 DEF CommandFails, NameTaken, ProbeRefuses, CheckDiffers, RetireFails, ExamineRefuses, Raise
  <2> QED
    BY <2>1
<1>3. CASE Begin \/ LocalDone \/ ListRemote \/ Finish \/ Kill \/ PurgeDirectory \/ RemoveLocalDirectory
  <2>1. phase' \in {"idle", "local", "list", "remote"}
    BY <1>3 DEF Begin, LocalDone, ListRemote, Finish, Kill, Ends, PurgeDirectory, Succeeds,
         RemoveLocalDirectory
  <2> QED
    BY <2>1
<1>4. CASE ClientEnds
  <2>1. /\ UNCHANGED <<phase, current, backups, age, pinned>>
        /\ phase \notin {"copy", "check", "publish", "confirm", "retire", "purge"}
    BY <1>4 DEF ClientEnds, HostUnchanged, run
  <2> QED
    BY <2>1 DEF Whole
<1>5. CASE SelectLocal
  BY <1>5 DEF SelectLocal, stores, Whole
<1>6. CASE ProbeMissing
  BY <1>6 DEF ProbeMissing, Succeeds, HostUnchanged, Unaffected, Whole
<1>7. CASE CopyPayloads
  <2>1. current \in Archives
    BY <1>7, CurrentIsArchive DEF CopyPayloads
  <2>2. Payloads \subseteq remote'[current] /\ "COMPLETE" \notin remote'[current]
    BY <1>7, <2>1 DEF CopyPayloads, Copied, ArchiveTypeOK, Payloads
  <2> QED
    BY <1>7, <2>2 DEF CopyPayloads, Succeeds, HostUnchanged, Whole
<1>8. CASE Check
  BY <1>8 DEF Check, Succeeds, HostUnchanged, Unaffected, Whole
<1>9. CASE PublishMarker
  BY <1>9 DEF PublishMarker, Succeeds, HostUnchanged, Whole
<1>10. CASE ProbeComplete \/ Confirm
  <2>1. /\ RemoteComplete(current) /\ current \in Whole /\ client = NoClient
        /\ UNCHANGED <<current, client, age, backups, backupDirs, pinned, remote, spoiled>>
        /\ phase' = Verified(current) /\ phase # "idle"
    BY <1>10 DEF ProbeComplete, Confirm, Succeeds, HostUnchanged, Unaffected
  <2>2. current \in backupDirs /\ protected = pinned
    BY <2>1 DEF RunKnows, Whole, Payloads
  <2>3. current \in Delivered
    BY <2>1, <2>2 DEF MarkersVouch, Doomed, Delivered, RemoteComplete, Marked, Whole
  <2>4. phase' = "retire" => current \notin pinned /\ age[current] \in {"old", "expired"}
    BY <2>1, <2>2 DEF Verified, Aged, RunKnows, Whole
  <2>5. Delivered' = Delivered
    BY <2>1 DEF Delivered, RemoteComplete
  <2> QED
    BY <2>1, <2>3, <2>4, <2>5 DEF Verified
<1>11. CASE RemovePayload
  BY <1>11 DEF RemovePayload, run, Delivered, RemoteComplete
<1>12. CASE SelectRemote
  <2>1. current' \in Archives /\ protected = pinned /\ UNCHANGED <<age, pinned>>
    BY <1>12 DEF SelectRemote, IsFirst, ArchiveTypeOK, RunKnows, stores
  <2>2. phase' \in {"examine", "remote"} /\ (phase' = "examine" => Overdue(current'))
    BY <1>12 DEF SelectRemote
  <2> QED
    BY <2>1, <2>2 DEF Overdue, RunKnows
<1>13. CASE Examine
  BY <1>13 DEF Examine, Succeeds, HostUnchanged, Unaffected, Doomed
<1>14. CASE PurgeFile
  BY <1>14 DEF PurgeFile, Succeeds, HostUnchanged, Doomed
<1>15. CASE UNCHANGED archiveVars
  BY <1>15 DEF archiveVars, stores, run, Whole, Doomed, Delivered, RemoteComplete
<1> QED
  BY <1>1, <1>2, <1>3, <1>4, <1>5, <1>6, <1>7, <1>8, <1>9, <1>10, <1>11, <1>12, <1>13, <1>14, <1>15
     DEF ArchiveNext, Beside

LEMMA ArchiveStarts == ArchiveInit => ArchiveInv
<1> SUFFICES ASSUME ArchiveInit PROVE ArchiveInv
  OBVIOUS
<1> USE DEF ArchiveInit, Unsealed, NoClient
<1>1. ArchiveTypeOK
  <2>1. HostHoldingsTypeOK /\ ShareTypeOK /\ ClientTypeOK
    BY DEF HostHoldingsTypeOK, ShareTypeOK, ClientTypeOK, Ages
  <2>2. RunTypeOK /\ setbacks \in 0..MaxTransferFaults
    BY ArchivesConstant, TransferConstants DEF RunTypeOK, Ages
  <2> QED
    BY <2>1, <2>2 DEF ArchiveTypeOK, HostHoldingsTypeOK, ShareTypeOK, ClientTypeOK, RunTypeOK
<1>2. MarkersVouch /\ RunKnows
  BY DEF MarkersVouch, RunKnows
<1>3. PhaseRests /\ ClientIsHarmless
  BY DEF PhaseRests, LocalPhases, ClientIsHarmless, Harmless
<1> QED
  BY <1>1, <1>2, <1>3 DEF ArchiveInv

LEMMA ArchiveKeeps ==
    ASSUME ArchiveInv, [ArchiveNext]_archiveVars
    PROVE  ArchiveInv'
BY ArchiveTyping, MarkersKeepVouching, KnowledgeKeeps, PhasesKeepResting, ClientKeepsHarmless
   DEF ArchiveInv

-----------------------------------------------------------------------------
(* The promise *)

LEMMA StartsAsPromised == ArchiveInit => Promise!Init
BY DEF ArchiveInit, Promise!Init, Unsealed, Whole, Payloads, Delivered, RemoteComplete, Marked

LEMMA StepKeepsPromise ==
    ASSUME ArchiveInv, [ArchiveNext]_archiveVars
    PROVE  [Promise!Next]_Promise!archives
<1> USE DEF ArchiveInv, Promise!archives
<1>1. ASSUME NEW a \in Archives,
             \/ Promise!Seal(a) \/ Promise!Reserve(a) \/ Promise!SealReserved(a) \/ Promise!GrowOld(a)
             \/ Promise!Deliver(a) \/ Promise!DropHere(a) \/ Promise!DropThere(a)
      PROVE  Promise!Next
  BY <1>1 DEF Promise!Next
<1>2. CASE SealArchive
  <2>1. PICK a \in Archives :
          /\ age[a] = "none" /\ age' = [age EXCEPT ![a] = "fresh"]
          /\ backups' = [backups EXCEPT ![a] = Payloads]
          /\ UNCHANGED <<remote, spoiled, pinned>>
    BY <1>2 DEF SealArchive, NextName
  <2>2. Whole' = Whole \cup {a}
    BY <2>1 DEF Whole, ArchiveTypeOK
  <2>3. Delivered' = Delivered
    BY <2>1 DEF Delivered, RemoteComplete
  <2> QED
    BY <1>1, <2>1, <2>2, <2>3 DEF Promise!Seal
<1>3. CASE DaysPass
  <2>1. UNCHANGED <<Whole, Delivered, pinned>>
    BY <1>3 DEF DaysPass, Whole, Delivered, RemoteComplete
  <2>2. PICK a \in Archives :
          age[a] \in {"fresh", "old"} /\ age' = [age EXCEPT ![a] = Older[age[a]]]
    BY <1>3 DEF DaysPass, OneOlder
  <2>3. Older["fresh"] = "old" /\ Older["old"] = "expired"
    BY DEF Older
  <2>4. Promise!GrowOld(a)
    <3>1. CASE age[a] = "fresh"
      BY <2>1, <2>2, <2>3, <3>1 DEF Promise!GrowOld
    <3>2. CASE age[a] = "old"
      BY <2>1, <2>2, <2>3, <3>2 DEF Promise!GrowOld
    <3> QED
      BY <2>2, <3>1, <3>2
  <2> QED
    BY <1>1, <2>4
<1>4. CASE Pin
  <2>1. UNCHANGED <<Whole, Delivered>>
    BY <1>4 DEF Pin, Whole, Delivered, RemoteComplete
  <2>2. PICK a \in Archives :
          age[a] = "none" /\ age' = [age EXCEPT ![a] = "fresh"] /\ pinned' = pinned \cup {a}
    BY <1>4 DEF Pin, NextName
  <2> QED
    BY <1>1, <2>1, <2>2 DEF Promise!Reserve
<1>5. CASE SealPinned
  <2>1. PICK a \in pinned \ backupDirs :
          backups' = [backups EXCEPT ![a] = Marked] /\ UNCHANGED <<age, remote, spoiled, pinned>>
    BY <1>5 DEF SealPinned
  <2>2. a \in Archives /\ backups[a] = {}
    BY <2>1 DEF ArchiveTypeOK, RunKnows
  <2>3. a \notin Whole /\ Whole' = Whole \cup {a}
    BY <2>1, <2>2 DEF Whole, ArchiveTypeOK, Marked, Payloads
  <2>4. Delivered' = Delivered
    BY <2>1 DEF Delivered, RemoteComplete
  <2> QED
    BY <1>1, <2>1, <2>2, <2>3, <2>4 DEF Promise!SealReserved
<1>6. CASE OnShare
  <2>1. UNCHANGED <<age, Whole, pinned>> /\ (ShareStep(Command) \/ ShareStep(client) \/ Unaffected)
    BY <1>6, ShareSteps DEF HostUnchanged, Whole
  <2>2. ASSUME NEW c, ShareStep(c)
        PROVE  Promise!Next \/ UNCHANGED Delivered
    <3>1. CASE c.archive \in Whole /\ Delivered' = Delivered \cup {c.archive}
      BY <1>1, <2>1, <3>1 DEF Promise!Deliver, Whole
    <3>2. CASE Doomed(c.archive) /\ Delivered' = Delivered \ {c.archive}
      <4>1. c.archive \in Archives /\ c.archive \notin Whole \cup pinned /\ age[c.archive] = "expired"
        BY <3>2 DEF Doomed, RunKnows, Whole, Payloads
      <4> QED
        BY <1>1, <2>1, <3>2, <4>1 DEF Promise!DropThere
    <3> QED
      BY <2>2, <3>1, <3>2 DEF ShareStep
  <2>3. Unaffected => UNCHANGED Delivered
    BY DEF Unaffected, Delivered, RemoteComplete
  <2> QED
    BY <2>1, <2>2, <2>3
<1>7. CASE ~Beside /\ ~OnShare
  <2>1. UNCHANGED <<age, remote, spoiled, pinned>> /\ (UNCHANGED backups \/ (Retires /\ RemovePayload))
    BY <1>7, OtherSteps DEF Retires
  <2>2. Delivered' = Delivered
    BY <2>1 DEF Delivered, RemoteComplete
  <2>3. CASE UNCHANGED backups
    BY <2>1, <2>2, <2>3 DEF Whole
  <2>4. CASE Retires /\ RemovePayload
    <3>1. /\ current \in Delivered \ pinned /\ age[current] \in {"old", "expired"}
          /\ \A a \in Archives \ {current} : backups'[a] = backups[a]
          /\ backups'[current] \subseteq backups[current] /\ current \in Archives
      BY <2>4 DEF Retires, RemovePayload, PhaseRests, ArchiveTypeOK, Delivered
    <3>2. Whole' = Whole \/ Whole' = Whole \ {current}
      BY <3>1 DEF Whole
    <3> QED
      BY <1>1, <2>1, <2>2, <3>1, <3>2 DEF Promise!DropHere
  <2> QED
    BY <2>1, <2>3, <2>4
<1> QED
  BY <1>2, <1>3, <1>4, <1>5, <1>6, <1>7 DEF Beside

-----------------------------------------------------------------------------
(* The report *)


LocalPass == {"local", "retire"} \cup LocalPhases
RemotePass == {"remote"} \cup RemotePhases

\* What was sealed is on the host while it is fresh, and there or on the share while it is old.
SealedIsKept ==
    \A a \in Archives : a \notin pinned \/ a \in backupDirs =>
        /\ age[a] = "fresh" => a \in Whole
        /\ age[a] = "old" => a \in Whole \cup Delivered

\* The pass over the host left an archive where its age wants it.
Placed(a) ==
    /\ seen[a] = "fresh" => a \in Whole \cap Delivered
    /\ seen[a] = "old" => a \in Delivered /\ (a \in backupDirs => a \in protected)
    /\ Overdue(a) => a \notin backupDirs

\* What a run without an error has behind it.
PassesAccount ==
    phase # "idle" /\ erred = {} =>
        /\ \A a \in Archives :
             \/ phase \in LocalPass /\ (a \in pending \/ (a = current /\ phase # "local"))
             \/ Placed(a)
        /\ phase \in RemotePass =>
             /\ client = NoClient
             /\ \A a \in remoteDirs : Overdue(a) => a \in pending \/ (a = current /\ phase # "remote")

\* What is retired and purged has that age in the eyes of the run; a late deletion is of
\* what had it before.
RunTakes ==
    /\ phase = "retire" => Aged(current)
    /\ phase \in RemotePhases => Overdue(current)
    /\ client.what \in {"delete", "rmdir"} => seen[client.archive] \notin {"fresh", "old"}

HonestInv == ArchiveInv /\ SealedIsKept /\ PassesAccount /\ RunTakes

LEMMA HonestStarts == ArchiveInit => HonestInv
<1> SUFFICES ASSUME ArchiveInit PROVE HonestInv
  OBVIOUS
<1>1. age = Unsealed /\ phase = "idle" /\ client = NoClient
  BY DEF ArchiveInit
<1> QED
  BY <1>1, ArchiveStarts DEF HonestInv, SealedIsKept, PassesAccount, RunTakes, Unsealed, RemotePhases, NoClient

\* Of the commands only a deletion takes something that was delivered.
LEMMA OnlyDeletionsLose ==
    ASSUME ArchiveTypeOK, NEW c, c.archive \in Archives, Harmless(c),
           Effect(c) \/ (c.what = "copy" /\ PartlyCopied(c.archive)),
           NEW a \in Delivered, a \notin Delivered'
    PROVE  c.what = "delete" /\ a = c.archive
<1> USE DEF ArchiveTypeOK, Harmless, Delivered, RemoteComplete, Marked
<1>1. CASE c.what = "copy" /\ (Copied(c.archive) \/ PartlyCopied(c.archive))
  BY <1>1 DEF Copied, PartlyCopied
<1>2. CASE c.what = "publish" /\ Published(c.archive)
  BY <1>2 DEF Published
<1>3. CASE c.what = "delete" /\ Deleted(c.archive, c.file)
  BY <1>3 DEF Deleted
<1>4. CASE c.what = "rmdir" /\ DirectoryRemoved(c.archive)
  BY <1>4 DEF DirectoryRemoved
<1>5. CASE Unaffected
  BY <1>5 DEF Unaffected
<1> QED
  BY <1>1, <1>2, <1>3, <1>4, <1>5 DEF Effect

\* The share loses nothing that is fresh or old in the eyes of the run, and the host only
\* what the archive in retirement had there.
LEMMA NothingIsLost ==
    ASSUME HonestInv, [ArchiveNext]_archiveVars
    PROVE  /\ \A a \in Delivered \ Delivered' : age[a] = "expired" /\ seen[a] \notin {"fresh", "old"}
           /\ \A a \in Whole \ Whole' : phase = "retire" /\ a = current
<1>1. ArchiveInv /\ ArchiveTypeOK /\ RunTakes
  BY DEF HonestInv, ArchiveInv
<1>2. CASE Beside
  BY <1>1, <1>2, BesideKeeps DEF Delivered, RemoteComplete
<1>3. CASE ~Beside /\ ~OnShare
  <2>1. UNCHANGED <<remote, spoiled>> /\ (UNCHANGED <<backups, backupDirs>> \/ Retires)
    BY <1>3, OtherSteps
  <2>2. Delivered' = Delivered
    BY <2>1 DEF Delivered, RemoteComplete
  <2>3. ASSUME Retires, NEW a \in Whole \ Whole' PROVE phase = "retire" /\ a = current
    BY <1>1, <2>3 DEF Retires, RemovePayload, Whole, ArchiveTypeOK
  <2> QED
    BY <2>1, <2>2, <2>3 DEF Whole
<1>4. CASE OnShare
  <2>1. HostUnchanged
    BY <1>1, <1>4, ShareSteps
  <2>2. Whole' = Whole
    BY <2>1 DEF HostUnchanged, Whole
  <2>3. Command.archive = current /\ Harmless(Command)
    BY <1>1, CommandTyping, CommandIsHarmless
  <2>4. /\ Command.what = "delete" => phase = "purge"
        /\ Command.what # "read" => phase \in LocalPhases \cup RemotePhases
    BY DEF Command, LocalPhases, RemotePhases
  <2>5. ASSUME NEW a \in Delivered \ Delivered', current \in Archives,
               Effect(Command) \/ (Command.what = "copy" /\ PartlyCopied(current))
        PROVE  age[a] = "expired" /\ seen[a] \notin {"fresh", "old"}
    <3>1. Command.what = "delete" /\ a = current
      BY <1>1, <2>3, <2>5, OnlyDeletionsLose
    <3>2. phase = "purge"
      BY <2>4, <3>1
    <3> QED
      BY <1>1, <3>1, <3>2 DEF ArchiveInv, PhaseRests, Doomed, RunTakes, RemotePhases, Overdue
  <2>6. ASSUME NEW a \in Delivered \ Delivered', ClientEnds
        PROVE  age[a] = "expired" /\ seen[a] \notin {"fresh", "old"}
    <3>1. client.archive \in Archives /\ Harmless(client) /\ Effect(client)
      BY <1>1, <2>6 DEF ClientEnds, ArchiveTypeOK, ArchiveInv, ClientIsHarmless
    <3>2. client.what = "delete" /\ a = client.archive
      BY <1>1, <2>6, <3>1, OnlyDeletionsLose
    <3> QED
      BY <1>1, <3>1, <3>2 DEF Harmless, Doomed, RunTakes
  <2>7. ASSUME NEW a \in Delivered \ Delivered', CommandFails
        PROVE  age[a] = "expired" /\ seen[a] \notin {"fresh", "old"}
    <3>1. ~Unaffected
      BY <2>7 DEF Unaffected, Delivered, RemoteComplete
    <3>2. Effect(Command) \/ (phase = "copy" /\ PartlyCopied(current))
      BY <2>7, <3>1 DEF CommandFails
    <3>3. phase = "copy" => Command.what = "copy"
      BY DEF Command
    <3>4. Command.what # "read"
      BY <3>1, <3>2, <3>3 DEF Effect
    <3>5. current \in Archives
      BY <1>1, <2>4, <3>4, CurrentIsArchive
    <3> QED
      BY <2>5, <2>7, <3>2, <3>3, <3>5
  <2>8. ASSUME NEW a \in Delivered \ Delivered', CopyPayloads \/ PublishMarker \/ PurgeFile \/ PurgeDirectory
        PROVE  age[a] = "expired" /\ seen[a] \notin {"fresh", "old"}
    <3>1. Effect(Command)
      BY <2>8 DEF CopyPayloads, PublishMarker, PurgeFile, PurgeDirectory, Command, Effect
    <3>2. phase \in LocalPhases \cup RemotePhases
      BY <2>8 DEF CopyPayloads, PublishMarker, PurgeFile, PurgeDirectory, LocalPhases, RemotePhases
    <3>3. current \in Archives
      BY <1>1, <3>2, CurrentIsArchive
    <3> QED
      BY <2>5, <2>8, <3>1, <3>3
  <2> QED
    BY <1>4, <2>2, <2>6, <2>7, <2>8 DEF OnShare
<1> QED
  BY <1>2, <1>3, <1>4

LEMMA SealedStaysKept ==
    ASSUME HonestInv, [ArchiveNext]_archiveVars
    PROVE  SealedIsKept'
<1>1. ArchiveInv /\ ArchiveTypeOK /\ SealedIsKept
  BY DEF HonestInv, ArchiveInv
<1>2. ASSUME NEW a \in Archives, a \notin pinned \/ a \in backupDirs, age'[a] = age[a]
      PROVE  /\ age'[a] = "fresh" => a \in Whole'
             /\ age'[a] = "old" => a \in Whole' \cup Delivered'
  <2>1. /\ \A d \in Delivered \ Delivered' : age[d] = "expired"
        /\ \A d \in Whole \ Whole' : phase = "retire" /\ d = current
    BY NothingIsLost
  <2>2. phase = "retire" => current \in Delivered /\ age[current] \in {"old", "expired"}
    BY <1>1 DEF ArchiveInv, PhaseRests
  <2> QED
    BY <1>1, <1>2, <2>1, <2>2 DEF SealedIsKept
<1>3. ASSUME NEW a \in Archives, a \notin pinned' \/ a \in backupDirs'
      PROVE  /\ age'[a] = "fresh" => a \in Whole'
             /\ age'[a] = "old" => a \in Whole' \cup Delivered'
  <2>1. CASE SealArchive
    BY <1>1, <1>2, <1>3, <2>1 DEF SealArchive, Whole, ArchiveTypeOK, Payloads, Marked
  <2>2. CASE SealPinned
    BY <1>1, <1>2, <1>3, <2>2 DEF SealPinned, Whole, ArchiveTypeOK, Payloads, Marked
  <2>3. CASE Pin
    BY <1>1, <1>2, <1>3, <2>3 DEF Pin, NextName, ArchiveInv, RunKnows, ArchiveTypeOK
  <2>4. CASE DaysPass
    <3>1. UNCHANGED <<pinned, backupDirs, backups, remote, spoiled>>
      BY <2>4 DEF DaysPass
    <3>2. PICK b \in Archives : age[b] \in {"fresh", "old"} /\ age' = [age EXCEPT ![b] = Older[age[b]]]
      BY <2>4 DEF DaysPass, OneOlder
    <3>3. Whole' = Whole /\ Delivered' = Delivered
      BY <3>1 DEF Whole, Delivered, RemoteComplete
    <3>4. a # b => age'[a] = age[a]
      BY <1>1, <3>2 DEF ArchiveTypeOK
    <3>5. a = b => (age[a] = "fresh" /\ age'[a] = "old") \/ age'[a] = "expired"
      BY <1>1, <3>2 DEF ArchiveTypeOK, Older
    <3> QED
      BY <1>1, <1>2, <1>3, <3>1, <3>3, <3>4, <3>5 DEF SealedIsKept
  <2>5. CASE OnShare
    BY <1>1, <1>2, <1>3, <2>5, ShareSteps DEF HostUnchanged
  <2>6. CASE ~Beside /\ ~OnShare
    <3>1. UNCHANGED <<age, pinned>> /\ backupDirs' \subseteq backupDirs
      BY <2>6, OtherSteps DEF Retires
    <3> QED
      BY <1>2, <1>3, <3>1
  <2> QED
    BY <2>1, <2>2, <2>3, <2>4, <2>5, <2>6 DEF Beside
<1> QED
  BY <1>3 DEF SealedIsKept

\* During a run its clock and what it read of the pins stand still.
LEMMA RunStandsStill ==
    ASSUME [ArchiveNext]_archiveVars, phase # "idle", phase' # "idle"
    PROVE  UNCHANGED <<seen, protected>>
<1>1. CASE Beside
  BY <1>1 DEF Beside, SealArchive, DaysPass, Pin, SealPinned, run
<1>2. CASE OnShare
  BY <1>2 DEF OnShare, CommandFails, ClientEnds, CopyPayloads, PublishMarker, PurgeFile, PurgeDirectory, Succeeds,
     Raise, run
<1>3. CASE NameTaken \/ Begin \/ SelectLocal \/ ProbeComplete \/ ProbeMissing \/ ProbeRefuses
  BY <1>3 DEF NameTaken, Begin, SelectLocal, ProbeComplete, ProbeMissing, ProbeRefuses, Succeeds, Raise
<1>4. CASE Check \/ CheckDiffers \/ Confirm \/ RemovePayload \/ RemoveLocalDirectory
  BY <1>4 DEF Check, CheckDiffers, Confirm, RemovePayload, RemoveLocalDirectory, Succeeds, Raise, run
<1>5. CASE RetireFails \/ LocalDone \/ ListRemote \/ SelectRemote \/ Examine \/ ExamineRefuses
  BY <1>5 DEF RetireFails, LocalDone, ListRemote, SelectRemote, Examine, ExamineRefuses, Succeeds, Raise
<1>6. CASE Finish \/ Kill
  BY <1>6 DEF Finish, Kill, Ends
<1>7. CASE UNCHANGED archiveVars
  BY <1>7 DEF archiveVars, run
<1> QED
  BY <1>1, <1>2, <1>3, <1>4, <1>5, <1>6, <1>7 DEF ArchiveNext, Beside, OnShare

LEMMA RunStillTakes ==
    ASSUME HonestInv, [ArchiveNext]_archiveVars
    PROVE  RunTakes'
<1>1. ArchiveInv /\ ArchiveTypeOK /\ RunTakes /\ RunKnows
  BY DEF HonestInv, ArchiveInv
<1>2. phase' = "retire" => Aged(current)'
  <2>1. CASE phase = "retire" /\ phase' = "retire"
    <3>1. current' = current
      BY <2>1 DEF ArchiveNext, archiveVars, run, stores, SealArchive, DaysPass, Pin, SealPinned, CommandFails, NameTaken, ClientEnds, Begin,
         SelectLocal, ProbeComplete, ProbeMissing, ProbeRefuses, CopyPayloads, Check, CheckDiffers, PublishMarker, Confirm,
         RemovePayload, RemoveLocalDirectory, RetireFails, LocalDone, ListRemote, SelectRemote, Examine, ExamineRefuses,
         PurgeFile, PurgeDirectory, Finish, Kill, Ends, Succeeds, Raise
    <3> QED
      BY <1>1, <2>1, <3>1, RunStandsStill DEF RunTakes, Aged
  <2>2. CASE phase # "retire" /\ phase' = "retire"
    <3>1. ProbeComplete \/ Confirm
      BY <2>2 DEF ArchiveNext, archiveVars, run, stores, SealArchive, DaysPass, Pin, SealPinned, CommandFails, NameTaken, ClientEnds, Begin,
         SelectLocal, ProbeMissing, ProbeRefuses, CopyPayloads, Check, CheckDiffers, PublishMarker,
         RemovePayload, RemoveLocalDirectory, RetireFails, LocalDone, ListRemote, SelectRemote, Examine, ExamineRefuses,
         PurgeFile, PurgeDirectory, Finish, Kill, Ends, Succeeds, Raise
    <3> QED
      BY <2>2, <3>1 DEF ProbeComplete, Confirm, Succeeds, Verified, Aged
  <2> QED
    BY <2>1, <2>2
<1>3. phase' \in RemotePhases => Overdue(current)'
  <2>1. CASE phase \in RemotePhases /\ phase' \in RemotePhases
    <3>1. current' = current
      BY <2>1 DEF ArchiveNext, archiveVars, run, stores, SealArchive, DaysPass, Pin, SealPinned, CommandFails, NameTaken, ClientEnds, Begin,
         SelectLocal, ProbeComplete, ProbeMissing, ProbeRefuses, CopyPayloads, Check, CheckDiffers, PublishMarker, Confirm,
         RemovePayload, RemoveLocalDirectory, RetireFails, LocalDone, ListRemote, SelectRemote, Examine, ExamineRefuses,
         PurgeFile, PurgeDirectory, Finish, Kill, Ends, Succeeds, Raise, RemotePhases
    <3> QED
      BY <1>1, <2>1, <3>1, RunStandsStill DEF RunTakes, Overdue, RemotePhases
  <2>2. CASE phase \notin RemotePhases /\ phase' \in RemotePhases
    <3>1. SelectRemote
      BY <2>2 DEF ArchiveNext, archiveVars, run, stores, SealArchive, DaysPass, Pin, SealPinned, CommandFails, NameTaken, ClientEnds, Begin,
         SelectLocal, ProbeComplete, ProbeMissing, ProbeRefuses, CopyPayloads, Check, CheckDiffers, PublishMarker, Confirm,
         RemovePayload, RemoveLocalDirectory, RetireFails, LocalDone, ListRemote, Examine, ExamineRefuses,
         PurgeFile, PurgeDirectory, Finish, Kill, Ends, Succeeds, Raise, RemotePhases, LocalPhases, Verified
    <3> QED
      BY <2>2, <3>1 DEF SelectRemote, Overdue, RemotePhases
  <2> QED
    BY <2>1, <2>2
<1>4. client'.what \in {"delete", "rmdir"} => seen'[client'.archive] \notin {"fresh", "old"}
  <2> SUFFICES ASSUME client'.what \in {"delete", "rmdir"} PROVE seen'[client'.archive] \notin {"fresh", "old"}
    OBVIOUS
  <2>1. ArchiveTypeOK' /\ ClientIsHarmless'
    BY <1>1, ArchiveTyping, ClientKeepsHarmless
  <2>2. client' # NoClient /\ client'.archive \in Archives /\ Doomed(client.archive)'
    BY <2>1 DEF ArchiveTypeOK, NoClient, ClientIsHarmless, Harmless
  <2>3. CASE seen' = Unsealed
    BY <2>2, <2>3 DEF Unsealed
  <2>4. CASE Begin
    BY <2>2, <2>4 DEF Begin, Doomed, stores
  <2>5. CASE seen' = seen /\ client' = client
    BY <1>1, <2>5 DEF RunTakes
  <2>6. CASE CommandFails /\ client' # client
    <3>1. client' = Command /\ seen' = seen /\ Command.archive = current
      BY <1>1, <2>6, CommandTyping DEF CommandFails, Raise
    <3>2. phase = "purge"
      BY <3>1 DEF Command
    <3> QED
      BY <1>1, <3>1, <3>2 DEF RunTakes, Overdue, RemotePhases
  <2>7. seen' = Unsealed \/ Begin \/ seen' = seen
    <3>1. CASE Finish \/ Kill
      BY <3>1 DEF Finish, Kill, Ends
    <3>2. CASE phase # "idle" /\ phase' # "idle"
      BY <3>2, RunStandsStill
    <3>3. CASE phase = "idle" \/ phase' = "idle"
      BY <3>1, <3>3 DEF ArchiveNext, archiveVars, run, stores, SealArchive, DaysPass, Pin, SealPinned, CommandFails, NameTaken, ClientEnds,
         SelectLocal, ProbeComplete, ProbeMissing, ProbeRefuses, CopyPayloads, Check, CheckDiffers, PublishMarker, Confirm,
         RemovePayload, RemoveLocalDirectory, RetireFails, LocalDone, ListRemote, SelectRemote, Examine, ExamineRefuses,
         PurgeFile, PurgeDirectory, Succeeds, Raise, Verified
    <3> QED
      BY <3>2, <3>3
  <2>8. client' = client \/ client' = NoClient \/ CommandFails
    <3>1. CASE Beside
      BY <1>1, <3>1, BesideKeeps
    <3>2. CASE OnShare
      BY <3>2 DEF OnShare, ClientEnds, CopyPayloads, PublishMarker, PurgeFile, PurgeDirectory, Succeeds
    <3>3. CASE ~Beside /\ ~OnShare
      BY <3>3, OtherSteps
    <3> QED
      BY <3>1, <3>2, <3>3
  <2> QED
    BY <2>2, <2>3, <2>4, <2>5, <2>6, <2>7, <2>8 DEF CommandFails, Raise
<1> QED
  BY <1>2, <1>3, <1>4 DEF RunTakes

\* What the pass over the host left in its place stays there.
LEMMA PlacedStays ==
    ASSUME HonestInv, [ArchiveNext]_archiveVars, phase # "idle", phase' # "idle",
           NEW a \in Archives, Placed(a), ~(phase = "retire" /\ a = current)
    PROVE  Placed(a)'
<1>1. ArchiveInv /\ ArchiveTypeOK /\ RunKnows
  BY DEF HonestInv, ArchiveInv
<1>2. UNCHANGED <<seen, protected>>
  BY RunStandsStill
<1>3. /\ a \in Delivered /\ seen[a] \in {"fresh", "old"} => a \in Delivered'
      /\ a \in Whole => a \in Whole'
  BY NothingIsLost
<1>4. a \in backupDirs' => a \in backupDirs \/ a \in protected \/ age[a] = "none"
  <2>1. CASE Beside
    BY <1>1, <2>1 DEF Beside, SealArchive, DaysPass, Pin, SealPinned, NextName, RunKnows
  <2>2. CASE OnShare
    BY <1>1, <2>2, ShareSteps DEF HostUnchanged
  <2>3. CASE ~Beside /\ ~OnShare
    BY <2>3, OtherSteps DEF Retires
  <2> QED
    BY <2>1, <2>2, <2>3
<1>5. seen[a] \in {"old", "expired"} => age[a] # "none"
  BY <1>1 DEF RunKnows
<1> QED
  BY <1>2, <1>3, <1>4, <1>5 DEF Placed, Overdue

\* How a run without an error goes on.
Proceeds ==
    \/ UNCHANGED <<phase, current, pending, client, remoteDirs>>
    \/ ClientEnds /\ UNCHANGED <<phase, current, pending>>
    \/ phase = "local" /\ phase' = "probe" /\ pending' = pending \ {current'} /\ UNCHANGED client
    \/ /\ phase \in LocalPhases /\ phase' \in LocalPhases \cup {"retire"} 
       /\ UNCHANGED <<current, pending, client>>
    \/ ProbeComplete /\ phase' = "local"
    \/ Confirm /\ phase' = "local"
    \/ RemoveLocalDirectory
    \/ LocalDone
    \/ ListRemote
    \/ SelectRemote
    \/ phase = "examine" /\ phase' = "purge" /\ UNCHANGED <<current, pending, client, remoteDirs>>
    \/ PurgeDirectory

LEMMA RunProceeds ==
    ASSUME [ArchiveNext]_archiveVars, phase # "idle", phase' # "idle", erred' = {}
    PROVE  erred = {} /\ Proceeds
<1> USE DEF Proceeds
<1>1. CASE SealArchive \/ DaysPass \/ Pin \/ SealPinned \/ UNCHANGED archiveVars
  BY <1>1 DEF SealArchive, DaysPass, Pin, SealPinned, archiveVars, stores, run
<1>2. CASE CommandFails \/ NameTaken \/ ProbeRefuses \/ CheckDiffers \/ RetireFails \/ ExamineRefuses
  <2>1. erred' = erred \cup {current}
    BY <1>2 DEF CommandFails, NameTaken, ProbeRefuses, CheckDiffers, RetireFails, ExamineRefuses, Raise
  <2> QED
    BY <2>1
<1>3. CASE ClientEnds
  BY <1>3 DEF ClientEnds, run
<1>4. CASE SelectLocal
  BY <1>4 DEF SelectLocal
<1>5. CASE ProbeComplete
  BY <1>5 DEF ProbeComplete, Succeeds, Verified, LocalPhases
<1>6. CASE Confirm
  BY <1>6 DEF Confirm, Succeeds, Verified, LocalPhases
<1>7. CASE ProbeMissing \/ CopyPayloads \/ Check \/ PublishMarker
  BY <1>7 DEF ProbeMissing, CopyPayloads, Check, PublishMarker, Succeeds, LocalPhases
<1>8. CASE RemovePayload
  BY <1>8 DEF RemovePayload, run
<1>9. CASE RemoveLocalDirectory \/ LocalDone \/ ListRemote \/ SelectRemote \/ PurgeDirectory
  BY <1>9 DEF RemoveLocalDirectory, LocalDone, ListRemote, SelectRemote, PurgeDirectory, Succeeds
<1>10. CASE Examine \/ PurgeFile
  BY <1>10 DEF Examine, PurgeFile, Succeeds, Unaffected, Deleted
<1>11. CASE Begin \/ Finish \/ Kill
  BY <1>11 DEF Begin, Finish, Kill, Ends
<1> QED
  BY <1>1, <1>2, <1>3, <1>4, <1>5, <1>6, <1>7, <1>8, <1>9, <1>10, <1>11 DEF ArchiveNext

\* What a run finds at its start needs no pass, or lies before it.
LEMMA BeginAccounts ==
    ASSUME HonestInv, Begin, NEW a \in Archives
    PROVE  a \in pending' \/ Placed(a)'
<1>1. ArchiveInv /\ ArchiveTypeOK /\ RunKnows /\ SealedIsKept
  BY DEF HonestInv, ArchiveInv
<1>2. /\ pending' = backupDirs /\ protected' = pinned
      /\ seen'[a] = IF a \in pinned \ backupDirs THEN "none" ELSE age[a]
      /\ UNCHANGED <<age, backups, backupDirs, pinned, remote, spoiled>>
  BY DEF Begin, stores
<1>3. Whole' = Whole /\ Delivered' = Delivered
  BY <1>2 DEF Whole, Delivered, RemoteComplete
<1>4. a \in Whole => a \in backupDirs
  BY <1>1 DEF Whole, RunKnows, Payloads
<1> QED
  BY <1>1, <1>2, <1>3, <1>4 DEF Placed, Overdue, SealedIsKept

\* An archive is where its age wants it when the pass leaves it.
LEMMA PassedIsPlaced ==
    ASSUME HonestInv,
           ((ProbeComplete \/ Confirm) /\ phase' = "local") \/ RemoveLocalDirectory
    PROVE  /\ Placed(current)'
           /\ UNCHANGED <<current, pending>>
           /\ phase \in LocalPass /\ phase' = "local"
<1>1. ArchiveInv /\ ArchiveTypeOK /\ RunKnows /\ MarkersVouch /\ PhaseRests /\ RunTakes
  BY DEF HonestInv, ArchiveInv
<1>2. CASE (ProbeComplete \/ Confirm) /\ phase' = "local"
  <2>1. /\ phase \in LocalPhases /\ RemoteComplete(current)
        /\ ~(Aged(current) /\ current \notin protected)
        /\ UNCHANGED <<current, pending, protected, seen, age, backups, backupDirs, pinned, remote, spoiled>>
    BY <1>2 DEF ProbeComplete, Confirm, Succeeds, Verified, Unaffected, HostUnchanged, LocalPhases
  <2>2. current \in Whole /\ current \in backupDirs
    BY <1>1, <2>1 DEF PhaseRests, Whole, RunKnows, Payloads
  <2>3. current \in Delivered
    BY <1>1, <2>1, <2>2 DEF MarkersVouch, Delivered, RemoteComplete, Marked, Doomed, Whole
  <2>4. Whole' = Whole /\ Delivered' = Delivered
    BY <2>1 DEF Whole, Delivered, RemoteComplete
  <2> QED
    BY <1>2, <2>1, <2>2, <2>3, <2>4 DEF Placed, Overdue, Aged, LocalPass
<1>3. CASE RemoveLocalDirectory
  <2>1. /\ phase = "retire" /\ backupDirs' = backupDirs \ {current} /\ phase' = "local"
        /\ UNCHANGED <<current, pending, protected, seen, remote, spoiled>>
    BY <1>3 DEF RemoveLocalDirectory
  <2>2. current \in Delivered /\ Aged(current)
    BY <1>1, <2>1 DEF PhaseRests, RunTakes
  <2>3. Delivered' = Delivered
    BY <2>1 DEF Delivered, RemoteComplete
  <2> QED
    BY <2>1, <2>2, <2>3 DEF Placed, Overdue, Aged, LocalPass
<1> QED
  BY <1>2, <1>3

\* What an archive has behind or before it in a run without an error.
Accounted(a) ==
    \/ phase \in LocalPass /\ (a \in pending \/ (a = current /\ phase # "local"))
    \/ Placed(a)

ShareAccounts ==
    /\ client = NoClient
    /\ \A a \in remoteDirs : Overdue(a) => a \in pending \/ (a = current /\ phase # "remote")

LEMMA PassesStillAccount ==
    ASSUME HonestInv, [ArchiveNext]_archiveVars
    PROVE  PassesAccount'
<1>1. ArchiveInv /\ ArchiveTypeOK /\ PassesAccount
  BY DEF HonestInv, ArchiveInv
<1> SUFFICES ASSUME phase' # "idle", erred' = {}
             PROVE  /\ \A a \in Archives : Accounted(a)'
                    /\ phase' \in RemotePass => ShareAccounts'
  BY DEF PassesAccount, Accounted, ShareAccounts
<1>2. CASE phase = "idle"
  <2>1. Begin
    BY <1>2 DEF ArchiveNext, archiveVars, run, stores, SealArchive, DaysPass, Pin, SealPinned, CommandFails,
       NameTaken, ClientEnds, SelectLocal, ProbeComplete, ProbeMissing, ProbeRefuses, CopyPayloads, Check,
       CheckDiffers, PublishMarker, Confirm, RemovePayload, RemoveLocalDirectory, RetireFails, LocalDone, ListRemote,
       SelectRemote, Examine, ExamineRefuses, PurgeFile, PurgeDirectory, Finish, Kill, LocalPhases, RemotePhases
  <2>2. phase' = "local"
    BY <2>1 DEF Begin
  <2> QED
    BY <2>1, <2>2, BeginAccounts DEF Accounted, LocalPass, RemotePass, RemotePhases
<1>3. CASE phase # "idle"
  <2>1. erred = {} /\ Proceeds
    BY <1>3, RunProceeds
  <2>2. \A a \in Archives : Accounted(a)
    BY <1>1, <1>3, <2>1 DEF PassesAccount, Accounted
  <2>3. phase \in RemotePass => ShareAccounts
    BY <1>1, <1>3, <2>1 DEF PassesAccount, ShareAccounts
  <2>4. UNCHANGED <<seen, protected>>
    BY <1>3, RunStandsStill
  <2>5. ASSUME NEW a \in Archives PROVE Accounted(a)'
    <3>1. CASE Placed(a) /\ ~(phase = "retire" /\ a = current)
      BY <1>3, <3>1, PlacedStays DEF Accounted
    <3>2. CASE phase \in LocalPass /\ (a \in pending \/ (a = current /\ phase # "local"))
      <4>1. CASE UNCHANGED <<phase, current, pending>>
        BY <3>2, <4>1 DEF Accounted
      <4>2. CASE phase = "local" /\ phase' = "probe" /\ pending' = pending \ {current'}
        BY <3>2, <4>2 DEF Accounted, LocalPass, LocalPhases
      <4>3. CASE phase \in LocalPhases /\ phase' \in LocalPhases \cup {"retire"} /\ UNCHANGED <<current, pending>>
        BY <3>2, <4>3 DEF Accounted, LocalPass, LocalPhases
      <4>4. CASE ((ProbeComplete \/ Confirm) /\ phase' = "local") \/ RemoveLocalDirectory
        BY <3>2, <4>4, PassedIsPlaced DEF Accounted, LocalPass
      <4>5. CASE LocalDone
        BY <3>2, <4>5 DEF LocalDone
      <4>6. CASE ListRemote \/ SelectRemote \/ phase = "examine" \/ PurgeDirectory
        BY <3>2, <4>6 DEF ListRemote, SelectRemote, PurgeDirectory, LocalPass, LocalPhases
      <4> QED
        BY <2>1, <4>1, <4>2, <4>3, <4>4, <4>5, <4>6 DEF Proceeds
    <3>3. CASE phase = "retire" /\ a = current
      BY <3>2, <3>3 DEF LocalPass
    <3> QED
      BY <2>2, <3>1, <3>2, <3>3 DEF Accounted
  <2>6. ASSUME phase' \in RemotePass PROVE ShareAccounts'
    <3> USE DEF ShareAccounts, RemotePass, RemotePhases, Overdue
    <3>1. CASE UNCHANGED <<phase, current, pending, client, remoteDirs>>
      BY <2>3, <2>4, <2>6, <3>1
    <3>2. CASE ClientEnds /\ UNCHANGED <<phase, current, pending>>
      BY <2>3, <2>6, <3>2 DEF ClientEnds
    <3>3. CASE phase' \in LocalPhases \cup {"retire", "local", "list"}
      BY <2>6, <3>3 DEF LocalPhases
    <3>4. CASE ListRemote
      BY <3>4 DEF ListRemote, stores
    <3>5. CASE SelectRemote
      BY <2>3, <2>4, <3>5 DEF SelectRemote, stores
    <3>6. CASE phase = "examine" /\ phase' = "purge" /\ UNCHANGED <<current, pending, client, remoteDirs>>
      BY <2>3, <2>4, <3>6
    <3>7. CASE PurgeDirectory
      BY <2>3, <2>4, <3>7 DEF PurgeDirectory, Succeeds, DirectoryRemoved
    <3>8. RemoveLocalDirectory \/ LocalDone => phase' \in {"local", "list"}
      BY DEF RemoveLocalDirectory, LocalDone
    <3> QED
      BY <2>1, <3>1, <3>2, <3>3, <3>4, <3>5, <3>6, <3>7, <3>8 DEF Proceeds, LocalPhases
  <2> QED
    BY <2>5, <2>6
<1> QED
  BY <1>2, <1>3

LEMMA HonestKeeps ==
    ASSUME HonestInv, [ArchiveNext]_archiveVars
    PROVE  HonestInv'
<1>1. ArchiveInv
  BY DEF HonestInv
<1> QED
  BY <1>1, ArchiveKeeps, SealedStaysKept, PassesStillAccount, RunStillTakes DEF HonestInv

\* The report of a run that names no error is true.
LEMMA AccountsAreHonest ==
    ASSUME HonestInv
    PROVE  TransferIsHonest
<1> SUFFICES ASSUME phase = "remote", pending = {}, erred = {}, NEW a \in Archives
             PROVE  /\ seen[a] = "fresh" => a \in Whole \cap Delivered
                    /\ seen[a] = "old" => a \in Delivered /\ (a \in backupDirs => a \in protected)
                    /\ Overdue(a) => a \notin backupDirs \cup remoteDirs
  BY DEF TransferIsHonest
<1>1. phase \notin LocalPass /\ phase \in RemotePass
  BY DEF LocalPass, LocalPhases, RemotePass
<1>2. Placed(a) /\ \A b \in remoteDirs : Overdue(b) => b \in pending
  BY <1>1 DEF HonestInv, PassesAccount
<1> QED
  BY <1>2 DEF Placed

-----------------------------------------------------------------------------

\* The state of the store, of the run and of a command that outlived its caller is what
\* ArchiveInv says, after any number of failures and kills: a marker on the share vouches for
\* verified payloads until its archive expires, and a late command can no longer undo that.
THEOREM MarkersAreTrusted == ArchiveSpec => []ArchiveInv
BY ArchiveStarts, ArchiveKeeps, PTL DEF ArchiveSpec

\* transfer.py keeps the promise: until it expires an archive is whole on the host or verified
\* on the share, and one an upgrade depends on never leaves.
THEOREM TransferKeepsArchives == ArchiveSpec => Promise!Spec
<1>1. ArchiveSpec => []ArchiveInv
  BY MarkersAreTrusted
<1>2. ArchiveInv /\ [ArchiveNext]_archiveVars => [Promise!Next]_Promise!archives
  BY StepKeepsPromise
<1> QED
  BY <1>1, <1>2, StartsAsPromised, PTL DEF ArchiveSpec, Promise!Spec

\* A transfer that reports no error has left every archive it knew where its age wants it:
\* whatever failed before, whatever was killed, and however late a command took effect.
THEOREM ReportsAreTrue == ArchiveSpec => []TransferIsHonest
BY HonestStarts, HonestKeeps, AccountsAreHonest, PTL DEF ArchiveSpec
=============================================================================
