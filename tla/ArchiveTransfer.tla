---------------------------- MODULE ArchiveTransfer ----------------------------
(***************************************************************************)
(* roles/forgejo/files/transfer.py: one run at a time, under a lock, copies *)
(* the sealed archives of Forgejo to a share and retains them on both      *)
(* sides.  Every access to the share is a container of one name; a command *)
(* that timed out and could not be removed may still take effect, and      *)
(* until it is gone no other command starts.  A run may be killed between  *)
(* any two deletions.                                                      *)
(***************************************************************************)
EXTENDS ArchiveAges

CONSTANT MaxTransferFaults   \* failed commands and deletions, kills

ASSUME TransferConstants == MaxTransferFaults \in Nat

VARIABLES
    age,        \* [a] -> none, fresh, old (7 days) or expired (90 days)
    backups,      \* [a] -> payloads in its directory on the host
    backupDirs,  \* directories on the host
    remnant,     \* an interrupted capture lies among them
    remote,     \* [a] -> files in its directory on the share
    remoteDirs, \* directories on the share
    spoiled,    \* archives with a wrong payload of the right size on the share
    pinned,     \* retained-archives.json: what upgrades depend on
    phase,      \* where the run is
    current,    \* the archive it is at
    pending,    \* what its loop has left
    protected,  \* what it read of the pins
    seen,       \* [a] -> the age of what is sealed at the start: its "now" does not move
    erred,      \* what it reports as failed
    client,     \* a command that outlived its caller, or NoClient
    setbacks

stores == <<age, backups, backupDirs, remnant, remote, remoteDirs, spoiled, pinned>>
run == <<phase, current, pending, protected, seen, erred>>
archiveVars == <<stores, run, client, setbacks>>

Payloads == {"database.dump", "files.tar.gz", "manifest.json", "SHA256SUMS"}
Marked == Payloads \cup {"COMPLETE"}
Whole == {a \in Archives : Payloads \subseteq backups[a]}
NoClient == [what |-> "none", archive |-> 0, file |-> "none"]

ArchiveInit ==
    /\ age = Unsealed
    /\ backups = [a \in Archives |-> {}] /\ backupDirs = {} /\ remnant = FALSE
    /\ remote = [a \in Archives |-> {}] /\ remoteDirs = {} /\ spoiled = {}
    /\ pinned = {}
    /\ phase = "idle" /\ current = 0 /\ pending = {} /\ protected = {}
    /\ seen = age /\ erred = {}
    /\ client = NoClient /\ setbacks = 0

-----------------------------------------------------------------------------
(* Beside the transfer *)

\* A capture renames a whole archive into the directory; names follow time.
SealArchive ==
    \E a \in Archives :
        /\ NextName(age, a)
        /\ age' = [age EXCEPT ![a] = "fresh"]
        /\ backups' = [backups EXCEPT ![a] = Payloads]
        /\ backupDirs' = backupDirs \cup {a}
        /\ UNCHANGED <<remnant, remote, remoteDirs, spoiled, pinned, run, client, setbacks>>

DaysPass ==
    /\ OneOlder(age, age')
    /\ UNCHANGED <<backups, backupDirs, remnant, remote, remoteDirs, spoiled, pinned, run, client, setbacks>>

\* An upgrade pins the archive it is going to capture, under the lock of the transfer.
Pin ==
    \E a \in Archives :
        /\ phase = "idle"
        /\ NextName(age, a)
        /\ age' = [age EXCEPT ![a] = "fresh"]
        /\ pinned' = pinned \cup {a}
        /\ UNCHANGED <<backups, backupDirs, remnant, remote, remoteDirs, spoiled, run, client, setbacks>>

\* It captures it with a marker, at any time later; what an interrupted capture left is
\* set aside in the same directory.
SealPinned ==
    \E a \in pinned \ backupDirs :
        /\ backups' = [backups EXCEPT ![a] = Marked]
        /\ backupDirs' = backupDirs \cup {a}
        /\ remnant' \in {remnant, TRUE}
        /\ UNCHANGED <<age, remote, remoteDirs, spoiled, pinned, run, client, setbacks>>

-----------------------------------------------------------------------------
(* Commands on the share: what each does when it takes effect. *)

Copied(a) ==
    /\ remote' = [remote EXCEPT ![a] = @ \cup Payloads]
    /\ remoteDirs' = remoteDirs \cup {a}
    /\ spoiled' \in {spoiled \ {a}, spoiled \cup {a}}   \* rclone compares sizes and times

\* Some payloads and not all: no later step tells apart which.
PartlyCopied(a) ==
    /\ remote' = [remote EXCEPT ![a] = @ \cup {"database.dump"}]
    /\ remoteDirs' = remoteDirs \cup {a}
    /\ spoiled' \in {spoiled, spoiled \cup {a}}

Published(a) ==
    /\ remote' = [remote EXCEPT ![a] = @ \cup {"COMPLETE"}]
    /\ remoteDirs' = remoteDirs \cup {a}
    /\ UNCHANGED spoiled

Deleted(a, f) ==
    /\ remote' = [remote EXCEPT ![a] = @ \ {f}]
    /\ UNCHANGED <<remoteDirs, spoiled>>

DirectoryRemoved(a) ==
    /\ remoteDirs' = IF remote[a] = {} THEN remoteDirs \ {a} ELSE remoteDirs
    /\ UNCHANGED <<remote, spoiled>>

Unaffected == UNCHANGED <<remote, remoteDirs, spoiled>>

\* The file that goes next: payloads in their order, the marker last.
Foremost(files) ==
    IF "database.dump" \in files THEN "database.dump"
    ELSE IF "files.tar.gz" \in files THEN "files.tar.gz"
    ELSE IF "manifest.json" \in files THEN "manifest.json"
    ELSE IF "SHA256SUMS" \in files THEN "SHA256SUMS" ELSE "COMPLETE"

\* The command a phase is about to issue.
Command ==
    [what |-> IF phase = "copy" THEN "copy"
              ELSE IF phase = "publish" THEN "publish"
              ELSE IF phase # "purge" THEN "read"
              ELSE IF remote[current] = {} THEN "rmdir" ELSE "delete",
     archive |-> current,
     file |-> IF phase = "purge" /\ remote[current] # {} THEN Foremost(remote[current]) ELSE "none"]

Effect(c) ==
    \/ c.what = "copy" /\ Copied(c.archive)
    \/ c.what = "publish" /\ Published(c.archive)
    \/ c.what = "delete" /\ Deleted(c.archive, c.file)
    \/ c.what = "rmdir" /\ DirectoryRemoved(c.archive)
    \/ c.what = "read" /\ Unaffected

LocalPhases == {"probe", "copy", "check", "publish", "confirm"}
RemotePhases == {"examine", "purge"}

\* An exception ends the archive it is about, or the listing.
Raise(at) ==
    /\ erred' = erred \cup {current}
    /\ phase' = IF at \in LocalPhases \cup {"retire"} THEN "local" ELSE "remote"
    /\ UNCHANGED <<current, pending, protected, seen>>

HostUnchanged == UNCHANGED <<age, backups, backupDirs, remnant, pinned>>

\* Mutant: the name of the client is not looked for before a command.
SucceedsBeside(next) ==
    /\ phase' = next
    /\ UNCHANGED <<current, pending, protected, seen, erred, client, setbacks>>
    /\ HostUnchanged

Succeeds(next) ==
    /\ client = NoClient
    /\ phase' = next
    /\ UNCHANGED <<current, pending, protected, seen, erred, client, setbacks>>
    /\ HostUnchanged

\* A command that fails may have taken effect, in part or later.
CommandFails ==
    /\ phase \in LocalPhases \cup RemotePhases \cup {"list"}
    /\ client = NoClient
    /\ setbacks < MaxTransferFaults /\ setbacks' = setbacks + 1
    /\ \/ Unaffected /\ UNCHANGED client
       \/ Effect(Command) /\ UNCHANGED client
       \/ phase = "copy" /\ PartlyCopied(current) /\ UNCHANGED client
       \/ Unaffected /\ Command.what # "read" /\ client' = Command
    /\ Raise(phase)
    /\ HostUnchanged

NameTaken ==
    /\ phase \in LocalPhases \cup RemotePhases \cup {"list"}
    /\ client # NoClient
    /\ Raise(phase)
    /\ UNCHANGED <<stores, client, setbacks>>

\* The command that outlived its caller takes effect.
ClientEnds ==
    /\ client # NoClient
    /\ Effect(client)
    /\ client' = NoClient
    /\ HostUnchanged /\ UNCHANGED <<run, setbacks>>

-----------------------------------------------------------------------------
(* transfer: every archive on the host *)

Begin ==
    /\ phase = "idle"
    /\ phase' = "local" /\ pending' = backupDirs /\ current' = 0
    /\ protected' = pinned
    /\ seen' = [a \in Archives |-> IF a \in pinned \ backupDirs THEN "none" ELSE age[a]]
    /\ erred' = IF remnant THEN {0} ELSE {}   \* not the name of an archive
    /\ UNCHANGED <<stores, client, setbacks>>

\* An archive a killed run had begun to remove is reported at every run.
SelectLocal ==
    /\ phase = "local"
    /\ IsFirst(current', pending) /\ pending' = pending \ {current'}
    /\ \/ current' \in Whole /\ phase' = "probe" /\ UNCHANGED erred
       \/ current' \notin Whole /\ erred' = erred \cup {current'} /\ UNCHANGED phase
    /\ UNCHANGED <<stores, protected, seen, client, setbacks>>

\* What remote_complete can see without reading the payloads.
RemoteComplete(a) == Marked \subseteq remote[a]

Aged(a) == seen[a] \in {"old", "expired"}

Verified(a) == IF Aged(a) /\ a \notin protected THEN "retire" ELSE "local"

Overdue(a) == seen[a] = "expired" /\ a \notin protected

ProbeComplete ==
    /\ phase = "probe" /\ RemoteComplete(current)
    /\ Succeeds(Verified(current)) /\ Unaffected

ProbeMissing ==
    /\ phase = "probe" /\ "COMPLETE" \notin remote[current] /\ ~Overdue(current)
    /\ Succeeds("copy") /\ Unaffected

\* An outage beyond the retention of the share is the operator's to resolve; a marker
\* without its payloads is nobody's to repair.
ProbeRefuses ==
    /\ phase = "probe" /\ client = NoClient
    /\ \/ "COMPLETE" \notin remote[current] /\ Overdue(current)
       \/ "COMPLETE" \in remote[current] /\ (~RemoteComplete(current) \/ current \in spoiled)
    /\ Raise(phase)
    /\ UNCHANGED <<stores, client, setbacks>>

CopyPayloads == phase = "copy" /\ Succeeds("check") /\ Copied(current)

Check == phase = "check" /\ current \notin spoiled /\ Succeeds("publish") /\ Unaffected

CheckDiffers ==
    /\ phase = "check" /\ client = NoClient /\ current \in spoiled
    /\ Raise(phase)
    /\ UNCHANGED <<stores, client, setbacks>>

PublishMarker == phase = "publish" /\ Succeeds("confirm") /\ Published(current)

Confirm ==
    /\ phase = "confirm" /\ RemoteComplete(current)
    /\ Succeeds(Verified(current)) /\ Unaffected

\* remove_local: one payload after the other, then the directory.
RemovePayload ==
    /\ phase = "retire" /\ backups[current] # {}
    /\ backups' = [backups EXCEPT ![current] = @ \ {Foremost(backups[current])}]
    /\ UNCHANGED <<age, backupDirs, remnant, remote, remoteDirs, spoiled, pinned, run, client, setbacks>>

RemoveLocalDirectory ==
    /\ phase = "retire" /\ backups[current] = {}
    /\ backupDirs' = backupDirs \ {current}
    /\ phase' = "local"
    /\ UNCHANGED <<age, backups, remnant, remote, remoteDirs, spoiled, pinned, current, pending, protected,
                   seen, erred, client, setbacks>>

RetireFails ==
    /\ phase = "retire"
    /\ setbacks < MaxTransferFaults /\ setbacks' = setbacks + 1
    /\ Raise(phase)
    /\ UNCHANGED <<stores, client>>

LocalDone ==
    /\ phase = "local" /\ pending = {}
    /\ phase' = "list" /\ current' = 0
    /\ UNCHANGED <<stores, pending, protected, seen, erred, client, setbacks>>

-----------------------------------------------------------------------------
(* transfer: every archive on the share *)

ListRemote ==
    /\ phase = "list" /\ client = NoClient
    /\ phase' = "remote" /\ pending' = remoteDirs
    /\ UNCHANGED <<stores, current, protected, seen, erred, client, setbacks>>

SelectRemote ==
    /\ phase = "remote"
    /\ IsFirst(current', pending) /\ pending' = pending \ {current'}
    /\ phase' = IF Overdue(current') THEN "examine" ELSE "remote"
    /\ UNCHANGED <<stores, protected, seen, erred, client, setbacks>>

Examine ==
    /\ phase = "examine" /\ RemoteComplete(current) /\ current \notin backupDirs
    /\ Succeeds("purge") /\ Unaffected

\* What is incomplete, or still on the host, stays and is reported.
ExamineRefuses ==
    /\ phase = "examine" /\ client = NoClient
    /\ ~RemoteComplete(current) \/ current \in backupDirs
    /\ Raise(phase)
    /\ UNCHANGED <<stores, client, setbacks>>

PurgeFile ==
    /\ phase = "purge" /\ remote[current] # {}
    /\ Succeeds("purge") /\ Deleted(current, Foremost(remote[current]))

PurgeDirectory ==
    /\ phase = "purge" /\ remote[current] = {}
    /\ Succeeds("remote") /\ DirectoryRemoved(current)

\* The report is written, or lost; ExecStopPost removes the client, or fails to.
Ends(count) ==
    /\ phase' = "idle" /\ current' = 0 /\ pending' = {} /\ protected' = {} /\ erred' = {}
    /\ seen' = Unsealed
    /\ \/ client' = NoClient /\ setbacks' = setbacks + count
       \/ client # NoClient /\ UNCHANGED client /\ setbacks' = setbacks + 1
    /\ setbacks' <= MaxTransferFaults
    /\ UNCHANGED stores

Finish == phase = "remote" /\ pending = {} /\ Ends(0)

Kill == phase # "idle" /\ Ends(1)

ArchiveNext ==
    \/ SealArchive \/ DaysPass \/ Pin \/ SealPinned
    \/ CommandFails \/ NameTaken \/ ClientEnds
    \/ Begin \/ SelectLocal \/ ProbeComplete \/ ProbeMissing \/ ProbeRefuses
    \/ CopyPayloads \/ Check \/ CheckDiffers \/ PublishMarker \/ Confirm
    \/ RemovePayload \/ RemoveLocalDirectory \/ RetireFails \/ LocalDone
    \/ ListRemote \/ SelectRemote \/ Examine \/ ExamineRefuses
    \/ PurgeFile \/ PurgeDirectory \/ Finish \/ Kill

ArchiveSpec == ArchiveInit /\ [][ArchiveNext]_archiveVars

-----------------------------------------------------------------------------
(* Properties *)

ArchiveTypeOK ==
    /\ age \in [Archives -> Ages] /\ seen \in [Archives -> Ages]
    /\ backups \in [Archives -> SUBSET Marked] /\ backupDirs \subseteq Archives /\ remnant \in BOOLEAN
    /\ remote \in [Archives -> SUBSET Marked] /\ remoteDirs \subseteq Archives
    /\ spoiled \subseteq Archives /\ pinned \subseteq Archives /\ protected \subseteq Archives
    /\ phase \in {"idle", "local", "retire", "list", "remote"} \cup LocalPhases \cup RemotePhases
    /\ current \in 0..MaxArchives /\ pending \subseteq Archives
    /\ erred \subseteq 0..MaxArchives
    /\ \/ client = NoClient
       \/ client \in [what : {"copy", "publish", "delete", "rmdir"}, archive : Archives,
                      file : Marked \cup {"none"}]
    /\ setbacks \in 0..MaxTransferFaults

Delivered == {a \in Archives : RemoteComplete(a)} \ spoiled

Promise == INSTANCE ArchivePromise WITH here <- Whole, there <- Delivered, kept <- pinned

\* A run that reports no error left every archive it knew where its age wants it: on
\* the share from the start, on the host for seven days, nowhere after ninety, and
\* what an upgrade depends on wherever it was.
TransferIsHonest ==
    phase = "remote" /\ pending = {} /\ erred = {} =>
        \A a \in Archives :
            /\ seen[a] = "fresh" => a \in Whole \cap Delivered
            /\ seen[a] = "old" => a \in Delivered /\ (a \in backupDirs => a \in protected)
            /\ Overdue(a) => a \notin backupDirs \cup remoteDirs
=============================================================================
