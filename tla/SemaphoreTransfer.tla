--------------------------- MODULE SemaphoreTransfer ---------------------------
(***************************************************************************)
(* roles/semaphore/files/backup.sh and transfer.sh: dumps sealed by a      *)
(* rename are copied to a share, read back, marked, and retained on both   *)
(* sides.  The whole transfer is one container, so nothing outlives a kill.*)
(* Any failing query of the share reads as "not complete", and a failing   *)
(* deletion of the marker before an upload is ignored.                     *)
(***************************************************************************)
EXTENDS ArchiveAges

CONSTANT MaxMishaps   \* failed commands, deletions, kills

ASSUME DumpConstants == MaxMishaps \in Nat

VARIABLES
    dumpAge,     \* [d] -> none, fresh, old (7 days) or expired (90 days)
    hostFiles,   \* [d] -> files in its directory on the host
    hostDirs,    \* directories on the host
    shareFiles,  \* [d] -> files in its directory on the share
    shareDirs,   \* directories on the share
    differing,   \* dumps of the right size and another content on the share
    outlived,    \* dumps copied under a marker that could not be deleted before
    duty,        \* where the run is
    dump,        \* the dump it is at
    queue,       \* what its loop has left
    then,        \* [d] -> the age at the start: now_epoch does not move
    status,      \* the exit status so far
    mishaps

shareVars == <<shareFiles, shareDirs, differing, outlived>>
keepsVars == <<dumpAge, hostFiles, hostDirs>>
dutyVars == <<duty, dump, queue, then, status>>
dumpVars == <<keepsVars, shareVars, dutyVars, mishaps>>

DumpFiles == {"database.dump", "SHA256SUMS"}
Exact == DumpFiles \cup {"COMPLETE"}

DumpInit ==
    /\ dumpAge = Unsealed
    /\ hostFiles = [d \in Archives |-> {}] /\ hostDirs = {}
    /\ shareFiles = [d \in Archives |-> {}] /\ shareDirs = {} /\ differing = {} /\ outlived = {}
    /\ duty = "idle" /\ dump = 0 /\ queue = {} /\ then = dumpAge /\ status = 0
    /\ mishaps = 0

-----------------------------------------------------------------------------
(* Beside the transfer *)

\* backup.sh renames a dump it has read back into the directory.
SealDump ==
    \E d \in Archives :
        /\ NextName(dumpAge, d)
        /\ dumpAge' = [dumpAge EXCEPT ![d] = "fresh"]
        /\ hostFiles' = [hostFiles EXCEPT ![d] = DumpFiles]
        /\ hostDirs' = hostDirs \cup {d}
        /\ UNCHANGED <<shareVars, dutyVars, mishaps>>

DumpsAge ==
    /\ OneOlder(dumpAge, dumpAge')
    /\ UNCHANGED <<hostFiles, hostDirs, shareVars, dutyVars, mishaps>>

-----------------------------------------------------------------------------
(* Commands on the share *)

Place(file) ==
    /\ shareFiles' = [shareFiles EXCEPT ![dump] = @ \cup {file}]
    /\ shareDirs' = shareDirs \cup {dump}

Lift(file) ==
    /\ shareFiles' = [shareFiles EXCEPT ![dump] = @ \ {file}]
    /\ UNCHANGED shareDirs

\* What comes on the share may differ from what was sent; a marker that is still there
\* then vouches for what nobody has read.
PlaceDump ==
    /\ Place("database.dump")
    /\ differing' \in {differing \ {dump}, differing \cup {dump}}
    /\ outlived' = IF "COMPLETE" \in shareFiles[dump] THEN outlived \cup {dump} ELSE outlived

Unmark == Lift("COMPLETE") /\ outlived' = outlived \ {dump} /\ UNCHANGED differing

Goes(next) ==
    /\ duty' = next
    /\ UNCHANGED <<keepsVars, dump, queue, then, status, mishaps>>

Mishap == mishaps < MaxMishaps /\ mishaps' = mishaps + 1

\* The dump is reported and left as it is; the loop goes on.
GivesUp(loop) ==
    /\ duty' = loop /\ status' = 1
    /\ UNCHANGED <<keepsVars, dump, queue, then>>

-----------------------------------------------------------------------------
(* Every dump on the host *)

StartRun ==
    /\ duty = "idle"
    /\ duty' = "local" /\ queue' = hostDirs /\ then' = dumpAge /\ status' = 0
    /\ UNCHANGED <<keepsVars, shareVars, dump, mishaps>>

TakeDump ==
    /\ duty = "local"
    /\ IsFirst(dump', queue) /\ queue' = queue \ {dump'}
    /\ \/ hostFiles[dump'] = DumpFiles /\ duty' = "seek" /\ UNCHANGED status
       \/ hostFiles[dump'] # DumpFiles /\ status' = 1 /\ UNCHANGED duty
    /\ UNCHANGED <<keepsVars, shareVars, then, mishaps>>

\* The marker, the listed size, the checksum file and the exact layout, never the dump.
ShareComplete(d) == shareFiles[d] = Exact

ToRetire == IF then[dump] = "fresh" THEN "local" ELSE "retire"

SeekComplete ==
    /\ duty = "seek" /\ ShareComplete(dump)
    /\ Goes(ToRetire)
    /\ UNCHANGED shareVars

SeekMissing ==
    /\ duty = "seek"
    /\ \/ ~ShareComplete(dump) /\ UNCHANGED mishaps
       \/ Mishap
    /\ \/ then[dump] = "expired" /\ duty' = "local" /\ status' = 1
       \/ then[dump] # "expired" /\ duty' = "unmark" /\ UNCHANGED status
    /\ UNCHANGED <<keepsVars, shareVars, dump, queue, then>>

DeleteMarker ==
    /\ duty = "unmark"
    /\ \/ Goes("dump") /\ Unmark
       \/ Mishap /\ duty' = "dump" /\ UNCHANGED <<keepsVars, shareVars, dump, queue, then, status>>

SendDump == duty = "dump" /\ Goes("sums") /\ PlaceDump

SendSums == duty = "sums" /\ Goes("verify") /\ Place("SHA256SUMS") /\ UNCHANGED <<differing, outlived>>

ReadBack ==
    /\ duty = "verify" /\ dump \notin differing
    /\ Goes("mark")
    /\ outlived' = outlived \ {dump}
    /\ UNCHANGED <<shareFiles, shareDirs, differing>>

ReadBackDiffers ==
    /\ duty = "verify" /\ dump \in differing
    /\ GivesUp("local")
    /\ UNCHANGED <<shareVars, mishaps>>

SendMarker == duty = "mark" /\ Goes("confirm") /\ Place("COMPLETE") /\ UNCHANGED <<differing, outlived>>

ConfirmMarker ==
    /\ duty = "confirm" /\ ShareComplete(dump)
    /\ Goes(ToRetire)
    /\ UNCHANGED shareVars

\* A marker that cannot be confirmed is taken away again, if that works.
TakeMarkerBack ==
    /\ duty = "confirm" /\ Mishap
    /\ GivesUp("local")
    /\ Unmark \/ UNCHANGED shareVars

UploadFails ==
    /\ duty \in {"dump", "sums", "verify", "mark"} /\ Mishap
    /\ GivesUp("local")
    /\ \/ UNCHANGED shareVars
       \/ duty = "dump" /\ PlaceDump
       \/ duty = "sums" /\ Place("SHA256SUMS") /\ UNCHANGED <<differing, outlived>>
       \/ duty = "mark" /\ Place("COMPLETE") /\ UNCHANGED <<differing, outlived>>

RemoveHostFile ==
    /\ duty = "retire" /\ hostFiles[dump] # {}
    /\ hostFiles' = [hostFiles EXCEPT ![dump] = @ \ {IF "SHA256SUMS" \in @ THEN "SHA256SUMS" ELSE "database.dump"}]
    /\ UNCHANGED <<dumpAge, hostDirs, shareVars, dutyVars, mishaps>>

RemoveHostDirectory ==
    /\ duty = "retire" /\ hostFiles[dump] = {}
    /\ hostDirs' = hostDirs \ {dump}
    /\ duty' = "local"
    /\ UNCHANGED <<dumpAge, hostFiles, shareVars, dump, queue, then, status, mishaps>>

\* rm goes on after a file it cannot remove.
RetireFailsSafely ==
    /\ duty = "retire" /\ Mishap
    /\ hostFiles' \in {hostFiles, [hostFiles EXCEPT ![dump] = @ \cap {"SHA256SUMS"}]}
    /\ duty' = "local" /\ status' = 1
    /\ UNCHANGED <<dumpAge, hostDirs, shareVars, dump, queue, then>>

-----------------------------------------------------------------------------
(* Every dump on the share, if the host's all went well *)

ListShare ==
    /\ duty = "local" /\ queue = {} /\ status = 0
    /\ \/ duty' = "share" /\ queue' = shareDirs /\ UNCHANGED <<status, mishaps>>
       \/ Mishap /\ status' = 1 /\ UNCHANGED <<duty, queue>>
    /\ UNCHANGED <<keepsVars, shareVars, dump, then>>

TakeShared ==
    /\ duty = "share"
    /\ IsFirst(dump', queue) /\ queue' = queue \ {dump'}
    /\ duty' = IF then[dump'] = "expired" THEN "examine" ELSE "share"
    /\ UNCHANGED <<keepsVars, shareVars, then, status, mishaps>>

ExamineShared ==
    /\ duty = "examine" /\ ShareComplete(dump)
    /\ Goes("purge")
    /\ UNCHANGED shareVars

PreserveUnsafe ==
    /\ duty = "examine"
    /\ \/ ~ShareComplete(dump) /\ UNCHANGED mishaps
       \/ Mishap
    /\ GivesUp("share")
    /\ UNCHANGED shareVars

\* The marker goes first, so that no remnant looks complete.
NextToPurge(files) ==
    IF "COMPLETE" \in files THEN "COMPLETE"
    ELSE IF "SHA256SUMS" \in files THEN "SHA256SUMS" ELSE "database.dump"

PurgeSharedFile ==
    /\ duty = "purge" /\ shareFiles[dump] # {}
    /\ Goes("purge")
    /\ Lift(NextToPurge(shareFiles[dump]))
    /\ outlived' = outlived \ {dump} /\ UNCHANGED differing

PurgeSharedDirectory ==
    /\ duty = "purge" /\ shareFiles[dump] = {}
    /\ Goes("share")
    /\ shareDirs' = shareDirs \ {dump} /\ differing' = differing \ {dump}
    /\ UNCHANGED <<shareFiles, outlived>>

PurgeFails ==
    /\ duty = "purge" /\ Mishap
    /\ GivesUp("share")
    /\ \/ UNCHANGED shareVars
       \/ /\ shareFiles[dump] # {} /\ Lift(NextToPurge(shareFiles[dump]))
          /\ outlived' = outlived \ {dump} /\ UNCHANGED differing

RunEnds ==
    /\ queue = {} /\ (duty = "share" \/ (duty = "local" /\ status = 1))
    /\ duty' = "idle" /\ dump' = 0 /\ status' = 0 /\ then' = Unsealed
    /\ UNCHANGED <<keepsVars, shareVars, queue, mishaps>>

RunIsKilled ==
    /\ duty # "idle" /\ Mishap
    /\ duty' = "idle" /\ dump' = 0 /\ queue' = {} /\ status' = 0
    /\ then' = Unsealed
    /\ UNCHANGED <<keepsVars, shareVars>>

DumpNext ==
    \/ SealDump \/ DumpsAge
    \/ StartRun \/ TakeDump \/ SeekComplete \/ SeekMissing
    \/ DeleteMarker \/ SendDump \/ SendSums \/ ReadBack \/ ReadBackDiffers
    \/ SendMarker \/ ConfirmMarker \/ TakeMarkerBack \/ UploadFails
    \/ RemoveHostFile \/ RemoveHostDirectory \/ RetireFailsSafely
    \/ ListShare \/ TakeShared \/ ExamineShared \/ PreserveUnsafe
    \/ PurgeSharedFile \/ PurgeSharedDirectory \/ PurgeFails
    \/ RunEnds \/ RunIsKilled

-----------------------------------------------------------------------------
(* Properties *)

DumpTypeOK ==
    /\ dumpAge \in [Archives -> Ages] /\ then \in [Archives -> Ages]
    /\ hostFiles \in [Archives -> SUBSET DumpFiles] /\ hostDirs \subseteq Archives
    /\ shareFiles \in [Archives -> SUBSET Exact] /\ shareDirs \subseteq Archives
    /\ differing \subseteq Archives /\ outlived \subseteq Archives
    /\ duty \in {"idle", "local", "seek", "unmark", "dump", "sums", "verify", "mark", "confirm",
                 "retire", "share", "examine", "purge"}
    /\ dump \in 0..MaxArchives /\ queue \subseteq Archives
    /\ status \in {0, 1} /\ mishaps \in 0..MaxMishaps

Sealed == {d \in Archives : hostFiles[d] = DumpFiles}

\* Verified on the share, or vouched for by a marker that outlived its deletion.
Vouched == {d \in Archives : ShareComplete(d)} \ (differing \ outlived)

\* A run that exits 0 left every dump it knew where its age wants it, on both sides.
ExitIsHonest ==
    duty = "share" /\ queue = {} /\ status = 0 =>
        \A d \in Archives :
            /\ then[d] = "fresh" => d \in Sealed \cap Vouched
            /\ then[d] = "old" => d \in Vouched \ hostDirs
            /\ then[d] = "expired" => d \notin hostDirs \cup shareDirs
=============================================================================
