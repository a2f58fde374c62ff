----------------------------- MODULE ForgejoBackup -----------------------------
(***************************************************************************)
(* Nightly capture and the recovery of availability (backup.py), as        *)
(* systemd runs them: every end of forgejo-backup.service, by success,     *)
(* failure or kill, requests forgejo-recover.service, and so does a boot.  *)
(***************************************************************************)
EXTENDS ForgejoService

\* Mutant: the end of a capture requests nothing.
NotRequested == rpc' = rpc

\* ExecStopPost and OnFailure; a start request for a running unit changes nothing.
Requested == rpc' = IF rpc = "idle" THEN "wanted" ELSE rpc
LockFor(holder) == lock = "free" /\ lock' = holder

-----------------------------------------------------------------------------
(* forgejo-backup.service                                                  *)

TimerFires ==
    /\ timer /\ bpc = "idle"
    /\ bpc' = "lock"
    /\ UNCHANGED <<upgrade, backup, declared, storage, services, admission, lock, admin, wpc, rpc, faults>>

\* Mutant: an unfinished activation does not keep a capture away.
MayCaptureActivating == UpgradeIdle /\ BackupSettled /\ postgres /\ app = desired

\* capture_locked: nothing else is unfinished, and what is declared runs.
MayCapture == UpgradeIdle /\ ~activating /\ BackupSettled /\ postgres /\ app = desired

CaptureStarts ==
    /\ bpc = "lock" /\ MayCapture /\ LockFor("backup")
    /\ intent' = "capturing"
    /\ bpc' = "stop"
    /\ UNCHANGED <<upgrade, marker, declared, storage, services, admission, admin, wpc, rpc, faults>>

\* The capture is refused or skipped, or did not get the lock in time.
CaptureRefused ==
    /\ bpc = "lock" /\ (lock # "free" \/ ~MayCapture)
    /\ bpc' = "idle"
    /\ Requested
    /\ UNCHANGED <<upgrade, backup, declared, storage, services, admission, lock, admin, wpc, faults>>

CaptureStops ==
    /\ bpc = "stop"
    /\ Halts
    /\ bpc' = "dump"
    /\ UNCHANGED <<upgrade, backup, declared, storage, loaded, postgres, isolated, timer, admission, lock, admin, wpc, rpc, faults>>

CaptureFinishes ==
    /\ bpc' = "idle" /\ lock' = "free"
    /\ Requested
    /\ UNCHANGED <<upgrade, backup, declared, storage, services, admission, admin, wpc>>

CaptureEnds == bpc = "dump" /\ faults' = faults /\ CaptureFinishes
CaptureFails == bpc = "stop" /\ Fault /\ CaptureFinishes

-----------------------------------------------------------------------------
(* forgejo-recover.service                                                 *)

\* The unit wants the database.
RecoverStarts ==
    /\ rpc = "wanted"
    /\ postgres' = TRUE
    /\ rpc' = "lock"
    /\ UNCHANGED <<upgrade, backup, declared, storage, loaded, unit, isolated, timer, admission, lock, admin, wpc, bpc, faults>>

\* Mutant: the recovery does not hold the operation lock.
RecoverUnlocked ==
    /\ rpc = "lock" /\ UpgradeIdle /\ intent # "none" /\ lock = "free"
    /\ intent' = "recovering"
    /\ rpc' = "start"
    /\ UNCHANGED <<upgrade, marker, declared, storage, services, admission, lock, admin, wpc, bpc, faults>>

\* recover_locked
RecoverLocks ==
    /\ rpc = "lock" /\ UpgradeIdle /\ intent # "none" /\ LockFor("recover")
    /\ intent' = "recovering"
    /\ rpc' = "start"
    /\ UNCHANGED <<upgrade, marker, declared, storage, services, admission, admin, wpc, bpc, faults>>

\* Nothing to recover, a marker without an intent, a pending upgrade, or the lock is kept too long.
RecoverRefused ==
    /\ rpc = "lock" /\ (lock # "free" \/ ~UpgradeIdle \/ intent = "none")
    /\ rpc' = "idle"
    /\ UNCHANGED <<upgrade, backup, declared, storage, services, admission, lock, admin, wpc, bpc, faults>>

RecoverStartsApp ==
    /\ rpc = "start"
    /\ Starts
    /\ rpc' = "health"
    /\ UNCHANGED <<upgrade, backup, declared, migrated, loaded, isolated, timer, admission, lock, admin, wpc, bpc, faults>>

RecoverSucceeds ==
    /\ rpc = "health" /\ app # "down"
    /\ rpc' = "clear"
    /\ UNCHANGED <<upgrade, backup, declared, storage, services, admission, lock, admin, wpc, bpc, faults>>

RecoverFails ==
    /\ rpc \in {"start", "health"}
    /\ IF rpc = "health" /\ app = "down" THEN faults' = faults ELSE Fault
    /\ intent' = "failed"
    /\ rpc' = "mark"
    /\ UNCHANGED <<upgrade, marker, declared, storage, services, admission, lock, admin, wpc, bpc>>

RecoverMarks ==
    /\ rpc = "mark"
    /\ marker' = TRUE
    /\ rpc' = "idle" /\ lock' = "free"
    /\ UNCHANGED <<upgrade, intent, declared, storage, services, admission, admin, wpc, bpc, faults>>

RecoverClears ==
    /\ rpc = "clear"
    /\ intent' = "none"
    /\ rpc' = "unmark"
    /\ UNCHANGED <<upgrade, marker, declared, storage, services, admission, lock, admin, wpc, bpc, faults>>

RecoverUnmarks ==
    /\ rpc = "unmark"
    /\ marker' = FALSE
    /\ rpc' = "idle" /\ lock' = "free"
    /\ UNCHANGED <<upgrade, intent, declared, storage, services, admission, admin, wpc, bpc, faults>>

RecoverKilled ==
    /\ rpc \in Recovering /\ Fault
    /\ rpc' = "idle" /\ lock' = "free"
    /\ UNCHANGED <<upgrade, backup, declared, storage, services, admission, admin, wpc, bpc>>

RecoverSteps ==
    \/ RecoverStarts \/ RecoverRefused \/ RecoverStartsApp \/ RecoverSucceeds \/ RecoverFails
    \/ RecoverMarks \/ RecoverClears \/ RecoverUnmarks
CaptureSteps == CaptureRefused \/ CaptureStops \/ CaptureEnds

BackupNext ==
    \/ TimerFires \/ CaptureStarts \/ CaptureSteps \/ CaptureFails
    \/ RecoverLocks \/ RecoverSteps \/ RecoverKilled
=============================================================================
