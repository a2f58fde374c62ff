------------------------------ MODULE ForgejoHost ------------------------------
(***************************************************************************)
(* The Forgejo host: upgrade, backup and recovery, provisioning            *)
(* (service.py reconcile), systemd and reboots, all at once.               *)
(***************************************************************************)
EXTENDS ForgejoUpgrade, ForgejoBackup

-----------------------------------------------------------------------------
(* Provisioning.                                                           *)

\* Mutant: the files that an interrupted activation changed are forgotten.
ProvisionForgets ==
    /\ UpgradeIdle /\ BackupSettled /\ apc = "idle" /\ LockFor("admin")
    /\ agoal' \in {conf, conf + 1} \cap Revisions
    /\ activating' = (agoal' # conf)
    /\ found' = (app # "down")
    /\ apc' = "publish"
    /\ UNCHANGED <<upgrade, backup, quadlet, desired, conf, storage, services, admission, helpers, faults>>

\* The journal names what changes now and what an interrupted activation
\* had changed.
Provision ==
    /\ UpgradeIdle /\ BackupSettled /\ apc = "idle" /\ LockFor("admin")
    /\ agoal' \in {conf, conf + 1} \cap Revisions
    /\ activating' = (activating \/ agoal' # conf)
    /\ found' = (app # "down")
    /\ apc' = "publish"
    /\ UNCHANGED <<upgrade, backup, quadlet, desired, conf, storage, services, admission, helpers, faults>>

Publish ==
    /\ apc = "publish"
    /\ conf' = agoal
    /\ apc' = "reload" /\ agoal' = 0 /\ UNCHANGED <<lock, found>>
    /\ UNCHANGED <<upgrade, backup, quadlet, desired, activating, storage, services, admission, helpers, faults>>

Reload ==
    /\ apc = "reload"
    /\ loaded' = quadlet /\ postgres' = TRUE
    /\ Goes("restart")
    /\ UNCHANGED <<upgrade, backup, declared, storage, unit, isolated, timer, admission, helpers, faults>>

\* An application that was found active is restarted when its configuration
\* changed; one that was found down is started, unless it holds its port again.
Restart ==
    /\ apc = "restart"
    /\ \/ /\ found /\ activating
          /\ IF Guard THEN Runs ELSE Halts /\ archive' = archive
          /\ postgres' = TRUE
       \/ found /\ ~activating /\ UNCHANGED <<unit, archive, postgres>>
       \/ ~found /\ app = "down" /\ Starts
    /\ apc' = "arm" /\ found' = FALSE /\ UNCHANGED <<lock, agoal>>
    /\ UNCHANGED <<upgrade, backup, declared, migrated, loaded, isolated, timer, admission, helpers, faults>>

Arm ==
    /\ apc = "arm" /\ app # "down"
    /\ timer' = TRUE
    /\ Goes("complete")
    /\ UNCHANGED <<upgrade, backup, declared, storage, loaded, unit, postgres, isolated, admission, helpers, faults>>

\* What runs is verified before the journal goes.
Complete ==
    /\ apc = "complete" /\ app = desired /\ postgres /\ timer
    /\ activating' = FALSE
    /\ Releases
    /\ UNCHANGED <<upgrade, backup, quadlet, desired, conf, storage, services, admission, helpers, faults>>

ProvisionEnds ==
    /\ \/ apc = "restart" /\ ~found /\ app # "down" /\ faults' = faults
       \/ apc = "arm" /\ app = "down" /\ faults' = faults
       \/ apc = "complete" /\ ~(app = desired /\ postgres /\ timer) /\ faults' = faults
       \/ apc \in Provisioning /\ Fault
    /\ Releases
    /\ UNCHANGED <<upgrade, backup, declared, storage, services, admission, helpers>>

ProvisionSteps == Publish \/ Reload \/ Restart \/ Arm \/ Complete \/ ProvisionEnds

-----------------------------------------------------------------------------
(* A reboot: processes, containers and locks are gone, systemd starts the  *)
(* enabled units, and Caddy loads its boot configuration.                  *)

Reboots ==
    /\ Fault
    /\ app' = "down" /\ live' = live /\ wanted' = TRUE
    /\ postgres' = TRUE /\ timer' = TRUE /\ isolated' = "none" /\ loaded' = quadlet
    /\ route' = "original"
    /\ Releases
    /\ wpc' = "idle" /\ bpc' = "idle" /\ rpc' = "wanted"
    /\ UNCHANGED <<upgrade, backup, declared, storage, recorded, epoch, clock, attest, work>>

Next == ServiceNext \/ UpgradeNext \/ BackupNext \/ Provision \/ ProvisionSteps \/ Reboots

Spec == ServiceInit /\ [][Next]_vars

\* Processes and systemd go on, requested units run, the timer fires while it
\* is active, and attempts at the lock that are repeated for ever succeed.
FairSpec ==
    /\ Spec
    /\ WF_vars(UpgradeSteps) /\ WF_vars(WorkerSteps) /\ WF_vars(ProvisionSteps)
    /\ WF_vars(CaptureSteps) /\ WF_vars(RecoverSteps)
    /\ SF_vars(CaptureStarts) /\ SF_vars(RecoverLocks)
    /\ WF_vars(TimerFires) /\ WF_vars(Restarts)

-----------------------------------------------------------------------------
(* Properties.                                                             *)

\* The variables have their types, and who is in the middle of something
\* holds the operation lock.
LockHolders ==
    /\ lock = "admin" <=> apc # "idle"
    /\ lock = "backup" <=> bpc \in Capturing
    /\ lock = "recover" <=> rpc \in Recovering
TypeOK == ServiceTypeOK /\ LockHolders

\* The unfinished pieces of work exclude each other: were two of them pending
\* at once, each would refuse to continue because of the other (upgrade,
\* reconcile, capture_locked and recover_locked all check the other records).
OnePending ==
    /\ ~(Pending /\ ~BackupSettled)
    /\ ~(Pending /\ activating)
    /\ ~(activating /\ ~BackupSettled)

\* No archive is taken of storage that the application is changing.
CaptureIsStill == bpc = "dump" \/ wpc = "dumping" => app = "down"

\* Why that is so: whoever works on one record holds the lock and found the
\* others settled, and the capture worker, who may have outlived its controller,
\* works for a transaction that nobody can continue meanwhile.
Authority ==
    /\ apc \in Controlling => BackupSettled /\ ~activating /\ (apc # "rearm" => Pending)
    /\ apc = "rearm" => attempts < MaxAttempts
    /\ apc \in Provisioning => UpgradeIdle /\ BackupSettled
    /\ bpc \in Capturing => intent = "capturing" /\ UpgradeIdle /\ ~activating
    /\ rpc \in Recovering => UpgradeIdle /\ ~activating
    /\ phase = "quiesced" => apc \in {"idle", "capture", "await"}
    /\ wpc # "idle" => archive = "none"
    /\ wpc = "dumping" => phase = "quiesced"
ExclusionInvariant == TypeOK /\ OnePending /\ CaptureIsStill /\ Authority

\* Once the source is quiesced, no client has worked since the operator
\* flushed the queues: not even when the gate was lost and put back.
AttestedQuiet == phase \in {"quiesced", "archive-sealed", "migration-started"} => ~work

\* When nothing is unfinished, the running application has the published
\* configuration, however often provisioning was interrupted.
ConfigurationActive == lock = "free" /\ ~activating /\ app # "down" => live = conf

\* A settled upgrade leaves the nightly backups scheduled, whatever
\* interruptions it took: resume must not record the timer that quiesce itself
\* had stopped.
BackupsResume == [][Pending /\ UpgradeIdle' => timer']_vars

\* The upgrade keeps its promise about the storage.
Promise == INSTANCE UpgradePromise WITH
    served <- app,
    owner <- IF migrated THEN "target" ELSE "source",
    accepted <- phase \in {"accepted", "committed"},
    preserved <- archive
KeepsUpgradePromise == Promise!Spec

\* What is archived, migrated and served is what was promised, and nothing that
\* clients did since the queues were flushed is lost.
UpgradesAreSafe == KeepsUpgradePromise /\ []AttestedQuiet

\* An operator who keeps aborting an upgrade before its migration, and resuming
\* it afterwards, settles it after any crash, unless the maintenance route was
\* edited, which the code refuses to overwrite.
Persists == Abort \/ (phase \in {"migration-started", "target-verified", "accepted"} /\ Resume)
PendingIsSettled == SF_vars(Persists) => (Pending ~> UpgradeIdle \/ route = "edited")

\* A settled upgrade leaves the host as it was scheduled, and every upgrade settles.
UpgradesSettle == BackupsResume /\ PendingIsSettled

\* Availability comes back after every failure of a backup, of its recovery or
\* of the application, and after every reboot, except while an upgrade is
\* pending and once a recovery was killed between its last two steps.
Unmarked == marker /\ intent = "none" /\ rpc # "unmark"
AppReturns == []<>(app # "down" \/ Pending \/ Unmarked)

\* While the isolated migration containers run, nothing else opens the
\* database, and nothing outside their namespace reaches it.
MigratesAlone == isolated # "none" => ~postgres
=============================================================================
