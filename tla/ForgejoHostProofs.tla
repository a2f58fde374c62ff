--------------------------- MODULE ForgejoHostProofs ---------------------------
(***************************************************************************)
(* Proofs about the Forgejo host, for every number of upgrades, revisions  *)
(* and faults.                                                             *)
(*                                                                         *)
(* Unfinished work never blocks itself, and archives are taken of storage  *)
(* at rest.  The operation lock alone does not give this, because the      *)
(* records outlive the processes and the capture worker outlives its       *)
(* controller.  Authority says what each of them found when it began, and  *)
(* which later steps keep it true.                                         *)
(*                                                                         *)
(* Upgrades keep UpgradePromise.  UpgradeInv says how the journal agrees   *)
(* with the controller's step (StepFits), with the declared and loaded     *)
(* images and the owner of the storage (ImagesFit, ServedFits), with the   *)
(* archive, with the operator's observation, and with the backup timer;    *)
(* ConfFits does the same for the journal of activation.                   *)
(***************************************************************************)
EXTENDS ForgejoHost, TLAPS

-----------------------------------------------------------------------------
(* Starting and stopping the application; the end of a process.            *)

Halted == app' = "down" /\ wanted' \in BOOLEAN /\ live' = live

Started ==
    /\ app' \in Images \cup {"down"} /\ live' \in Revisions
    /\ wanted' \in BOOLEAN /\ postgres' \in BOOLEAN
    /\ archive' \in {"none", "fresh", "stale"} /\ (archive = "none" => archive' = "none")
    /\ ~Guard => app' = app

Released == lock' = "free" /\ apc' = "idle" /\ agoal' \in Revisions /\ found' \in BOOLEAN

\* What an ended administrator process leaves (service.operation_lock).
LEMMA ReleasesType == ASSUME Releases PROVE Released
<1>1. 0 \in Revisions  BY ServiceBounds DEF Revisions
<1>2. found' \in BOOLEAN  BY DEF Releases
<1>3. QED  BY <1>1, <1>2 DEF Releases, Released

\* What a stop leaves (backup.Host.stop).
LEMMA HaltsType == ASSUME Halts PROVE Halted
BY DEF Halts, Halted

\* What a start that the guard permits leaves (forgejo.container.j2).
LEMMA RunsType == ASSUME ServiceTypeOK, Guard, Runs, postgres' = TRUE PROVE Started
<1>1. wanted' \in BOOLEAN  BY DEF Runs
<1>2. postgres' \in BOOLEAN  OBVIOUS
<1>3. QED  BY <1>1, <1>2 DEF Runs, ServiceTypeOK, Started

\* What a start request leaves: nothing starts against the guard (backup.guard).
LEMMA StartsType == ASSUME ServiceTypeOK, Starts PROVE Started
<1>1. postgres' \in BOOLEAN  BY DEF Starts
<1>2. wanted' = TRUE  BY DEF Starts, Runs
<1>3. wanted' \in BOOLEAN  BY <1>2
<1>4. QED  BY <1>1, <1>3 DEF Starts, Runs, ServiceTypeOK, Started

\* Systemd, Caddy, the clients and the operator (forgejo.container.j2, backup.guard).
LEMMA ServiceKeepsExclusion ==
    ASSUME ExclusionInvariant, ServiceNext PROVE ExclusionInvariant'
<1> USE ServiceBounds DEF ExclusionInvariant, TypeOK, ServiceTypeOK, LockHolders, OnePending, CaptureIsStill,
        Authority,
        Pending, UpgradeIdle, BackupSettled, Images, Revisions, Phases, Controlling, Provisioning, Capturing,
        Recovering, vars, upgrade, backup, declared, storage, unit, services, admission, admin, helpers
<1>1. CASE Restarts  BY <1>1 DEF Restarts, Guard, Runs, CaptureAlive, UpgradePermits, ControllerAlive
<1>2. CASE AppFails  BY <1>2 DEF AppFails, Fault
<1>3. CASE OperatorStarts
  <2>1. Started  BY <1>3, StartsType DEF OperatorStarts
  <2>2. QED  BY <1>3, <2>1 DEF OperatorStarts, Started, Guard, UpgradePermits, CaptureAlive, ControllerAlive
<1>4. CASE CaddyRestarts  BY <1>4 DEF CaddyRestarts, Fault
<1>5. CASE RouteEdited  BY <1>5 DEF RouteEdited, Fault
<1>6. CASE RouteReverted  BY <1>6 DEF RouteReverted
<1>7. CASE ClientsWork  BY <1>7 DEF ClientsWork
<1>8. CASE OperatorAttests
  <2>1. work' \in BOOLEAN  BY <1>8 DEF OperatorAttests
  <2>2. QED  BY <1>8, <2>1 DEF OperatorAttests
<1>9. CASE AttestationAges  BY <1>9 DEF AttestationAges, Fault
<1>q. QED  BY <1>1, <1>2, <1>3, <1>4, <1>5, <1>6, <1>7, <1>8, <1>9 DEF ServiceNext

\* The controller up to the sealed archive, and its worker (upgrade.py, backup.capture_locked).
LEMMA UpgradeKeepsExclusion ==
    ASSUME ExclusionInvariant, Begin \/ Rearm \/ Resume \/ Abort \/ Gate \/ Replace \/ Stamp \/ Quiesce
        \/ Hush \/ Halt \/ Seal \/ Capture \/ WorkerStarts \/ WorkerPublishes \/ WorkerFails
        \/ Await PROVE ExclusionInvariant'
<1> USE ServiceBounds DEF ExclusionInvariant, TypeOK, ServiceTypeOK, LockHolders, OnePending, CaptureIsStill,
        Authority,
        Pending, UpgradeIdle, BackupSettled, Images, Revisions, Phases, Controlling, Provisioning, Capturing,
        Recovering, vars, upgrade, backup, declared, storage, unit, services, admission, admin, helpers
<1>1. CASE Begin
  <2>1. timer' \in BOOLEAN  BY <1>1 DEF Begin
  <2>2. QED  BY <1>1, <2>1 DEF Begin, Enters
<1>2. CASE Rearm
  <2>1. recorded' \in BOOLEAN  BY <1>2 DEF Rearm
  <2>2. timer' \in BOOLEAN  BY <1>2 DEF Rearm
  <2>3. attempts' \in 0 .. MaxAttempts  BY <1>2 DEF Rearm
  <2>4. QED  BY <1>2, <2>1, <2>2, <2>3 DEF Rearm, Goes
<1>3. CASE Resume  BY <1>3 DEF Resume, Enters, MayContinue, ResumeAt
<1>4. CASE Abort  BY <1>4 DEF Abort, Enters, MayContinue
<1>5. CASE Gate  BY <1>5 DEF Gate, Goes
<1>6. CASE Replace  BY <1>6 DEF Replace, Goes
<1>7. CASE Stamp
  <2>1. Released  BY <1>7, ReleasesType DEF Stamp
  <2>2. QED  BY <1>7, <2>1 DEF Stamp, Released
<1>8. CASE Quiesce  BY <1>8 DEF Quiesce, Goes, Attested
<1>9. CASE Hush  BY <1>9 DEF Hush, Goes
<1>10. CASE Halt
  <2>1. Halted  BY <1>10, HaltsType DEF Halt
  <2>3. QED  BY <1>10, <2>1 DEF Halt, Halted, Goes
<1>11. CASE Seal  BY <1>11 DEF Seal, Goes
<1>12. CASE Capture  BY <1>12 DEF Capture, Goes
<1>13. CASE WorkerStarts  BY <1>13 DEF WorkerStarts, ControllerAlive
<1>14. CASE WorkerPublishes  BY <1>14 DEF WorkerPublishes
<1>15. CASE WorkerFails  BY <1>15 DEF WorkerFails, Fault
<1>16. CASE Await  BY <1>16 DEF Await, Goes
<1>q. QED  BY <1>1, <1>2, <1>3, <1>4, <1>5, <1>6, <1>7, <1>8, <1>9, <1>10, <1>11, <1>12, <1>13, <1>14, <1>15, <1>16

\* The controller from the sealed archive on, its refusals and its ends (upgrade.run_pending).
LEMMA MigrationKeepsExclusion ==
    ASSUME ExclusionInvariant, Check \/ Clear \/ Database \/ Migrate \/ VerifyIsolated \/ Drain
        \/ PublishUnits \/ Declare \/ Accept \/ StartApplication \/ RestoreTimer \/ RestoreRoute \/ Finish
        \/ Refuse \/ UpgradeFails \/ UpgradeKilled PROVE ExclusionInvariant'
<1> USE ServiceBounds DEF ExclusionInvariant, TypeOK, ServiceTypeOK, LockHolders, OnePending, CaptureIsStill,
        Authority,
        Pending, UpgradeIdle, BackupSettled, Images, Revisions, Phases, Controlling, Provisioning, Capturing,
        Recovering, vars, upgrade, backup, declared, storage, unit, services, admission, admin, helpers
<1>1. CASE Check  BY <1>1 DEF Check, Goes
<1>2. CASE Clear
  <2>1. Halted  BY <1>2, HaltsType DEF Clear
  <2>2. postgres' \in BOOLEAN  BY <1>2 DEF Clear
  <2>3. QED  BY <1>2, <2>1, <2>2 DEF Clear, Halted, Goes
<1>3. CASE Database  BY <1>3 DEF Database, Goes
<1>4. CASE Migrate  BY <1>4 DEF Migrate, Goes
<1>5. CASE VerifyIsolated  BY <1>5 DEF VerifyIsolated, Goes
<1>6. CASE Drain  BY <1>6 DEF Drain, Goes
<1>7. CASE PublishUnits  BY <1>7 DEF PublishUnits, Goes
<1>8. CASE Declare  BY <1>8 DEF Declare, Goes
<1>9. CASE Accept  BY <1>9 DEF Accept, Goes
<1>10. CASE StartApplication
  <2>1. Started  BY <1>10, StartsType DEF StartApplication
  <2>2. QED  BY <1>10, <2>1 DEF StartApplication, Started, Guard, UpgradePermits, CaptureAlive, ControllerAlive, Goes
<1>11. CASE RestoreTimer  BY <1>11 DEF RestoreTimer, Goes
<1>12. CASE RestoreRoute  BY <1>12 DEF RestoreRoute, Goes
<1>13. CASE Finish
  <2>1. Released  BY <1>13, ReleasesType DEF Finish
  <2>2. QED  BY <1>13, <2>1 DEF Finish, Released
<1>14. CASE Refuse
  <2>1. Released  BY <1>14, ReleasesType DEF Refuse
  <2>2. QED  BY <1>14, <2>1 DEF Refuse, Released, Refused, Attested
<1>15. CASE UpgradeFails
  <2>1. Released  BY <1>15, ReleasesType DEF UpgradeFails
  <2>2. QED  BY <1>15, <2>1 DEF UpgradeFails, Fault, Released
<1>16. CASE UpgradeKilled
  <2>1. Released  BY <1>16, ReleasesType DEF UpgradeKilled
  <2>2. QED  BY <1>16, <2>1 DEF UpgradeKilled, Fault, Released
<1>q. QED  BY <1>1, <1>2, <1>3, <1>4, <1>5, <1>6, <1>7, <1>8, <1>9, <1>10, <1>11, <1>12, <1>13, <1>14, <1>15, <1>16

\* Captures and recoveries (backup.py).
LEMMA BackupKeepsExclusion ==
    ASSUME ExclusionInvariant, BackupNext PROVE ExclusionInvariant'
<1> USE ServiceBounds DEF ExclusionInvariant, TypeOK, ServiceTypeOK, LockHolders, OnePending, CaptureIsStill,
        Authority,
        Pending, UpgradeIdle, BackupSettled, Images, Revisions, Phases, Controlling, Provisioning, Capturing,
        Recovering, vars, upgrade, backup, declared, storage, unit, services, admission, admin, helpers
<1>1. CASE TimerFires  BY <1>1 DEF TimerFires
<1>2. CASE CaptureStarts  BY <1>2 DEF CaptureStarts, LockFor, MayCapture
<1>3. CASE CaptureRefused  BY <1>3 DEF CaptureRefused, Requested, MayCapture
<1>4. CASE CaptureStops
  <2>1. Halted  BY <1>4, HaltsType DEF CaptureStops
  <2>3. QED  BY <1>4, <2>1 DEF CaptureStops, Halted
<1>5. CASE CaptureEnds  BY <1>5 DEF CaptureEnds, CaptureFinishes, Requested
<1>6. CASE CaptureFails  BY <1>6 DEF CaptureFails, Fault, CaptureFinishes, Requested
<1>7. CASE RecoverStarts  BY <1>7 DEF RecoverStarts
<1>8. CASE RecoverLocks  BY <1>8 DEF RecoverLocks, LockFor
<1>9. CASE RecoverRefused  BY <1>9 DEF RecoverRefused
<1>10. CASE RecoverStartsApp
  <2>1. Started  BY <1>10, StartsType DEF RecoverStartsApp
  <2>2. QED  BY <1>10, <2>1 DEF RecoverStartsApp, Started, Guard, UpgradePermits, CaptureAlive, ControllerAlive
<1>11. CASE RecoverSucceeds  BY <1>11 DEF RecoverSucceeds
<1>12. CASE RecoverFails  BY <1>12 DEF RecoverFails, Fault
<1>13. CASE RecoverMarks  BY <1>13 DEF RecoverMarks
<1>14. CASE RecoverClears  BY <1>14 DEF RecoverClears
<1>15. CASE RecoverUnmarks
  <2>1. marker' \in BOOLEAN  BY <1>15 DEF RecoverUnmarks
  <2>2. QED  BY <1>15, <2>1 DEF RecoverUnmarks
<1>16. CASE RecoverKilled  BY <1>16 DEF RecoverKilled, Fault
<1>q. QED  BY <1>1, <1>2, <1>3, <1>4, <1>5, <1>6, <1>7, <1>8, <1>9, <1>10, <1>11, <1>12, <1>13, <1>14, <1>15,
        <1>16 DEF BackupNext, CaptureSteps, RecoverSteps

\* Provisioning and reboots (service.reconcile).
LEMMA HostKeepsExclusion ==
    ASSUME ExclusionInvariant, Provision \/ ProvisionSteps \/ Reboots PROVE ExclusionInvariant'
<1> USE ServiceBounds DEF ExclusionInvariant, TypeOK, ServiceTypeOK, LockHolders, OnePending, CaptureIsStill,
        Authority,
        Pending, UpgradeIdle, BackupSettled, Images, Revisions, Phases, Controlling, Provisioning, Capturing,
        Recovering, vars, upgrade, backup, declared, storage, unit, services, admission, admin, helpers
<1>1. CASE Provision
  <2>1. found' \in BOOLEAN  BY <1>1 DEF Provision
  <2>2. activating' \in BOOLEAN  BY <1>1 DEF Provision
  <2>3. QED  BY <1>1, <2>1, <2>2 DEF Provision, LockFor
<1>2. CASE Publish  BY <1>2 DEF Publish
<1>3. CASE Reload  BY <1>3 DEF Reload, Goes
<1>4. CASE Restart
  <2>1. ServiceTypeOK  OBVIOUS
  <2>f. found' \in BOOLEAN  BY <1>4 DEF Restart
  <2>2. CASE found /\ activating /\ Guard
    <3>1. Runs /\ postgres' = TRUE  BY <1>4, <2>2 DEF Restart
    <3>2. Started  BY <2>1, <2>2, <3>1, RunsType
    <3>3. QED  BY <1>4, <2>f, <2>2, <3>2 DEF Restart, Started
  <2>3. CASE found /\ activating /\ ~Guard
    <3>1. Halted  BY <1>4, <2>3, HaltsType DEF Restart
    <3>2. archive' = archive /\ postgres' = TRUE  BY <1>4, <2>3 DEF Restart
    <3>3. postgres' \in BOOLEAN  BY <3>2
    <3>4. QED  BY <1>4, <2>f, <3>1, <3>2, <3>3 DEF Restart, Halted
  <2>4. CASE found /\ ~activating  BY <1>4, <2>f, <2>4 DEF Restart
  <2>5. CASE ~found
    <3>1. Starts  BY <1>4, <2>5 DEF Restart
    <3>2. Started  BY <2>1, <3>1, StartsType
    <3>3. QED  BY <1>4, <2>f, <3>2 DEF Restart, Started
  <2>6. QED  BY <2>2, <2>3, <2>4, <2>5
<1>5. CASE Arm  BY <1>5 DEF Arm, Goes
<1>6. CASE Complete
  <2>1. activating' \in BOOLEAN  BY <1>6 DEF Complete
  <2>2. Released  BY <1>6, ReleasesType DEF Complete
  <2>3. QED  BY <1>6, <2>1, <2>2 DEF Complete, Released
<1>7. CASE ProvisionEnds
  <2>1. Released  BY <1>7, ReleasesType DEF ProvisionEnds
  <2>2. QED  BY <1>7, <2>1 DEF ProvisionEnds, Fault, Released
<1>8. CASE Reboots
  <2>1. Released  BY <1>8, ReleasesType DEF Reboots
  <2>2. wanted' \in BOOLEAN /\ postgres' \in BOOLEAN /\ timer' \in BOOLEAN  BY <1>8 DEF Reboots
  <2>3. QED  BY <1>8, <2>1, <2>2 DEF Reboots, Released, Fault
<1>q. QED  BY <1>1, <1>2, <1>3, <1>4, <1>5, <1>6, <1>7, <1>8 DEF ProvisionSteps

\* What nobody moves stays as it is.
LEMMA StutterKeepsExclusion == ASSUME ExclusionInvariant, UNCHANGED vars PROVE ExclusionInvariant'
BY DEF ExclusionInvariant, TypeOK, ServiceTypeOK, LockHolders, OnePending, CaptureIsStill, Authority,
        Pending, UpgradeIdle, BackupSettled, Images, Revisions, Phases, Controlling, Provisioning, Capturing,
        Recovering, vars, upgrade, backup, declared, storage, unit, services, admission, admin, helpers

\* A provisioned host has nothing unfinished.
LEMMA InitExclusion == ASSUME ServiceInit PROVE ExclusionInvariant
<1>1. {marker, activating, wanted, postgres, timer, migrated, recorded, work, found} \subseteq BOOLEAN
  BY DEF ServiceInit
<1>2. ServiceTypeOK  BY <1>1, ServiceBounds DEF ServiceInit, ServiceTypeOK, Phases, Images, Revisions
<1>3. LockHolders  BY DEF ServiceInit, LockHolders, Capturing, Recovering
<1>4. OnePending /\ CaptureIsStill
  BY DEF ServiceInit, OnePending, CaptureIsStill, Pending, UpgradeIdle, BackupSettled
<1>5. Authority
  BY DEF ServiceInit, Authority, Controlling, Provisioning, Capturing, Recovering
<1>6. QED  BY <1>2, <1>3, <1>4, <1>5 DEF ExclusionInvariant, TypeOK

\* The inductive invariant, through every interleaving, crash and reboot.
THEOREM ExclusionHolds == Spec => []ExclusionInvariant
<1>1. ASSUME ExclusionInvariant, Next PROVE ExclusionInvariant'
  BY <1>1, ServiceKeepsExclusion, UpgradeKeepsExclusion, MigrationKeepsExclusion, BackupKeepsExclusion,
     HostKeepsExclusion DEF Next, UpgradeNext, UpgradeSteps, WorkerSteps
<1>2. ASSUME ExclusionInvariant, [Next]_vars PROVE ExclusionInvariant'
  BY <1>1, <1>2, StutterKeepsExclusion
<1>3. QED  BY InitExclusion, <1>2, PTL DEF Spec

\* Every variable has its type, and who is in the middle of something holds the
\* operation lock (service.operation_lock).
THEOREM TypeCorrect == Spec => []TypeOK
<1>1. ExclusionInvariant => TypeOK  BY DEF ExclusionInvariant
<1>2. QED  BY ExclusionHolds, <1>1, PTL

\* Upgrade, backup and provisioning never leave two records that refuse each
\* other (upgrade_host.preflight, backup.capture_locked, service.reconcile).
THEOREM OnePendingHolds == Spec => []OnePending
<1>1. ExclusionInvariant => OnePending  BY DEF ExclusionInvariant
<1>2. QED  BY ExclusionHolds, <1>1, PTL

\* The application is down during every capture, also during one whose
\* controller died (backup.capture_locked, upgrade-capture.lock).
THEOREM CapturesAreStill == Spec => []CaptureIsStill
<1>1. ExclusionInvariant => CaptureIsStill  BY DEF ExclusionInvariant
<1>2. QED  BY ExclusionHolds, <1>1, PTL

-----------------------------------------------------------------------------
(* Upgrades are safe, and what runs is what was published.                 *)

\* The phase of the journal at each step of the controller.
StepFits ==
    /\ apc = "rearm" => phase \in {"none", "aborted"}
    /\ apc \in {"gate", "replace", "stamp", "quiesce", "hush", "halt", "seal"} => phase = "prepared"
    /\ apc \in {"capture", "await"} => phase = "quiesced"
    /\ apc = "check" => phase \in {"archive-sealed", "migration-started", "target-verified"}
    /\ apc \in {"clear", "database", "migrate", "verify"} => phase = "migration-started"
    /\ apc \in {"drain", "units", "declare", "accept"} => phase = "target-verified"
    /\ apc \in {"start", "timer", "route", "finish"} => phase \in {"accepted", "aborting"}

\* Whose the storage is, and the image that what is declared and loaded names.
Owner == IF migrated THEN "target" ELSE "source"
Downtime == {"quiesced", "archive-sealed", "migration-started", "target-verified"}

ImagesFit ==
    /\ phase \in {"none", "prepared", "quiesced", "archive-sealed", "aborting", "aborted"} =>
           ~migrated /\ quadlet = "source" /\ desired = "source" /\ loaded = "source"
    /\ phase \in {"accepted", "committed"} =>
           migrated /\ quadlet = "target" /\ desired = "target" /\ loaded = "target"
    /\ phase = "target-verified" \/ apc = "verify" => migrated
    /\ apc \in {"declare", "accept"} => quadlet = "target"
    /\ apc = "accept" => desired = "target" /\ loaded = "target"

\* Nothing is served from the quiesced phase to the accepted one, and what is served
\* is the image that owns the storage.
ServedFits ==
    /\ phase \in Downtime => app = "down"
    /\ app # "down" => app = Owner /\ archive # "fresh"

\* The archive of a transaction is taken of quiesced storage and not served over
\* before the target took the storage.
ArchiveFits ==
    /\ phase = "prepared" => archive = "none"
    /\ phase \in Downtime => archive # "stale"
    /\ phase \in Downtime \ {"quiesced"} => archive # "none"

\* An observation as new as the gate that is in force saw the last work of clients.
AttestFits ==
    /\ attest <= clock /\ epoch <= clock
    /\ route = "gate" /\ epoch # 0 /\ attest >= epoch => ~work
    /\ apc \in {"hush", "halt", "seal"} /\ route = "gate" => ~work
    /\ apc = "replace" => epoch = 0
    /\ phase \in Downtime => ~work

\* A timer that a transaction stopped is recalled.
TimerFits ==
    /\ Pending => timer \/ recall = "on"
    /\ apc \in {"route", "finish"} => timer

\* What runs has the published configuration, or the journal of activation says not.
ConfFits ==
    /\ app # "down" /\ live # conf => activating
    /\ apc = "publish" /\ agoal # conf => activating
    /\ apc \in {"arm", "complete"} /\ app # "down" => live = conf

\* The inductive invariant behind the promise of an upgrade.
UpgradeInv ==
    /\ ExclusionInvariant
    /\ StepFits /\ ImagesFit /\ ServedFits /\ ArchiveFits /\ AttestFits /\ TimerFits /\ ConfFits

\* Systemd, Caddy, the clients and the operator (backup.guard, forgejo.container.j2).
LEMMA ServiceKeepsUpgrade ==
    ASSUME UpgradeInv, ServiceNext
    PROVE (StepFits /\ ImagesFit /\ ServedFits /\ ArchiveFits /\ AttestFits /\ TimerFits /\ ConfFits)'
<1> USE ServiceBounds DEF UpgradeInv, StepFits, ImagesFit, Owner, Downtime, ServedFits, ArchiveFits, AttestFits, 
        TimerFits, ConfFits, ExclusionInvariant, TypeOK, ServiceTypeOK, LockHolders, Authority,
        Pending, UpgradeIdle, BackupSettled, Images, Revisions, Phases, Controlling, Provisioning, Capturing,
        Recovering, vars, upgrade, backup, declared, storage, unit, services, admission, admin, helpers
<1>1. CASE Restarts  BY <1>1 DEF Restarts, Guard, UpgradePermits, Runs
<1>2. CASE AppFails  BY <1>2 DEF AppFails, Fault
<1>3. CASE OperatorStarts  BY <1>3 DEF OperatorStarts, Guard, UpgradePermits, Runs, Starts
<1>4. CASE CaddyRestarts  BY <1>4 DEF CaddyRestarts, Fault
<1>5. CASE RouteEdited  BY <1>5 DEF RouteEdited, Fault
<1>6. CASE RouteReverted  BY <1>6 DEF RouteReverted
<1>7. CASE ClientsWork  BY <1>7 DEF ClientsWork
<1>8. CASE OperatorAttests  BY <1>8 DEF OperatorAttests
<1>9. CASE AttestationAges  BY <1>9 DEF AttestationAges, Fault
<1>q. QED  BY <1>1, <1>2, <1>3, <1>4, <1>5, <1>6, <1>7, <1>8, <1>9 DEF ServiceNext

\* The controller up to the sealed archive, and its worker (upgrade.py, backup.capture_locked).
LEMMA UpgradeKeepsUpgrade ==
    ASSUME UpgradeInv, Begin \/ Rearm \/ Resume \/ Abort \/ Gate \/ Replace \/ Stamp \/ Quiesce \/ Hush \/ Halt \/ Seal \/ Capture \/ WorkerStarts \/ WorkerPublishes \/ WorkerFails \/ Await
    PROVE (StepFits /\ ImagesFit /\ ServedFits /\ ArchiveFits /\ AttestFits /\ TimerFits /\ ConfFits)'
<1> USE ServiceBounds DEF UpgradeInv, StepFits, ImagesFit, Owner, Downtime, ServedFits, ArchiveFits, AttestFits, 
        TimerFits, ConfFits, ExclusionInvariant, TypeOK, ServiceTypeOK, LockHolders, Authority,
        Pending, UpgradeIdle, BackupSettled, Images, Revisions, Phases, Controlling, Provisioning, Capturing,
        Recovering, vars, upgrade, backup, declared, storage, unit, services, admission, admin, helpers
<1>1. CASE Begin  BY <1>1 DEF Begin, Enters
<1>2. CASE Rearm  BY <1>2 DEF Rearm, Goes
<1>3. CASE Resume  BY <1>3 DEF Resume, Enters, MayContinue, ResumeAt
<1>4. CASE Abort  BY <1>4 DEF Abort, Enters, MayContinue
<1>5. CASE Gate  BY <1>5 DEF Gate, Goes
<1>6. CASE Replace  BY <1>6 DEF Replace, Goes
<1>7. CASE Stamp  BY <1>7 DEF Stamp, Releases
<1>8. CASE Quiesce  BY <1>8 DEF Quiesce, Goes, Attested
<1>9. CASE Hush  BY <1>9 DEF Hush, Goes
<1>10. CASE Halt  BY <1>10 DEF Halt, Goes, Halts
<1>11. CASE Seal  BY <1>11 DEF Seal, Goes
<1>12. CASE Capture  BY <1>12 DEF Capture, Goes
<1>13. CASE WorkerStarts  BY <1>13 DEF WorkerStarts
<1>14. CASE WorkerPublishes  BY <1>14 DEF WorkerPublishes
<1>15. CASE WorkerFails  BY <1>15 DEF WorkerFails, Fault
<1>16. CASE Await  BY <1>16 DEF Await, Goes
<1>q. QED  BY <1>1, <1>2, <1>3, <1>4, <1>5, <1>6, <1>7, <1>8, <1>9, <1>10, <1>11, <1>12, <1>13, <1>14, <1>15, <1>16

\* The controller from the sealed archive on, its refusals and its ends (upgrade.run_pending).
LEMMA MigrationKeepsUpgrade ==
    ASSUME UpgradeInv, Check \/ Clear \/ Database \/ Migrate \/ VerifyIsolated \/ Drain \/ PublishUnits \/ Declare \/ Accept \/ StartApplication \/ RestoreTimer \/ RestoreRoute \/ Finish \/ Refuse \/ UpgradeFails \/ UpgradeKilled
    PROVE (StepFits /\ ImagesFit /\ ServedFits /\ ArchiveFits /\ AttestFits /\ TimerFits /\ ConfFits)'
<1> USE ServiceBounds DEF UpgradeInv, StepFits, ImagesFit, Owner, Downtime, ServedFits, ArchiveFits, AttestFits, 
        TimerFits, ConfFits, ExclusionInvariant, TypeOK, ServiceTypeOK, LockHolders, Authority,
        Pending, UpgradeIdle, BackupSettled, Images, Revisions, Phases, Controlling, Provisioning, Capturing,
        Recovering, vars, upgrade, backup, declared, storage, unit, services, admission, admin, helpers
<1>1. CASE Check  BY <1>1 DEF Check, Goes
<1>2. CASE Clear  BY <1>2 DEF Clear, Goes, Halts
<1>3. CASE Database  BY <1>3 DEF Database, Goes
<1>4. CASE Migrate  BY <1>4 DEF Migrate, Goes
<1>5. CASE VerifyIsolated  BY <1>5 DEF VerifyIsolated, Goes
<1>6. CASE Drain  BY <1>6 DEF Drain, Goes
<1>7. CASE PublishUnits  BY <1>7 DEF PublishUnits, Goes
<1>8. CASE Declare  BY <1>8 DEF Declare, Goes
<1>9. CASE Accept  BY <1>9 DEF Accept, Goes
<1>10. CASE StartApplication  BY <1>10 DEF StartApplication, Guard, UpgradePermits, Runs, Starts, Goes
<1>11. CASE RestoreTimer  BY <1>11 DEF RestoreTimer, Goes
<1>12. CASE RestoreRoute  BY <1>12 DEF RestoreRoute, Goes
<1>13. CASE Finish  BY <1>13 DEF Finish, Releases
<1>14. CASE Refuse  BY <1>14 DEF Refuse, Releases
<1>15. CASE UpgradeFails  BY <1>15 DEF UpgradeFails, Releases, Fault
<1>16. CASE UpgradeKilled  BY <1>16 DEF UpgradeKilled, Releases, Fault
<1>q. QED  BY <1>1, <1>2, <1>3, <1>4, <1>5, <1>6, <1>7, <1>8, <1>9, <1>10, <1>11, <1>12, <1>13, <1>14, <1>15, <1>16

\* Captures and recoveries (backup.py).
LEMMA BackupKeepsUpgrade ==
    ASSUME UpgradeInv, BackupNext
    PROVE (StepFits /\ ImagesFit /\ ServedFits /\ ArchiveFits /\ AttestFits /\ TimerFits /\ ConfFits)'
<1> USE ServiceBounds DEF UpgradeInv, StepFits, ImagesFit, Owner, Downtime, ServedFits, ArchiveFits, AttestFits, 
        TimerFits, ConfFits, ExclusionInvariant, TypeOK, ServiceTypeOK, LockHolders, Authority,
        Pending, UpgradeIdle, BackupSettled, Images, Revisions, Phases, Controlling, Provisioning, Capturing,
        Recovering, vars, upgrade, backup, declared, storage, unit, services, admission, admin, helpers
<1>1. CASE TimerFires  BY <1>1 DEF TimerFires
<1>2. CASE CaptureStarts  BY <1>2 DEF CaptureStarts, LockFor, MayCapture
<1>3. CASE CaptureRefused  BY <1>3 DEF CaptureRefused, Requested
<1>4. CASE CaptureStops  BY <1>4 DEF CaptureStops, Halts
<1>5. CASE CaptureEnds  BY <1>5 DEF CaptureEnds, CaptureFinishes, Requested
<1>6. CASE CaptureFails  BY <1>6 DEF CaptureFails, CaptureFinishes, Requested, Fault
<1>7. CASE RecoverStarts  BY <1>7 DEF RecoverStarts
<1>8. CASE RecoverLocks  BY <1>8 DEF RecoverLocks, LockFor
<1>9. CASE RecoverRefused  BY <1>9 DEF RecoverRefused
<1>10. CASE RecoverStartsApp  BY <1>10 DEF RecoverStartsApp, Guard, UpgradePermits, Runs, Starts
<1>11. CASE RecoverSucceeds  BY <1>11 DEF RecoverSucceeds
<1>12. CASE RecoverFails  BY <1>12 DEF RecoverFails, Fault
<1>13. CASE RecoverMarks  BY <1>13 DEF RecoverMarks
<1>14. CASE RecoverClears  BY <1>14 DEF RecoverClears
<1>15. CASE RecoverUnmarks  BY <1>15 DEF RecoverUnmarks
<1>16. CASE RecoverKilled  BY <1>16 DEF RecoverKilled, Fault
<1>q. QED  BY <1>1, <1>2, <1>3, <1>4, <1>5, <1>6, <1>7, <1>8, <1>9, <1>10, <1>11, <1>12, <1>13, <1>14, <1>15, <1>16 DEF BackupNext, CaptureSteps, RecoverSteps

\* Provisioning and reboots (service.reconcile).
LEMMA HostKeepsUpgrade ==
    ASSUME UpgradeInv, Provision \/ ProvisionSteps \/ Reboots
    PROVE (StepFits /\ ImagesFit /\ ServedFits /\ ArchiveFits /\ AttestFits /\ TimerFits /\ ConfFits)'
<1> USE ServiceBounds DEF UpgradeInv, StepFits, ImagesFit, Owner, Downtime, ServedFits, ArchiveFits, AttestFits, 
        TimerFits, ConfFits, ExclusionInvariant, TypeOK, ServiceTypeOK, LockHolders, Authority,
        Pending, UpgradeIdle, BackupSettled, Images, Revisions, Phases, Controlling, Provisioning, Capturing,
        Recovering, vars, upgrade, backup, declared, storage, unit, services, admission, admin, helpers
<1>1. CASE Provision  BY <1>1 DEF Provision, LockFor
<1>2. CASE Publish  BY <1>2 DEF Publish
<1>3. CASE Reload  BY <1>3 DEF Reload, Goes
<1>4. CASE Restart  BY <1>4 DEF Restart, Guard, UpgradePermits, Runs, Starts, Halts
<1>5. CASE Arm  BY <1>5 DEF Arm, Goes
<1>6. CASE Complete  BY <1>6 DEF Complete, Releases
<1>7. CASE ProvisionEnds  BY <1>7 DEF ProvisionEnds, Releases, Fault
<1>8. CASE Reboots  BY <1>8 DEF Reboots, Releases, Fault
<1>q. QED  BY <1>1, <1>2, <1>3, <1>4, <1>5, <1>6, <1>7, <1>8 DEF ProvisionSteps

-----------------------------------------------------------------------------
(* Each step maps to a step of UpgradePromise.                             *)

PromiseStep ==
    \/ Promise!Serve \/ Promise!Stop \/ Promise!Preserve \/ Promise!Discard \/ Promise!TakeOver \/ Promise!Accept
    \/ UNCHANGED Promise!promise

\* A transaction that settles leaves the timer active.
Settles == Pending /\ UpgradeIdle' => timer'

\* Systemd serves the owner of the storage, or stops.
LEMMA ServiceKeepsPromise ==
    ASSUME UpgradeInv, ServiceNext
    PROVE PromiseStep /\ Settles
<1> USE ServiceBounds DEF UpgradeInv, StepFits, ImagesFit, Owner, Downtime, ServedFits, ArchiveFits, TimerFits,
        ExclusionInvariant, TypeOK, ServiceTypeOK, LockHolders, Authority, Settles,
        Pending, UpgradeIdle, BackupSettled, Images, Phases, Controlling, Provisioning, Capturing,
        Recovering, upgrade, backup, declared, storage, unit, services, admission, admin, helpers,
        PromiseStep, Promise!Serve, Promise!Stop, Promise!Preserve, Promise!Discard, Promise!TakeOver,
        Promise!Accept, Promise!promise
<1>1. CASE Restarts  BY <1>1 DEF Restarts, Guard, UpgradePermits, Runs
<1>2. CASE AppFails  BY <1>2 DEF AppFails, Fault
<1>3. CASE OperatorStarts  BY <1>3 DEF OperatorStarts, Guard, UpgradePermits, Runs, Starts
<1>4. CASE CaddyRestarts  BY <1>4 DEF CaddyRestarts, Fault
<1>5. CASE RouteEdited  BY <1>5 DEF RouteEdited, Fault
<1>6. CASE RouteReverted  BY <1>6 DEF RouteReverted
<1>7. CASE ClientsWork  BY <1>7 DEF ClientsWork
<1>8. CASE OperatorAttests  BY <1>8 DEF OperatorAttests
<1>9. CASE AttestationAges  BY <1>9 DEF AttestationAges, Fault
<1>q. QED  BY <1>1, <1>2, <1>3, <1>4, <1>5, <1>6, <1>7, <1>8, <1>9 DEF ServiceNext

\* Up to the sealed archive the source keeps the storage; a worker preserves it.
LEMMA UpgradeKeepsPromise ==
    ASSUME UpgradeInv, Begin \/ Rearm \/ Resume \/ Abort \/ Gate \/ Replace \/ Stamp \/ Quiesce \/ Hush \/ Halt \/ Seal \/ Capture \/ WorkerStarts \/ WorkerPublishes \/ WorkerFails \/ Await
    PROVE PromiseStep /\ Settles
<1> USE ServiceBounds DEF UpgradeInv, StepFits, ImagesFit, Owner, Downtime, ServedFits, ArchiveFits, TimerFits,
        ExclusionInvariant, TypeOK, ServiceTypeOK, LockHolders, Authority, Settles,
        Pending, UpgradeIdle, BackupSettled, Images, Phases, Controlling, Provisioning, Capturing,
        Recovering, upgrade, backup, declared, storage, unit, services, admission, admin, helpers,
        PromiseStep, Promise!Serve, Promise!Stop, Promise!Preserve, Promise!Discard, Promise!TakeOver,
        Promise!Accept, Promise!promise
<1>1. CASE Begin  BY <1>1 DEF Begin, Enters
<1>2. CASE Rearm  BY <1>2 DEF Rearm, Goes
<1>3. CASE Resume  BY <1>3 DEF Resume, Enters, MayContinue, ResumeAt
<1>4. CASE Abort  BY <1>4 DEF Abort, Enters, MayContinue
<1>5. CASE Gate  BY <1>5 DEF Gate, Goes
<1>6. CASE Replace  BY <1>6 DEF Replace, Goes
<1>7. CASE Stamp  BY <1>7 DEF Stamp, Releases
<1>8. CASE Quiesce  BY <1>8 DEF Quiesce, Goes, Attested
<1>9. CASE Hush  BY <1>9 DEF Hush, Goes
<1>10. CASE Halt  BY <1>10 DEF Halt, Goes, Halts
<1>11. CASE Seal  BY <1>11 DEF Seal, Goes
<1>12. CASE Capture  BY <1>12 DEF Capture, Goes
<1>13. CASE WorkerStarts  BY <1>13 DEF WorkerStarts
<1>14. CASE WorkerPublishes  BY <1>14 DEF WorkerPublishes
<1>15. CASE WorkerFails  BY <1>15 DEF WorkerFails, Fault
<1>16. CASE Await  BY <1>16 DEF Await, Goes
<1>q. QED  BY <1>1, <1>2, <1>3, <1>4, <1>5, <1>6, <1>7, <1>8, <1>9, <1>10, <1>11, <1>12, <1>13, <1>14, <1>15, <1>16

\* The target takes the storage over while nothing is served, and is accepted before it serves.
LEMMA MigrationKeepsPromise ==
    ASSUME UpgradeInv, Check \/ Clear \/ Database \/ Migrate \/ VerifyIsolated \/ Drain \/ PublishUnits \/ Declare \/ Accept \/ StartApplication \/ RestoreTimer \/ RestoreRoute \/ Finish \/ Refuse \/ UpgradeFails \/ UpgradeKilled
    PROVE PromiseStep /\ Settles
<1> USE ServiceBounds DEF UpgradeInv, StepFits, ImagesFit, Owner, Downtime, ServedFits, ArchiveFits, TimerFits,
        ExclusionInvariant, TypeOK, ServiceTypeOK, LockHolders, Authority, Settles,
        Pending, UpgradeIdle, BackupSettled, Images, Phases, Controlling, Provisioning, Capturing,
        Recovering, upgrade, backup, declared, storage, unit, services, admission, admin, helpers,
        PromiseStep, Promise!Serve, Promise!Stop, Promise!Preserve, Promise!Discard, Promise!TakeOver,
        Promise!Accept, Promise!promise
<1>1. CASE Check  BY <1>1 DEF Check, Goes
<1>2. CASE Clear  BY <1>2 DEF Clear, Goes, Halts
<1>3. CASE Database  BY <1>3 DEF Database, Goes
<1>4. CASE Migrate  BY <1>4 DEF Migrate, Goes
<1>5. CASE VerifyIsolated  BY <1>5 DEF VerifyIsolated, Goes
<1>6. CASE Drain  BY <1>6 DEF Drain, Goes
<1>7. CASE PublishUnits  BY <1>7 DEF PublishUnits, Goes
<1>8. CASE Declare  BY <1>8 DEF Declare, Goes
<1>9. CASE Accept  BY <1>9 DEF Accept, Goes
<1>10. CASE StartApplication  BY <1>10 DEF StartApplication, Guard, UpgradePermits, Runs, Starts, Goes
<1>11. CASE RestoreTimer  BY <1>11 DEF RestoreTimer, Goes
<1>12. CASE RestoreRoute  BY <1>12 DEF RestoreRoute, Goes
<1>13. CASE Finish  BY <1>13 DEF Finish, Releases
<1>14. CASE Refuse  BY <1>14 DEF Refuse, Releases
<1>15. CASE UpgradeFails  BY <1>15 DEF UpgradeFails, Releases, Fault
<1>16. CASE UpgradeKilled  BY <1>16 DEF UpgradeKilled, Releases, Fault
<1>q. QED  BY <1>1, <1>2, <1>3, <1>4, <1>5, <1>6, <1>7, <1>8, <1>9, <1>10, <1>11, <1>12, <1>13, <1>14, <1>15, <1>16

\* Captures stop the application and recoveries serve the owner of the storage.
LEMMA BackupKeepsPromise ==
    ASSUME UpgradeInv, BackupNext
    PROVE PromiseStep /\ Settles
<1> USE ServiceBounds DEF UpgradeInv, StepFits, ImagesFit, Owner, Downtime, ServedFits, ArchiveFits, TimerFits,
        ExclusionInvariant, TypeOK, ServiceTypeOK, LockHolders, Authority, Settles,
        Pending, UpgradeIdle, BackupSettled, Images, Phases, Controlling, Provisioning, Capturing,
        Recovering, upgrade, backup, declared, storage, unit, services, admission, admin, helpers,
        PromiseStep, Promise!Serve, Promise!Stop, Promise!Preserve, Promise!Discard, Promise!TakeOver,
        Promise!Accept, Promise!promise
<1>1. CASE TimerFires  BY <1>1 DEF TimerFires
<1>2. CASE CaptureStarts  BY <1>2 DEF CaptureStarts, LockFor, MayCapture
<1>3. CASE CaptureRefused  BY <1>3 DEF CaptureRefused, Requested
<1>4. CASE CaptureStops  BY <1>4 DEF CaptureStops, Halts
<1>5. CASE CaptureEnds  BY <1>5 DEF CaptureEnds, CaptureFinishes, Requested
<1>6. CASE CaptureFails  BY <1>6 DEF CaptureFails, CaptureFinishes, Requested, Fault
<1>7. CASE RecoverStarts  BY <1>7 DEF RecoverStarts
<1>8. CASE RecoverLocks  BY <1>8 DEF RecoverLocks, LockFor
<1>9. CASE RecoverRefused  BY <1>9 DEF RecoverRefused
<1>10. CASE RecoverStartsApp  BY <1>10 DEF RecoverStartsApp, Guard, UpgradePermits, Runs, Starts
<1>11. CASE RecoverSucceeds  BY <1>11 DEF RecoverSucceeds
<1>12. CASE RecoverFails  BY <1>12 DEF RecoverFails, Fault
<1>13. CASE RecoverMarks  BY <1>13 DEF RecoverMarks
<1>14. CASE RecoverClears  BY <1>14 DEF RecoverClears
<1>15. CASE RecoverUnmarks  BY <1>15 DEF RecoverUnmarks
<1>16. CASE RecoverKilled  BY <1>16 DEF RecoverKilled, Fault
<1>q. QED  BY <1>1, <1>2, <1>3, <1>4, <1>5, <1>6, <1>7, <1>8, <1>9, <1>10, <1>11, <1>12, <1>13, <1>14, <1>15, <1>16 DEF BackupNext, CaptureSteps, RecoverSteps

\* Provisioning and reboots stop and serve.
LEMMA HostKeepsPromise ==
    ASSUME UpgradeInv, Provision \/ ProvisionSteps \/ Reboots
    PROVE PromiseStep /\ Settles
<1> USE ServiceBounds DEF UpgradeInv, StepFits, ImagesFit, Owner, Downtime, ServedFits, ArchiveFits, TimerFits,
        ExclusionInvariant, TypeOK, ServiceTypeOK, LockHolders, Authority, Settles,
        Pending, UpgradeIdle, BackupSettled, Images, Phases, Controlling, Provisioning, Capturing,
        Recovering, upgrade, backup, declared, storage, unit, services, admission, admin, helpers,
        PromiseStep, Promise!Serve, Promise!Stop, Promise!Preserve, Promise!Discard, Promise!TakeOver,
        Promise!Accept, Promise!promise
<1>1. CASE Provision  BY <1>1 DEF Provision, LockFor
<1>2. CASE Publish  BY <1>2 DEF Publish
<1>3. CASE Reload  BY <1>3 DEF Reload, Goes
<1>4. CASE Restart  BY <1>4 DEF Restart, Guard, UpgradePermits, Runs, Starts, Halts
<1>5. CASE Arm  BY <1>5 DEF Arm, Goes
<1>6. CASE Complete  BY <1>6 DEF Complete, Releases
<1>7. CASE ProvisionEnds  BY <1>7 DEF ProvisionEnds, Releases, Fault
<1>8. CASE Reboots  BY <1>8 DEF Reboots, Releases, Fault
<1>q. QED  BY <1>1, <1>2, <1>3, <1>4, <1>5, <1>6, <1>7, <1>8 DEF ProvisionSteps

\* What nobody moves stays as it is.
LEMMA StutterKeepsUpgrade ==
    ASSUME UpgradeInv, UNCHANGED vars
    PROVE UpgradeInv' /\ PromiseStep /\ Settles
<1>1. ExclusionInvariant'  BY StutterKeepsExclusion DEF UpgradeInv
<1>2. (StepFits /\ ImagesFit /\ ServedFits /\ ArchiveFits /\ AttestFits /\ TimerFits /\ ConfFits)'
  BY DEF UpgradeInv, StepFits, ImagesFit, Owner, Downtime, ServedFits, ArchiveFits, AttestFits, TimerFits, ConfFits,
      Pending, UpgradeIdle, vars, upgrade, declared, storage, unit, services, admission, admin
<1>3. PromiseStep
  BY DEF PromiseStep, Promise!promise, vars, upgrade, storage, unit, services
<1>4. Settles  BY DEF Settles, Pending, UpgradeIdle, vars, upgrade
<1>q. QED  BY <1>1, <1>2, <1>3, <1>4 DEF UpgradeInv

\* Every step keeps the invariant and maps to the promise.
LEMMA StepKeepsUpgrade ==
    ASSUME UpgradeInv, [Next]_vars
    PROVE UpgradeInv' /\ PromiseStep /\ Settles
<1>1. CASE Next
  <2>1. ExclusionInvariant'
    BY <1>1, ServiceKeepsExclusion, UpgradeKeepsExclusion, MigrationKeepsExclusion, BackupKeepsExclusion,
       HostKeepsExclusion DEF Next, UpgradeNext, UpgradeSteps, WorkerSteps, UpgradeInv
  <2>2. (StepFits /\ ImagesFit /\ ServedFits /\ ArchiveFits /\ AttestFits /\ TimerFits /\ ConfFits)'
    BY <1>1, ServiceKeepsUpgrade, UpgradeKeepsUpgrade, MigrationKeepsUpgrade, BackupKeepsUpgrade,
       HostKeepsUpgrade DEF Next, UpgradeNext, UpgradeSteps, WorkerSteps
  <2>3. PromiseStep /\ Settles
    BY <1>1, ServiceKeepsPromise, UpgradeKeepsPromise, MigrationKeepsPromise, BackupKeepsPromise,
       HostKeepsPromise DEF Next, UpgradeNext, UpgradeSteps, WorkerSteps
  <2>4. QED  BY <2>1, <2>2, <2>3 DEF UpgradeInv
<1>2. CASE UNCHANGED vars  BY <1>2, StutterKeepsUpgrade
<1>q. QED  BY <1>1, <1>2

\* A provisioned host satisfies the invariant.
LEMMA InitUpgrade == ASSUME ServiceInit PROVE UpgradeInv
<1>1. ExclusionInvariant  BY InitExclusion
<1>2. StepFits /\ ImagesFit /\ ServedFits /\ ArchiveFits /\ AttestFits /\ TimerFits /\ ConfFits
  BY DEF ServiceInit, StepFits, ImagesFit, Owner, Downtime, ServedFits, ArchiveFits, AttestFits, TimerFits, ConfFits,
      Pending, UpgradeIdle
<1>q. QED  BY <1>1, <1>2 DEF UpgradeInv

\* Journal, images, archive, attestation, timer and configuration always agree.
LEMMA UpgradeHolds == Spec => []UpgradeInv
<1>1. ASSUME UpgradeInv, [Next]_vars PROVE UpgradeInv'  BY <1>1, StepKeepsUpgrade
<1>q. QED  BY InitUpgrade, <1>1, PTL DEF Spec

\* When nothing is unfinished, the running application has the published
\* configuration, however often provisioning was interrupted (service.reconcile).
THEOREM PublishedIsActive == Spec => []ConfigurationActive
<1>1. UpgradeInv => ConfigurationActive  BY DEF UpgradeInv, ConfFits, ConfigurationActive
<1>q. QED  BY <1>1, UpgradeHolds, PTL

\* From the quiesced phase to the irreversible boundary no client has worked since
\* the operator flushed the queues, lost and renewed gates included.
THEOREM QuietAttested == Spec => []AttestedQuiet
<1>1. UpgradeInv => AttestedQuiet  BY DEF UpgradeInv, AttestFits, AttestedQuiet, Downtime
<1>q. QED  BY <1>1, UpgradeHolds, PTL

\* The target takes the storage over only with a fresh archive and nothing served,
\* and is served only once accepted; the source never again.
THEOREM PromiseKept == Spec => KeepsUpgradePromise
<1>1. ServiceInit => Promise!Init  BY DEF ServiceInit, Promise!Init
<1>2. ASSUME UpgradeInv, [Next]_vars
      PROVE [Promise!Serve \/ Promise!Stop \/ Promise!Preserve \/ Promise!Discard \/ Promise!TakeOver
                \/ Promise!Accept]_(Promise!promise)
  BY <1>2, StepKeepsUpgrade DEF PromiseStep
<1>q. QED  BY <1>1, <1>2, UpgradeHolds, PTL DEF Spec, KeepsUpgradePromise, Promise!Spec

\* Both together: what the run checks as one property.
THEOREM UpgradesSafe == Spec => UpgradesAreSafe
BY PromiseKept, QuietAttested, PTL DEF UpgradesAreSafe

\* A transaction that settles leaves the nightly backups scheduled
\* (upgrade.quiesce records the timer before it stops it).
THEOREM BackupsScheduled == Spec => BackupsResume
<1>1. ASSUME UpgradeInv, [Next]_vars PROVE [Pending /\ UpgradeIdle' => timer']_vars
  BY <1>1, StepKeepsUpgrade DEF Settles
<1>q. QED  BY <1>1, UpgradeHolds, PTL DEF Spec, BackupsResume
=============================================================================
