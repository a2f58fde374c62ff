---------------------------- MODULE ForgejoUpgrade ----------------------------
(***************************************************************************)
(* The attended upgrade of the application (upgrade.py, upgrade_host.py):  *)
(* one controller process under the operation lock drives the journal from *)
(* "prepared" to "committed", or an authorized abort takes it back.  apc   *)
(* is the next step of the controller.  The journal survives every crash,  *)
(* and "resume" continues from its phase.                                  *)
(***************************************************************************)
EXTENDS ForgejoService

\* The controller's process ends; whatever it left stays behind.
Releases == lock' = "free" /\ apc' = "idle" /\ agoal' = 0 /\ found' = FALSE
Goes(step) == apc' = step /\ UNCHANGED <<lock, agoal, found>>
Enters(step) == lock = "free" /\ apc = "idle" /\ lock' = "admin" /\ apc' = step /\ UNCHANGED <<agoal, found>>

\* Journal phases in which the application must stay down.
Pending == ~UpgradeIdle

-----------------------------------------------------------------------------
(* Entry points.                                                           *)

\* upgrade.perform and the first half of preflight: everything is verified,
\* then the timers are stopped while no helper runs.
Begin ==
    /\ attempts < MaxAttempts
    /\ phase \in {"none", "aborted"} /\ BackupSettled /\ ~activating /\ wpc # "dumping"
    /\ app = desired /\ postgres /\ timer
    /\ bpc = "idle" /\ rpc = "idle"
    /\ timer' = FALSE
    /\ Enters("rearm")
    /\ UNCHANGED <<upgrade, backup, declared, storage, loaded, unit, postgres, isolated, admission, helpers, faults>>

\* The guards are installed and the timers run again; the journal is written.
Rearm ==
    /\ apc = "rearm"
    /\ timer' = TRUE
    /\ phase' = "prepared" /\ recall' = "unset" /\ attempts' = attempts + 1
    /\ archive' = "none"
    /\ recorded' = FALSE /\ epoch' = 0 /\ attest' = 0
    /\ Goes("gate")
    /\ UNCHANGED <<backup, declared, migrated, loaded, unit, postgres, isolated, route, clock, work, helpers, faults>>

\* Mutant: a worker that outlived its controller is not waited for.
MayContinueAtOnce == lock = "free" /\ apc = "idle" /\ BackupSettled /\ ~activating

\* What resume and abort verify first; the capture lock must be free.
MayContinue == lock = "free" /\ apc = "idle" /\ BackupSettled /\ ~activating /\ wpc # "dumping"

ResumeAt ==
    CASE phase = "prepared" -> "gate"
      [] phase = "quiesced" -> "capture"
      [] phase = "accepted" -> "start"
      [] OTHER -> "check"

Resume ==
    /\ MayContinue /\ Pending /\ phase # "aborting"
    /\ Enters(ResumeAt)
    /\ UNCHANGED <<upgrade, backup, declared, storage, services, admission, helpers, faults>>

\* Mutant: an abort is still accepted once the migration has begun.
AbortAnyPhase ==
    /\ MayContinue /\ phase \in {"prepared", "quiesced", "archive-sealed", "migration-started", "aborting"}
    /\ phase' = "aborting"
    /\ Enters("start")
    /\ UNCHANGED <<recall, attempts, backup, declared, storage, services, admission, helpers, faults>>

Abort ==
    /\ MayContinue /\ phase \in {"prepared", "quiesced", "archive-sealed", "aborting"}
    /\ phase' = "aborting"
    /\ Enters("start")
    /\ UNCHANGED <<recall, attempts, backup, declared, storage, services, admission, helpers, faults>>

-----------------------------------------------------------------------------
(* prepared -> quiesced                                                    *)

\* preserve and block_admission.  A new gate invalidates the recorded epoch
\* before it replaces the route.
Gate ==
    /\ apc = "gate" /\ route # "edited"
    /\ recorded' = TRUE
    /\ IF route = "original" THEN epoch' = 0 /\ Goes("replace")
       ELSE epoch' = epoch /\ Goes(IF epoch = 0 THEN "stamp" ELSE "quiesce")
    /\ UNCHANGED <<upgrade, backup, declared, storage, services, route, clock, attest, work, helpers, faults>>

\* The conditional update refuses a route that changed meanwhile.
Replace ==
    /\ apc = "replace" /\ route = "original"
    /\ route' = "gate"
    /\ Goes(IF epoch = 0 THEN "stamp" ELSE "quiesce")
    /\ UNCHANGED <<upgrade, backup, declared, storage, services, recorded, epoch, clock, attest, work, helpers, faults>>

\* The gate is in force from now on, and the archive is pinned.  The operator's
\* observation was read before, so this process cannot go further.
Stamp ==
    /\ apc = "stamp"
    /\ epoch' = clock + 1 /\ clock' = clock + 1
    /\ Releases
    /\ UNCHANGED <<upgrade, backup, declared, storage, services, route, recorded, attest, work, helpers, faults>>

\* quiesce: the gate holds and the operator's observation is newer than it.
Attested == route = "gate" /\ epoch # 0 /\ attest >= epoch

\* Mutant: resuming records the timer anew.
QuiesceRecallsAgain ==
    /\ apc = "quiesce" /\ Attested /\ postgres
    /\ recall' = IF timer THEN "on" ELSE "off"
    /\ Goes("hush")
    /\ UNCHANGED <<phase, attempts, backup, declared, storage, services, admission, helpers, faults>>

Quiesce ==
    /\ apc = "quiesce" /\ Attested /\ postgres
    /\ recall' = IF recall = "unset" THEN IF timer THEN "on" ELSE "off" ELSE recall
    /\ Goes("hush")
    /\ UNCHANGED <<phase, attempts, backup, declared, storage, services, admission, helpers, faults>>

Hush ==
    /\ apc = "hush"
    /\ timer' = (timer /\ recall # "on")
    /\ Goes("halt")
    /\ UNCHANGED <<upgrade, backup, declared, storage, loaded, unit, postgres, isolated, admission, helpers, faults>>

Halt ==
    /\ apc = "halt"
    /\ Halts
    /\ Goes("seal")
    /\ UNCHANGED <<upgrade, backup, declared, storage, loaded, postgres, isolated, timer, admission, helpers, faults>>

Seal ==
    /\ apc = "seal" /\ app = "down" /\ route = "gate"
    /\ phase' = "quiesced"
    /\ Goes("capture")
    /\ UNCHANGED <<recall, attempts, backup, declared, storage, services, admission, helpers, faults>>

-----------------------------------------------------------------------------
(* quiesced -> archive-sealed: the capture worker (backup.py               *)
(* capture-upgrade) is a process of the service account, and survives the  *)
(* controller.                                                             *)

\* An archive that was completed before an interruption is reused.
Capture ==
    /\ apc = "capture" /\ postgres
    /\ IF archive # "none"
       THEN phase' = "archive-sealed" /\ Goes("check") /\ wpc' = wpc
       ELSE wpc = "idle" /\ wpc' = "launched" /\ Goes("await") /\ phase' = phase
    /\ UNCHANGED <<recall, attempts, backup, declared, storage, services, admission, bpc, rpc, faults>>

\* Once it holds the capture lock, the worker verifies the transaction and
\* its live controller, and that nobody writes.
WorkerStarts ==
    /\ wpc = "launched"
    /\ wpc' = IF phase = "quiesced" /\ ControllerAlive /\ BackupSettled /\ ~activating /\ postgres /\ app = "down"
              THEN "dumping" ELSE "idle"
    /\ UNCHANGED <<upgrade, backup, declared, storage, services, admission, lock, admin, bpc, rpc, faults>>

WorkerPublishes ==
    /\ wpc = "dumping"
    /\ wpc' = "idle"
    /\ archive' = IF app = "down" /\ archive = "none" THEN "fresh" ELSE archive
    /\ UNCHANGED <<upgrade, backup, declared, migrated, services, admission, lock, admin, bpc, rpc, faults>>

WorkerFails ==
    /\ wpc # "idle" /\ Fault
    /\ wpc' = "idle"
    /\ UNCHANGED <<upgrade, backup, declared, storage, services, admission, lock, admin, bpc, rpc>>

Await ==
    /\ apc = "await" /\ wpc = "idle" /\ archive # "none" /\ postgres
    /\ phase' = "archive-sealed"
    /\ Goes("check")
    /\ UNCHANGED <<recall, attempts, backup, declared, storage, services, admission, helpers, faults>>

-----------------------------------------------------------------------------
(* archive-sealed -> migration-started -> target-verified -> accepted      *)

\* The archive is inspected again, and the irreversible boundary recorded.
Check ==
    /\ apc = "check" /\ archive # "none"
    /\ phase' = "migration-started"
    /\ Goes("clear")
    /\ UNCHANGED <<recall, attempts, backup, declared, storage, services, admission, helpers, faults>>

\* migrate: leftovers of this transaction go, and so does the database, which
\* the application's unit requires.
Clear ==
    /\ apc = "clear" /\ wpc # "dumping"
    /\ isolated' = "none" /\ postgres' = FALSE
    /\ Halts
    /\ Goes("database")
    /\ UNCHANGED <<upgrade, backup, declared, storage, loaded, timer, admission, helpers, faults>>

Database ==
    /\ apc = "database"
    /\ isolated' = "database"
    /\ Goes("migrate")
    /\ UNCHANGED <<upgrade, backup, declared, storage, loaded, unit, postgres, timer, admission, helpers, faults>>

Migrate ==
    /\ apc = "migrate"
    /\ isolated' = "both" /\ migrated' = TRUE
    /\ Goes("verify")
    /\ UNCHANGED <<upgrade, backup, declared, archive, loaded, unit, postgres, timer, admission, helpers, faults>>

VerifyIsolated ==
    /\ apc = "verify"
    /\ phase' = "target-verified"
    /\ Goes("drain")
    /\ UNCHANGED <<recall, attempts, backup, declared, storage, services, admission, helpers, faults>>

Drain ==
    /\ apc = "drain"
    /\ isolated' = "none"
    /\ Goes("units")
    /\ UNCHANGED <<upgrade, backup, declared, storage, loaded, unit, postgres, timer, admission, helpers, faults>>

\* publish: first the units, then the declaration.
PublishUnits ==
    /\ apc = "units"
    /\ quadlet' = "target"
    /\ Goes("declare")
    /\ UNCHANGED <<upgrade, backup, desired, conf, activating, storage, services, admission, helpers, faults>>

Declare ==
    /\ apc = "declare"
    /\ desired' = "target" /\ loaded' = quadlet
    /\ Goes("accept")
    /\ UNCHANGED <<upgrade, backup, quadlet, conf, activating, storage, unit, postgres, isolated, timer, admission, helpers, faults>>

\* The durable decision to reopen admission.
Accept ==
    /\ apc = "accept"
    /\ phase' = "accepted"
    /\ Goes("start")
    /\ UNCHANGED <<recall, attempts, backup, declared, storage, services, admission, helpers, faults>>

-----------------------------------------------------------------------------
(* accepted -> committed, aborting -> aborted: activate and abort_source.  *)

StartApplication ==
    /\ apc = "start"
    /\ Starts
    /\ Goes("timer")
    /\ UNCHANGED <<upgrade, backup, declared, migrated, loaded, isolated, timer, admission, helpers, faults>>

\* The application is healthy.
RestoreTimer ==
    /\ apc = "timer" /\ app # "down"
    /\ timer' = (timer \/ recall = "on")
    /\ Goes("route")
    /\ UNCHANGED <<upgrade, backup, declared, storage, loaded, unit, postgres, isolated, admission, helpers, faults>>

RestoreRoute ==
    /\ apc = "route" /\ (recorded => route # "edited")
    /\ route' = IF recorded THEN "original" ELSE route
    /\ Goes("finish")
    /\ UNCHANGED <<upgrade, backup, declared, storage, services, recorded, epoch, clock, attest, work, helpers, faults>>

Finish ==
    /\ apc = "finish"
    /\ \/ phase = "aborting" /\ phase' = "aborted"
       \/ phase = "accepted" /\ app = desired /\ postgres /\ timer /\ phase' = "committed"
    /\ Releases
    /\ UNCHANGED <<recall, attempts, backup, declared, storage, services, admission, helpers, faults>>

-----------------------------------------------------------------------------
(* Refusals and failures.                                                  *)

\* A check that does not hold ends the process: a prepared transaction waits
\* for the operator.
Refused ==
    \/ apc = "gate" /\ route = "edited"
    \/ apc = "replace" /\ route # "original"
    \/ apc = "quiesce" /\ ~(Attested /\ postgres)
    \/ apc = "seal" /\ ~(app = "down" /\ route = "gate")
    \/ apc \in {"capture", "await"} /\ wpc = "idle" /\ ~postgres
    \/ apc = "await" /\ wpc = "idle" /\ archive = "none"
    \/ apc = "timer" /\ app = "down"
    \/ apc = "route" /\ recorded /\ route = "edited"
    \/ apc = "finish" /\ phase = "accepted" /\ ~(app = desired /\ postgres /\ timer)

Refuse ==
    /\ Refused
    /\ Releases
    /\ UNCHANGED <<upgrade, backup, declared, storage, services, admission, helpers, faults>>

\* A command fails.  The exception handler tries to remove the isolated
\* containers, and preflight restarts the timers.
UpgradeFails ==
    /\ apc \in Controlling /\ Fault
    /\ isolated' \in IF phase \in {"migration-started", "target-verified"} THEN {"none", isolated} ELSE {isolated}
    /\ timer' = (timer \/ apc = "rearm")
    /\ Releases
    /\ UNCHANGED <<upgrade, backup, declared, storage, loaded, unit, postgres, admission, helpers>>

\* The controller is killed.  A worker that has not verified it yet finds it dead.
UpgradeKilled ==
    /\ apc \in Controlling /\ Fault
    /\ wpc' = IF wpc = "launched" THEN "idle" ELSE wpc
    /\ Releases
    /\ UNCHANGED <<upgrade, backup, declared, storage, services, admission, bpc, rpc>>

UpgradeSteps ==
    \/ Rearm \/ Gate \/ Replace \/ Stamp \/ Quiesce \/ Hush \/ Halt \/ Seal \/ Capture \/ Await
    \/ Check \/ Clear \/ Database \/ Migrate \/ VerifyIsolated \/ Drain \/ PublishUnits \/ Declare \/ Accept
    \/ StartApplication \/ RestoreTimer \/ RestoreRoute \/ Finish \/ Refuse
WorkerSteps == WorkerStarts \/ WorkerPublishes

UpgradeNext ==
    \/ Begin \/ Resume \/ Abort \/ UpgradeSteps \/ WorkerSteps
    \/ WorkerFails \/ UpgradeFails \/ UpgradeKilled
=============================================================================
