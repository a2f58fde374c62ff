---------------------------- MODULE ForgejoService ----------------------------
(***************************************************************************)
(* The host of the rootless Forgejo deployment (roles/forgejo): the three  *)
(* durable records that announce unfinished work (upgrade-state.json,      *)
(* restart-intent.json, activation-pending.json), the declared and the     *)
(* loaded runtime image, systemd's units with the startup guard, and the   *)
(* route that Caddy keeps for the application.                             *)
(*                                                                         *)
(* Two images matter: the one an upgrade leaves and the one it reaches.    *)
(* The configuration is the number of the revision last published.         *)
(***************************************************************************)
EXTENDS Naturals

CONSTANTS
    MaxAttempts,     \* bound: upgrade transactions
    MaxRevision,     \* bound: revisions of the configuration
    MaxFaults        \* bound: failed commands, crashes, kills, reboots, edited routes, aged observations

ASSUME ServiceBounds == MaxAttempts \in Nat /\ MaxRevision \in Nat /\ MaxFaults \in Nat

VARIABLES
    \* durable records
    phase,       \* of upgrade-state.json; "none" when there is no record
    recall,      \* its backup_timer_active
    attempts,    \* transactions recorded so far
    intent,      \* phase of restart-intent.json; "none" when absent
    marker,      \* whether recovery-failed exists
    activating,  \* whether activation-pending.json exists
    \* declarations
    quadlet,     \* image in forgejo.container
    desired,     \* image in desired.json
    conf,        \* revision of the published configuration
    \* application storage
    migrated,    \* whether the target has opened the database
    archive,     \* the transaction's archive: "none", "fresh", or "stale" once the application ran again
    \* systemd, containers and the proxy
    loaded,      \* image of the loaded unit
    app,         \* image of the running application, or "down"
    live,        \* configuration revision that it runs with
    wanted,      \* whether systemd keeps forgejo.service started
    postgres,    \* whether forgejo-postgres.service runs
    isolated,    \* migration containers that run
    timer,       \* whether forgejo-backup.timer is active
    route,       \* what Caddy does with requests for the application
    \* admission record of the transaction and the operator's attestation
    recorded,    \* whether the record exists
    epoch,       \* gated_at, as a count; 0 when absent
    clock,       \* the last gated_at written
    attest,      \* clock at the operator's observation; 0 when there is none
    work,        \* whether clients may have worked since that observation
    \* processes
    lock,        \* holder of operation.lock
    apc,         \* the administrator's process: upgrade controller or provisioning
    agoal,       \* the revision that provisioning publishes
    found,       \* whether provisioning found the application active when it began
    wpc,         \* the worker of an upgrade's capture
    bpc, rpc,    \* forgejo-backup.service and forgejo-recover.service
    \* bounded counter
    faults

upgrade == <<phase, recall, attempts>>
backup == <<intent, marker>>
declared == <<quadlet, desired, conf, activating>>
storage == <<migrated, archive>>
unit == <<app, live, wanted>>
services == <<loaded, unit, postgres, isolated, timer>>
admission == <<route, recorded, epoch, clock, attest, work>>
admin == <<apc, agoal, found>>
helpers == <<wpc, bpc, rpc>>
vars == <<upgrade, backup, declared, storage, services, admission, lock, admin, helpers, faults>>

Images == {"source", "target"}
Revisions == 0 .. MaxRevision
Phases == {"none", "prepared", "quiesced", "archive-sealed", "migration-started",
           "target-verified", "accepted", "committed", "aborting", "aborted"}
Controlling ==
    {"rearm", "gate", "replace", "stamp", "quiesce", "hush", "halt", "seal", "capture", "await",
     "check", "clear", "database", "migrate", "verify", "drain", "units", "declare", "accept",
     "start", "timer", "route", "finish"}
Provisioning == {"publish", "reload", "restart", "arm", "complete"}
Capturing == {"stop", "dump"}
Recovering == {"start", "health", "mark", "clear", "unmark"}

ServiceTypeOK ==
    /\ phase \in Phases /\ recall \in {"unset", "on", "off"} /\ attempts \in 0 .. MaxAttempts
    /\ intent \in {"none", "capturing", "recovering", "failed"} /\ marker \in BOOLEAN
    /\ quadlet \in Images /\ desired \in Images /\ conf \in Revisions /\ activating \in BOOLEAN
    /\ migrated \in BOOLEAN /\ archive \in {"none", "fresh", "stale"}
    /\ loaded \in Images /\ app \in Images \cup {"down"} /\ live \in Revisions
    /\ wanted \in BOOLEAN /\ postgres \in BOOLEAN /\ timer \in BOOLEAN
    /\ isolated \in {"none", "database", "both"}
    /\ route \in {"original", "gate", "edited"} /\ recorded \in BOOLEAN
    /\ {epoch, clock, attest} \subseteq Nat /\ work \in BOOLEAN
    /\ lock \in {"free", "admin", "backup", "recover"}
    /\ apc \in {"idle"} \cup Controlling \cup Provisioning /\ agoal \in Revisions /\ found \in BOOLEAN
    /\ wpc \in {"idle", "launched", "dumping"}
    /\ bpc \in {"idle", "lock"} \cup Capturing
    /\ rpc \in {"idle", "wanted", "lock"} \cup Recovering
    /\ faults \in 0 .. MaxFaults

Fault == faults < MaxFaults /\ faults' = faults + 1

\* A provisioned host whose application runs the source image.
ServiceInit ==
    /\ phase = "none" /\ recall = "unset" /\ attempts = 0
    /\ intent = "none" /\ marker = FALSE /\ activating = FALSE
    /\ quadlet = "source" /\ desired = "source" /\ loaded = "source" /\ app = "source"
    /\ conf = 0 /\ live = 0 /\ wanted = TRUE /\ postgres = TRUE /\ timer = TRUE
    /\ migrated = FALSE /\ archive = "none" /\ isolated = "none"
    /\ route = "original" /\ recorded = FALSE /\ epoch = 0 /\ clock = 0 /\ attest = 0 /\ work = TRUE
    /\ lock = "free" /\ apc = "idle" /\ agoal = 0 /\ found = FALSE /\ wpc = "idle" /\ bpc = "idle" /\ rpc = "idle"
    /\ faults = 0

-----------------------------------------------------------------------------
(* What the records permit.                                                *)

\* upgrade_state.require_idle
UpgradeIdle == phase \in {"none", "committed", "aborted"}
\* No backup has to be recovered first.
BackupSettled == intent = "none" /\ ~marker

\* The processes that records name by their identity.
ControllerAlive == apc \in Controlling
CaptureAlive == bpc \in Capturing

\* upgrade_state.require_start
UpgradePermits ==
    \/ phase \in {"none", "aborted"}
    \/ phase \in {"accepted", "committed"} /\ desired = "target"
    \/ phase = "aborting" /\ desired = "source" /\ ControllerAlive

\* backup.py guard: ExecStartPre of forgejo.service.
Guard ==
    /\ UpgradePermits
    /\ \/ BackupSettled
       \/ intent = "recovering"
       \/ intent = "capturing" /\ ~CaptureAlive

-----------------------------------------------------------------------------
(* forgejo.service.                                                        *)

\* The application runs: with the loaded image and the published
\* configuration, and it writes to what an archive may have captured.
Runs ==
    /\ app' = loaded /\ live' = conf /\ wanted' = TRUE
    /\ archive' = IF archive = "fresh" THEN "stale" ELSE archive
Halts == app' = "down" /\ wanted' = FALSE /\ live' = live

\* "systemctl start forgejo.service" starts the database first, and the guard
\* decides; after a refusal, systemd tries again (Restart=on-failure).
Starts ==
    /\ postgres' = TRUE
    /\ IF app # "down" \/ ~Guard THEN wanted' = TRUE /\ UNCHANGED <<app, live, archive>>
       ELSE Runs

\* systemd starts what it keeps started: at boot and after a failure.
Restarts ==
    /\ wanted /\ app = "down" /\ Guard
    /\ postgres' = TRUE
    /\ Runs
    /\ UNCHANGED <<upgrade, backup, declared, migrated, loaded, isolated, timer, admission, lock,
                   admin, helpers, faults>>

AppFails ==
    /\ app # "down" /\ Fault
    /\ app' = "down"
    /\ UNCHANGED <<upgrade, backup, declared, storage, loaded, live, wanted, postgres, isolated, timer,
                   admission, lock, admin, helpers>>

\* An operator starts the application.  The documentation forbids it from the
\* migration on.
OperatorStarts ==
    /\ ~wanted /\ ~migrated /\ phase # "migration-started"
    /\ Starts
    /\ UNCHANGED <<upgrade, backup, declared, migrated, loaded, isolated, timer, admission, lock,
                   admin, helpers, faults>>

-----------------------------------------------------------------------------
(* Caddy and the clients.                                                  *)

\* Caddy loads its boot configuration, which knows no maintenance gate.
CaddyRestarts ==
    /\ route = "gate" /\ Fault
    /\ route' = "original"
    /\ UNCHANGED <<upgrade, backup, declared, storage, services, recorded, epoch, clock, attest, work, lock, admin, helpers>>

RouteEdited ==
    /\ route # "edited" /\ Fault
    /\ route' = "edited"
    /\ UNCHANGED <<upgrade, backup, declared, storage, services, recorded, epoch, clock, attest, work, lock, admin, helpers>>

RouteReverted ==
    /\ route = "edited"
    /\ route' = "original"
    /\ UNCHANGED <<upgrade, backup, declared, storage, services, recorded, epoch, clock, attest, work, lock, admin, helpers, faults>>

ClientsWork ==
    /\ route # "gate" /\ app # "down" /\ ~work
    /\ work' = TRUE
    /\ UNCHANGED <<upgrade, backup, declared, storage, services, route, recorded, epoch, clock, attest, lock, admin, helpers, faults>>

\* The attended operator handles mirrors, flushes the queues of the running
\* application and notes the time; once it is down, nothing new can be flushed.
OperatorAttests ==
    /\ phase = "prepared" /\ (app # "down" \/ ~work) /\ (work \/ attest # clock)
    /\ attest' = clock /\ work' = FALSE
    /\ UNCHANGED <<upgrade, backup, declared, storage, services, route, recorded, epoch, clock, lock, admin, helpers, faults>>

AttestationAges ==
    /\ attest # 0 /\ Fault
    /\ attest' = 0
    /\ UNCHANGED <<upgrade, backup, declared, storage, services, route, recorded, epoch, clock, work, lock, admin, helpers>>

ServiceNext ==
    \/ Restarts \/ AppFails \/ OperatorStarts
    \/ CaddyRestarts \/ RouteEdited \/ RouteReverted \/ ClientsWork \/ OperatorAttests \/ AttestationAges
=============================================================================
