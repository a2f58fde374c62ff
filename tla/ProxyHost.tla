------------------------------ MODULE ProxyHost ------------------------------
(***************************************************************************)
(* The host that roles/reverse_proxy and roles/tls_automation share: the   *)
(* boot configuration and certificate pointer Caddy reads, the two durable *)
(* transaction records that protect them, the deployment lock, and the     *)
(* caddy.service whose ExecStartPre recovers both transactions.            *)
(*                                                                         *)
(* A certificate generation is the number of the certificate it contains;  *)
(* 0 stands for none.  A boot configuration is the manifest revision it    *)
(* was rendered from and whether it has the infra routes, which wait for   *)
(* the first certificate.                                                  *)
(***************************************************************************)
EXTENDS Naturals

CONSTANTS
    MaxGeneration,   \* bound: certificates ever issued
    MaxRevision,     \* bound: revisions of the desired manifest
    MaxFaults        \* bound: failed commands, kills, expiries, restarts

ASSUME HostBounds == MaxGeneration \in Nat /\ MaxRevision \in Nat /\ MaxFaults \in Nat

VARIABLES
    \* durable state
    gens,        \* complete generation directories beneath tls/infra
    retired,     \* generations moved to the private directory for removal
    current,     \* the generation the pointer tls/infra/current names
    journal,     \* the TLS publication's transaction.json
    boot,        \* Caddyfile
    desired,     \* revision of the committed desired.json, 0 when absent
    pending,     \* the configuration transaction's marker
    lastGood,    \* the boot configuration that the marker protects
    issued,      \* the certificate in the issuer's output
    expired,     \* certificates that are no longer valid
    \* kernel, systemd and Caddy
    lock,        \* holder of the deployment lock
    caddy,       \* progress of caddy.service
    running,     \* what the Caddy process has loaded
    \* memory of the TLS coordinator and of the configuration activation
    tpc, tctx, cand, apc, actx, wanted,
    \* bounded counter
    faults

files == <<gens, retired, current, journal, boot, desired, pending, lastGood, issued, expired>>
service == <<caddy, running>>
coordinator == <<tpc, tctx, cand>>
activation == <<apc, actx, wanted>>
vars == <<files, lock, service, coordinator, activation, faults>>

Generations == 1 .. MaxGeneration
Revisions == 1 .. MaxRevision
Boots == [rev : 0 .. MaxRevision, tls : BOOLEAN]
AdminBoot == [rev |-> 0, tls |-> FALSE]

JournalStatuses == {"none", "prepared", "switched", "rollback_pending", "rollback_failed",
                    "restored", "retry_pending", "recovered"}
Journals == [status : JournalStatuses, previous : 0 .. MaxGeneration, generation : 0 .. MaxGeneration,
             rev : 0 .. MaxRevision, previousBoot : Boots, candidateBoot : Boots,
             restart : BOOLEAN, disk : {"none", "pending", "restored"}]
NoJournal == [status |-> "none", previous |-> 0, generation |-> 0, rev |-> 0,
              previousBoot |-> AdminBoot, candidateBoot |-> AdminBoot, restart |-> FALSE, disk |-> "none"]

Markers == [set : BOOLEAN, previous : Boots, candidate : Boots,
            desiredPrevious : 0 .. MaxRevision, desiredCandidate : 0 .. MaxRevision]
NoMarker == [set |-> FALSE, previous |-> AdminBoot, candidate |-> AdminBoot,
             desiredPrevious |-> 0, desiredCandidate |-> 0]

\* Steps of a starting caddy.service: ExecStartPre ("recover"), then ExecStart.
Starting == {"waiting", "disk", "pointer", "boot", "restored", "pending", "previous", "clear", "launch"}
NotRunning == [boot |-> AdminBoot, cert |-> 0, stray |-> FALSE]

HostTypeOK ==
    /\ gens \subseteq Generations /\ retired \subseteq Generations
    /\ current \in 0 .. MaxGeneration
    /\ journal \in Journals
    /\ boot \in Boots /\ desired \in 0 .. MaxRevision
    /\ pending \in Markers /\ lastGood \in Boots
    /\ issued \in 0 .. MaxGeneration /\ expired \subseteq Generations
    /\ lock \in {"free", "tls", "apply", "caddy"}
    /\ caddy \in {"down", "up"} \cup Starting
    /\ running \in [boot : Boots, cert : 0 .. MaxGeneration, stray : BOOLEAN]
    /\ faults \in 0 .. MaxFaults

HostInit ==
    /\ gens = {} /\ retired = {} /\ current = 0
    /\ journal = NoJournal
    /\ boot = AdminBoot /\ desired = 0
    /\ pending = NoMarker /\ lastGood = AdminBoot
    /\ issued = 0 /\ expired = {}
    /\ lock = "free" /\ caddy = "down" /\ running = NotRunning
    /\ faults = 0

-----------------------------------------------------------------------------
Fault == faults < MaxFaults /\ faults' = faults + 1
NoFault == faults' = faults

\* A step that fails: without a fault when its condition does not hold.
FailsUnless(condition) == IF condition THEN Fault ELSE NoFault

Journaled == journal.status # "none"
Active == caddy = "up"

\* Manifest.effective and render: the infra routes wait for the pointer.
Render(revision) == [rev |-> revision, tls |-> current # 0]

\* Activator.validate: the certificate a configuration selects is valid now.
Validates(config) == config.tls => current \in gens \ expired

\* What Caddy has after it read the boot file and the selected certificate.
Loaded == [boot |-> boot, cert |-> IF boot.tls THEN current ELSE 0, stray |-> FALSE]

\* Activator.observed and served_tls.
Observed == Active /\ running = Loaded

\* A failed reload: nothing happened, listeners of a failed start are left
\* behind, or the new configuration runs although its verification failed.
ReloadResidue == {running, [running EXCEPT !.stray = TRUE], Loaded}
FailedReload == running' \in IF Active THEN ReloadResidue ELSE {running}

\* A transaction that restarts Caddy waits for the outcome of the start job.
JobEnds(outcome) ==
    /\ tpc' = IF tpc = "restarting" THEN outcome ELSE tpc
    /\ apc' = IF apc = "restarting" THEN outcome ELSE apc
    /\ UNCHANGED <<tctx, cand, actx, wanted>>

-----------------------------------------------------------------------------
(* caddy.service.                                                          *)

Step(from, to) == caddy = from /\ caddy' = to

CaddyStarts ==
    /\ Step("down", "waiting")
    /\ UNCHANGED <<files, lock, running, coordinator, activation, faults>>

\* Activator.recover waits for the deployment lock.
StartLocks ==
    /\ Step("waiting", IF Journaled THEN "disk" ELSE "pending")
    /\ lock = "free" /\ lock' = "caddy"
    /\ UNCHANGED <<files, running, coordinator, activation, faults>>

\* Integration.recover_disk: what the journal authorizes the start to select.
DiskAuthority ==
    /\ desired = journal.rev
    /\ current \in {journal.previous, journal.generation}
    /\ boot \in {journal.previousBoot, journal.candidateBoot}
SelectsCandidate == journal.status = "recovered" /\ ~journal.restart

DiskRecord ==
    /\ Step("disk", "pointer") /\ DiskAuthority
    /\ journal' = [journal EXCEPT !.disk = "pending"]
    /\ UNCHANGED <<gens, retired, current, boot, desired, pending, lastGood, issued, expired, lock,
                   running, coordinator, activation, faults>>

DiskPointer ==
    /\ Step("pointer", "boot")
    /\ current' = IF SelectsCandidate THEN journal.generation ELSE journal.previous
    /\ UNCHANGED <<gens, retired, journal, boot, desired, pending, lastGood, issued, expired, lock,
                   running, coordinator, activation, faults>>

\* Mutant: the pointer is restored without its boot configuration.
DiskBootKept ==
    /\ Step("boot", "restored")
    /\ UNCHANGED <<files, lock, running, coordinator, activation, faults>>

DiskBoot ==
    /\ Step("boot", "restored")
    /\ boot' = IF SelectsCandidate THEN journal.candidateBoot ELSE journal.previousBoot
    /\ UNCHANGED <<gens, retired, current, journal, desired, pending, lastGood, issued, expired, lock,
                   running, coordinator, activation, faults>>

DiskRestored ==
    /\ Step("restored", "pending")
    /\ journal' = [journal EXCEPT !.disk = "restored"]
    /\ UNCHANGED <<gens, retired, current, boot, desired, pending, lastGood, issued, expired, lock,
                   running, coordinator, activation, faults>>

\* Activator.recover_pending: the marker, the backup and the files agree.
MarkerAuthority ==
    /\ lastGood = pending.previous
    /\ boot \in {pending.previous, pending.candidate}
    /\ desired \in {pending.desiredPrevious, pending.desiredCandidate}

NothingPending ==
    /\ Step("pending", "launch") /\ ~pending.set
    /\ lock' = "free"
    /\ UNCHANGED <<files, running, coordinator, activation, faults>>

PendingManifest ==
    /\ Step("pending", "previous") /\ pending.set /\ MarkerAuthority
    /\ desired' = pending.desiredPrevious
    /\ UNCHANGED <<gens, retired, current, journal, boot, pending, lastGood, issued, expired, lock,
                   running, coordinator, activation, faults>>

\* Mutant: the manifest is restored, but not the configuration that it had.
PendingBootKept ==
    /\ Step("previous", "clear")
    /\ UNCHANGED <<files, lock, running, coordinator, activation, faults>>

PendingBoot ==
    /\ Step("previous", "clear")
    /\ boot' = lastGood
    /\ UNCHANGED <<gens, retired, current, journal, desired, pending, lastGood, issued, expired, lock,
                   running, coordinator, activation, faults>>

PendingClear ==
    /\ Step("clear", "launch")
    /\ pending' = NoMarker
    /\ lock' = "free"
    /\ UNCHANGED <<gens, retired, current, journal, boot, desired, lastGood, issued, expired, running,
                   coordinator, activation, faults>>

\* ExecStart: Caddy reads its files after the lock was released.
Launch ==
    /\ Step("launch", "up")
    /\ boot.tls => current # 0
    /\ running' = Loaded
    /\ JobEnds("restarted")
    /\ UNCHANGED <<files, lock, faults>>

\* ExecStartPre refuses, or a step of the start fails.
StartRefused ==
    \/ caddy = "disk" /\ ~DiskAuthority
    \/ caddy = "pending" /\ pending.set /\ ~MarkerAuthority
    \/ caddy = "launch" /\ boot.tls /\ current = 0

StartFails ==
    /\ caddy \in Starting \ {"waiting"}
    /\ FailsUnless(~StartRefused)
    /\ caddy' = "down"
    /\ lock' = IF lock = "caddy" THEN "free" ELSE lock
    /\ JobEnds("restartFailed")
    /\ UNCHANGED <<files, running>>

CaddyCrash ==
    /\ Active /\ Fault
    /\ caddy' = "down" /\ running' = NotRunning
    /\ UNCHANGED <<files, lock, coordinator, activation>>

\* ExecReload: Activator.reload takes the lock and has no durable effect.
Reloadable == lock = "free" /\ ~Journaled /\ ~pending.set /\ Active /\ Validates(boot)

OperatorReload ==
    /\ Reloadable
    /\ running' = Loaded /\ running' # running
    /\ UNCHANGED <<files, lock, caddy, coordinator, activation, faults>>

OperatorReloadFails ==
    /\ Reloadable /\ Fault
    /\ running' \in ReloadResidue
    /\ UNCHANGED <<files, lock, caddy, coordinator, activation>>

\* systemctl restart by a transaction: it also ends a start in progress.
CaddyRestarts ==
    /\ caddy' = "waiting" /\ running' = NotRunning
    /\ lock' = IF lock = "caddy" THEN "free" ELSE lock

Expire(g) ==
    /\ g \in (1 .. issued) \ expired /\ Fault
    /\ expired' = expired \cup {g}
    /\ UNCHANGED <<gens, retired, current, journal, boot, desired, pending, lastGood, issued, lock,
                   service, coordinator, activation>>

\* A start from the first step to the running process.
CaddyProgress ==
    \/ CaddyStarts \/ StartLocks \/ DiskRecord \/ DiskPointer \/ DiskBoot \/ DiskRestored
    \/ NothingPending \/ PendingManifest \/ PendingBoot \/ PendingClear \/ Launch

CaddyNext ==
    \/ CaddyProgress \/ StartFails \/ CaddyCrash \/ OperatorReload \/ OperatorReloadFails
    \/ \E g \in Generations : Expire(g)
=============================================================================
