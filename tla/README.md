# Verification of homelab-playbook

TLA+ models of the control logic that this repository installs on hosts and runs
in its own tooling, the TLC configurations that check them on small instances,
and TLAPS proofs of what holds for every instance. `tlc -config X.cfg M` checks a
run, `tlapm M.tla` checks the proofs; PROJECT.json lists runs, properties, the
code lines each definition stands for, hazards and findings.

## 1. The system

homelab-playbook is Ansible automation for off-cluster hosts. Most roles are
declarative task lists; the program's own logic is in Python that the roles
install on a host and that systemd, timers, containers or an operator run there,
and in the scripts that gate changes to the repository. The parts with state,
concurrency or failure handling of their own are these.

### 1.1 Forgejo runner pool (`roles/forgejo_runner/files`)

* State: per slot `state.json` (phase, generation, registration),
  `assignment.json`, `resources.json`, a runtime directory, a transient systemd
  unit with the one-job controller; per pool a lease (flock) and per slot a lock
  (flock); at Forgejo the job queue and the runner registrations.
* Operations: `control.py cycle` (timer), `control.py recover` (ExecStopPost of
  every cycle, and the operator's `maintenance.py recover`), drain, verify.
* Interaction: slots read and probe each other's checkpoints, host state and
  locks under the lease; every slot talks to Forgejo.
* Hard: a peer's checkpoint, unit and lock are read at three moments; the lease
  is dropped before the checkpoint leaves `clean`; a POST may be applied although
  its answer is lost; a crash may fall between any two durable writes.
* Correct when: two slots never hold one job; everything a run created is
  reachable for disposal until it is gone; `clean` means empty; the oldest
  unclaimed job is served first; dirty slots recover, waiting jobs are served.

### 1.2 TLS issuance and publication (`roles/tls_automation/files/tls_runtime`)

* State: the issuer's certificate and key, certificate generations on disk, the
  `current` pointer, a journal, the proxy's boot configuration, the renewal status;
  the coordinator lock and the proxy lock shared with 1.3.
* Operations: a renewal attempt (recover, start and await the issuer's service,
  snapshot, publish, status), rollback, retained-candidate retry, cleanup.
* Hard: a crash between the pointer switch and the journal; a proxy restart
  during which the shared lock is released; a rollback that fails in turn; an
  issuer that outlives its coordinator and is killed between its two files.
* Correct when: `current` always names a complete verified generation; a
  generation the journal names is never deleted; a finished recovery leaves the
  previous or the new generation, served as well as current; no order is placed
  while a journal is pending; a snapshot is one whole pair; a status that says
  completed is true of what is served.

### 1.3 Reverse proxy activation (`roles/reverse_proxy/files`)

* State: boot Caddyfile, last-good backup, pending marker, desired manifest,
  trust stores, the running configuration.
* Operations: apply, recover (ExecStartPre), pending recovery, restore.
* Hard: crash inside apply; recovery at boot before Caddy runs; the TLS journal
  and the pending marker excluding each other.
* Correct when: boot configuration and manifest are always both previous or both
  candidate after recovery, and what runs is what boots.

### 1.4 Forgejo service: installation, activation, upgrade, backup, transfer (`roles/forgejo/files`)

* State: helper bundles behind one selector; activation journal; upgrade state (nine
  phases); restart intent of the backup with pid and boot id; archives and their
  COMPLETE markers on the host and on a share, the pins of upgrades; the admission
  route of the proxy; the account of the administrator with its bootstrap record.
* Operations: `install.publish_bundle`, `service.reconcile` with the initialisation of
  database and administrator, `upgrade` phases with resume and abort, `backup`,
  `transfer` with two-sided retention.
* Hard: resume after a crash in any phase; abort only before migration; a backup
  that stopped the application and died; a proxy route changed under an etag;
  a command on the share that outlives its run; a password that exists in Forgejo
  and not yet on the host.
* Correct when: a migrated database is never started by the old version; ingress
  is closed from before the stop until acceptance; the application runs again
  after every interrupted backup; no archive is deleted before a verified copy; a
  helper never runs from half a bundle; nobody's password is reset.

### 1.5 Forgejo metadata mirror (`roles/forgejo_metadata/files`)

* State: the ledger of mirrored objects, the create-intent journal, the write
  budget and the run deadline; source and destination repositories.
* Operations: reconcile, create with intent, discovery of an uncertain creation,
  operator resolution.
* Hard: a creation whose answer is lost; a run that ends between POST and ledger
  write; budget and deadline exhausted midway.
* Correct when: one destination object per source object; an uncertain creation
  is discovered or left to the operator, never repeated; converged means nothing
  pending.

### 1.6 Semaphore (`roles/semaphore/files`, `scripts/semaphore`)

* State: local dumps and their copies on a share, with markers; what a restore
  experiment made and remembers; the declared project, repository and template.
* Operations: `backup.sh`, `transfer.sh`, restore experiment and its fixture, job
  reconciliation, job run.
* Hard: an interrupted copy; a marker that cannot be deleted before its dump is
  sent again; a cleanup that fails midway or is interrupted; a container that runs on
  after its caller gave up; restored schedules.
* Correct when: no dump is lost before it expires; whatever an experiment leaves is
  reported; nothing of others is removed; a restored application cannot act.

### 1.7 Change gates and developer tooling (`scripts/ci`, `scripts/repository`, `scripts/molecule*.py`, `scripts/*dependencies.py`, `scripts/forgejo_runner/host_*.py`, `scripts/secrets`)

* State: the workflow run of a pull request and its check; repository settings and
  rulesets at GitHub; the shared Galaxy cache with its lock, staging and generations,
  and the links of each checkout; containers, images and the lock of Molecule runs;
  the timing account; allocation, unit and processes of an experiment on a runner host.
* Operations: classify, plan, run, reconcile, merge; check and apply protection;
  prepare and select dependencies; a lifecycle per platform; submit, run, clean up.
* Hard: a gate that passes with a job missing; requests of which none sees what the
  others saw; two preparers and an edit between hash and lock; a takeover that fails
  halfway and then its undoing; names shared by all clones on a host; an answer lost
  while the remote program runs on.
* Correct when: what is merged was validated as deeply as its paths need; a reported
  success is true; a selection is whole and the one asked for; a passed verdict was
  tested on its own container and image; only what is one's own is removed.

### 1.8 Declarative parts

`roles/{os_bootstrap,os_baseline_verify,security_baseline,podman_foundation,
system_maintenance,host_identity,prepare_cifs_storage}` and the frozen k3s and
Pi-hole roles are Ansible task lists and filter plugins: idempotent declarations
whose failure handling is Ansible's. Their filter plugins are pure validation.

## 2. Plan

Modules are written to be proved about: parameters as CONSTANTS with named
assumptions, one action per operation, no RECURSIVE operator. In order of
importance:

| Part | Modules | Abstract specification | State |
|------|---------|------------------------|-------|
| 1.1 runner pool | RunnerPool, MCRunnerPool, RunnerPoolProofs | SlotLedger | built, proved with the refinement |
| 1.2, 1.3 proxy host | ProxyHost (shared files, lock, caddy.service), TlsPublication, ProxyActivation, composed in CaddyHost; CaddyHostProofs | ActiveConfiguration | built, proved with the refinement |
| 1.5 metadata mirror | MirroredRepositories (both services), MetadataMirror; MetadataMirrorProofs | OneShadow | built, proved with the refinement |
| 1.4 Forgejo host | ForgejoService (records, systemd, route), ForgejoUpgrade, ForgejoBackup, composed in ForgejoHost; ForgejoHostProofs | UpgradePromise | built, proved with the refinement |
| 1.7 change gate | RepositoryProtection, ChangeGate; ChangeGateProofs | | built, proved |
| 1.7 tooling | GalaxyCache, MoleculeRuns, MoleculeTiming, side by side in Toolchain; ToolchainProofs | | built, proved |
| 1.4, 1.6 archives | ArchiveAges, ArchiveTransfer, SemaphoreTransfer; ArchiveTransferProofs | ArchivePromise | built, proved with the refinement |
| 1.6, 1.7 experiments | SemaphoreDrill, HostProbe; UpkeepProofs | | built, proved |
| 1.2 renewal, 1.4 installation | CertificateRenewal, ForgejoSetup; with the four above side by side in Upkeep; UpkeepProofs | | built, proved |
| 1.1 pure part | PoolCapacity: shares of memory, CPU and storage | reference definition | next |
| 1.6 controller | reconciliation of the declared project, the verification job | | then |

Every property of a passing run has a theorem but those with liveness; section 6 says why. What the next parts state is to be proved with them.

## 3. Models

Everywhere: an action ends at a durable write, a remote call, or an observation
of something another actor can change, so that a crash or another actor can come
between any two. Failures, kills, reboots and other events that are not part of
normal operation each take one unit of `MaxFaults`; that bound, and those on
generations, revisions and attempts, stand in guards only. An exception that no
handler sees leaves the same state behind as a kill.

### 3.1 Runner pool

`RunnerPool.tla` has one variable per durable file or kernel object. The program
counter `pc[s]` names the place inside `control.perform` and `lifecycle.run_slot`:

| pc | code |
|----|------|
| lock, lease, observe | `CheckpointStore.__enter__`, `admission_lease`, `observe` of the own slot |
| survey, watch, probe, probed, assigned | `pool.peer_assignments`: checkpoint, host, lock, release, assignment of one peer |
| queue, reserve | `RegistrationClient.pending_job`, `pool.write_assignment` and release of the lease |
| empty ... wait | `lifecycle.run_slot`: prepare, enroll, register, admit, run |
| clean ... finish | `lifecycle.cleanup_generation`: retire, destroy, write the outcome |

Abstracted: a generation is a fresh number instead of a random name; the contents
of a receipt are the generation it names. `prepare` makes the runtime directory and then
some hundred entries in it, each recorded in the receipt after it was made: the directory
is two steps (`MakeRuntime`, `RecordRuntime`), and one entry stands for them all
(`MakeEntry`, `RecordEntry`), as a kill finds at most one unrecorded (`stray`). In a
cleanup such an entry makes every `rmdir` of its directory fail (`RemoveBlocked`). The
invocation and rootless network detail of a worker is one `unit` value; polling
intervals are gone. The controller
lives in the worker unit's cgroup, so it survives a kill of the supervisor and
disappears with the unit. `JobDeadline` is disabled while Forgejo can hand the job
out: a fetch takes seconds, `job_seconds` is hours. With `LateCreation`, Forgejo may
apply a POST after its client gave up. `SlotLedger.tla` is the promise without the
mechanism: slots are free, held or dirty, no job is held twice, and only a slot with
no residue on host or at Forgejo is free.

### 3.2 Proxy host

`ProxyHost.tla` has the files both transactions protect, the deployment lock and
caddy.service with the steps of ExecStartPre; `TlsPublication.tla` the coordinator
(`tpc`), `ProxyActivation.tla` the configuration activation (`apc`); `CaddyHost.tla`
lets them interleave with kills and host restarts. A certificate generation is the
number of its certificate; a boot configuration is the revision it was rendered from
and whether it has the infra routes. Simplifications:

* Journals without a Caddy binding are left out: the host has no other consumer.
* The adapter process dies with the coordinator's service (one cgroup).
* Generation directories that a kill orphans only cost disk and are not kept.
* The stale copies named by a "restored" journal are never read again.
* Caddy reads its files in `Launch`, after ExecStartPre released the lock.
* A RestartRequired without a journal or marker behind it is not modelled.

`ActiveConfiguration.tla` is the joint promise: a step commits another revision or
a newer certificate, never both, and nothing else changes either.

### 3.3 Metadata mirror

`MirroredRepositories.tla` has the two services: versions of source objects, shadows
with their visibility in collections, creates in flight, names that people occupy.
`MetadataMirror.tla` has the process that holds operation.lock (`run`, with the step
of `reconcile` or of an attended request), the journal (state.json) and status.json.
The read of a source is atomic and enumerates its objects, those without a version
(deleted ones) to be passed over (`Wanted`); contents are version numbers; later reads may lack
issues and comments that are listed late, as the merged discovery of api.py allows.
`OutcomeKnown` is the operator who resolves a create as not done only once it is.
Control requests discover all mappings first (cli.py), so one damaged mapping holds
up requests about any. Milestones have no ownership record, by the code's design.
Not modelled: the late effect of a PATCH whose client gave up, adoption of several
labels in one request, and the window between the check and the PATCH of a renamed
label. `OneShadow.tla` is the promise per object: one shadow, made only from a claim,
and never again once its removal is on record.

### 3.4 Forgejo host

| Module | Code |
|--------|------|
| ForgejoService | restart-intent.json, recovery-failed, upgrade-state.json, activation-pending.json; forgejo.service with its guard; Caddy's route, clients, the attending operator |
| ForgejoUpgrade | `upgrade.perform`, `resume`, `abort`, `run_pending` and the Host methods they call; `apc` is the controller's next step, `wpc` the worker of `capture-upgrade` |
| ForgejoBackup | forgejo-backup.service (`bpc`) and forgejo-recover.service (`rpc`) around `capture_locked` and `recover_locked` |
| ForgejoHost | `service.reconcile`, reboots, the composition |

The two images are those an upgrade leaves and reaches, so that one upgrade commits
and any number may be aborted before. Simplifications:

* After a new gate the controller always ends (`Stamp`): the observation that it was
  started with was made before the gate, and `validate_prerequisites` refuses it.
* That an observation is older than 300 seconds is a fault (`AttestationAges`).
* A capture worker that has not verified its controller yet ends when that is
  killed; one that has goes on, alone. There is one worker at a time (capture lock).
* The database fails only by being stopped. Restarts for changes of the database's
  own configuration, rehearsal evidence, the preserved recovery package, the archive
  pin and the record counts are left out, and so is pid reuse.
* A kill while preflight keeps the timers stopped leaves them so until the next
  provisioning or reboot, as in the code.
* `forgejo-backup` releases the operation lock before its recovery takes it again;
  010-forgejo-service.md, step 5 of the backup, describes one lock held throughout.
* Provisioning decides by the state in which it found the application, and refuses to
  start one that has come back meanwhile because its port is taken.

`UpgradePromise.tla` is the promise about the storage: the target takes it over only
while nothing is served and a fresh archive exists; then the source is never served
again, and the target only after it was accepted.

### 3.5 Change gate

`RepositoryProtection.tla` has the settings and rulesets at GitHub, administrators who
change them, and the invocations of `github_protection.py`, one request per action.
A managed ruleset is exact, weak or does not apply to main; what each field of a rule
must be is behind that. `ChangeGate.tla` adds one pull request: `Classify`, the impact
rules and the plan are operators over classes of paths; the workflow run, the gate
and the merge are actions. `check` also keeps what the run really validated, so that
`MergedIsValidated` compares the merge with the paths and not with the gate's opinion.

### 3.6 Tooling

| Module | Code |
|--------|------|
| GalaxyCache | `galaxy_dependencies.py` with the checks of `dependencies.py`: lock, staging, base, generation, links of a checkout, takeover of directories that a checkout had, rollback |
| MoleculeRuns | `molecule.py`: the lock of a clone, ownership labels, stages, verdict, cleanup; containers and image tags shared by all clones |
| MoleculeTiming | `molecule_timing.py` and the callback plugin: the account and its limits |

`Toolchain.tla` puts them side by side. They share no state, so a behaviour is about one
of them, chosen at its start; interleaving them would only multiply states. The
entries of a checkout are taken over one by one, so that a failure or a kill can come
between any two; the ownership check of a container and its removal by name are two
steps, in the runner (`Inspect`, `RemoveNamed`) and in the playbooks that `molecule test`
runs (`AssertOwned` and the step it names), and strangers take free names and give them up
between any two. The child of a killed invocation goes on with either step (`Orphan`). A
failed test's own destroy is left out: the cleanup that follows it at once looks and removes
in the same way. The four failures of a stage that the code tells apart are one. `elder` is
observed beside the program: who had a look ahead of it all the time that a stranger has had
a name. What a scenario tests, durations and the text of a summary are left out, and so
is that `report` shows the slowest twenty tasks and roles only without saying that
there are more (molecule_timing.py:217): the account is complete, its printout not.

### 3.7 Archives

`ArchivePromise.tla` promises of every sealed archive: until it expires it is whole on
the host or verified on the share; an archive an upgrade depends on stays beyond that.
`ArchiveTransfer.tla` (Forgejo, `transfer.py`) and `SemaphoreTransfer.tla` (`backup.sh`,
`transfer.sh`) implement it. Archives are numbered in the order of their names; ages are
the four that retention can tell apart (`ArchiveAges.tla`).

* An archive has two payloads and a marker. Which payloads a partial copy left is
  chosen by the environment; damage is a payload of the right size and another content.
* Forgejo's share is reached through containers of one name. One whose caller timed out
  may linger (`client`) and take effect at any later moment; no other command starts
  before it is gone. Semaphore's transfer is one container: nothing outlives it.
* `remnant` is the directory of an interrupted capture, which `transfer.py` reports as
  an error until somebody removes it.
* `outlived` is observed beside the program: dumps sent again under a marker whose
  deletion failed (section 7). They are the exception in `Vouched`.

### 3.8 Experiments

`SemaphoreDrill.tla` has every resource that `restore.py` and `fixture.py` make, in order,
the record made before it, the two cleanups and the marker; a failure, a lost answer or
an interrupt can come at each. What a cleanup has to look at is a set, taken in
the order of the code's list. `HostProbe.tla` has overlapping attempts on one runner
host: a program whose answer was lost runs on while the next attempt uses the same paths
and unit name. Simplifications: loops over `--rm` containers are one step; what the
restored application answers is success or failure; an interrupted cleanup leaves no
list, as in the code; a `systemd-run` that timed out has started the unit by then or
never does; the race between the check of one file and its unlink is left out.

### 3.9 Renewal and installation

`CertificateRenewal.tla` is an attempt of the coordinator. The issuer's service is
started by coordinators only and at once; it survives the coordinator and
writes certificate and key one after the other. Publication is one step that changes
what is served, keeps it, or is left unfinished on either side of the selection, with a
candidate (`retained`) and what was served before (`previous`). The next attempt's recovery
publishes the one or restores the other, and is left unfinished in turn when both fail or
it is killed. Which of the two it tries first depends on how far the transaction
got and is left open here: the details are 3.2. One attempt runs at a time
(coordinator lock).

`ForgejoSetup.tla` is a provisioning run: three of the eleven helper files, enough for one
that is new, one replaced and one still waiting; the timers stopped around it; then the
first installation, with the database role, the database, the administrator, its
bootstrap record and marker. A request whose client gave up can be applied later.
People change or remove the account. `admin.json` is read once per run. Left out:
reboots (which start enabled timers again) and the bootstrap record that a kill between
the marker and the unlink leaves: its password opens nothing any more.

`Upkeep.tla` puts 3.7 to 3.9 side by side, as Toolchain does, and states one property for
each promise they share: reports are true, nothing half made is used, nothing of others
is touched, archives are kept.

## 4. Runs

| Run | Instance | Distinct states | Shows |
|-----|----------|-----------------|-------|
| runner_safety | 2 symmetric slots, 2 jobs, 3 generations, 1 fault | 248,000 | `ExclusiveReservations`, `NothingIsStranded`, refinement of SlotLedger (`KeepsSlotLedger`) |
| runner_live | 2 slots, 1 job, 2 generations, 1 fault, late POSTs, fairness | 53,000 | `EnrollmentIsBounded`: one enrollment per generation and no more orphans than lost answers; `SlotsRecover`, `WaitingJobsAreServed` |
| runner_double | as runner_safety | | disagreement 1 of section 7 |
| caddy_safety | 2 generations, 2 revisions, 3 faults | 1,130,000 | `CrashesAreRecoverable`, `CommittedIsServed`, refinement of ActiveConfiguration (`CommitsAtomically`) |
| caddy_live | 2 generations, 1 revision, 2 faults, fairness | 31,000 | `UnfinishedIsResolved`, `ServiceReturns` |
| mirror_safety | label, issue, comment in one mapping, 2 versions, 2 faults, 2 writes per run | 239,000 | `OneCopy`, `NoResurrection`, `ReportsAreTrue`, refinement of OneShadow (`KeepsPromise`) |
| mirror_settle | a label and a milestone in two mappings, 1 write per run, 2 faults, fairness | 216,000 | `MirrorSettles`: everything is mirrored and reported in the end |
| forgejo_host | 1 upgrade attempt, 2 configurations, 3 faults, fairness | 266,000 | `OnePending`, `CaptureIsStill`, `ConfigurationActive`, refinement of UpgradePromise (`UpgradesAreSafe`), `UpgradesSettle`, `AppReturns` |
| forgejo_alone | no fault and 1 attempt | | disagreement 2 of section 7 |
| change_merge | 2 invocations, 2 rulesets, 1 failed request or administrator's change, 1 further head | 2,505,000 | `ReportsProtection`: success means exact protection, unless others interfered; `MergedIsValidated`: what an enforced gate lets in was tested as its paths need |
| toolchain_tools | cache: 2 preparers in 1 checkout, 2 versions, 2 overrides, 1 edit, 2 faults, 2 generations; Molecule: 3 invocations in 2 clones, 1 fault; timing: 2 phases, 2 tasks, 5 lines | 1,982,000 | `SelectionIsSound`, `VerdictsAreTrue`, `TimingAccounts`, `NothingIsLost`, `CollisionsAreRefused` |
| upkeep | 2 archives; 2 faults in Forgejo's transfer, in a drill and in host experiments, 3 in Semaphore's transfer and in renewals; 1 interrupt, 2 attempts, 2 certificates, 2 releases, 2 declarations, 2 faults and 2 acts of people in an installation | 1,287,000 | `ReportsAreHonest`, `NothingHalfMadeIsUsed`, `OthersAreKept`, refinement of ArchivePromise by both transfers (`ArchivesAreKept`) |

Why the bounds are enough. The runner protocol is pairwise: a survey visits peers one
at a time and keeps only a set of excluded jobs, so two slots are the smallest pool
with a peer, two jobs let an older and a newer one compete, and three generations
give one slot two runs while its peer has one; two faults gave the same results
(2.29 million states). On the proxy host two generations and two revisions are the
least with a previous and a candidate of each; three faults reach a failed
command, a kill of its rollback and a host restart during the recovery. The mirror's
thread is the longest chain of needs (label, issue, comment); one write per run is
where the budget ends between every two objects. On the Forgejo host an abort and a
second attempt repeat the states of the first one except for the stale archive,
which starting the application after any capture covers; three faults let a kill,
a reboot and a lost gate meet in one transaction.

Two invocations and two rulesets are the least with a race and with an ambiguous
ruleset; one trouble can fall between any two requests of either. Two preparers are
enough for the one lock they share: the second one meets what the first
selected, left behind or was killed at, and one edit lets the files change between hash
and lock; two faults let the rollback of a failed takeover be killed. Three invocations
are two in one clone, which exclude each other, and one in another, which does not; one
fault lets a run be killed or a cleanup fail, and the strangers need none (two faults gave
the same results, 2,431,000 states with the cache and the timing).
Two archives let retention of one meet the transfer of the other, and a fault in an
archive's first transfer meet one in its second; the third fault in Semaphore's transfer lets
a stale marker, a damaged upload and a kill meet. In a drill two faults let a
failing cleanup follow a failing body; on a host they let a lost answer meet a failed stop
or a change by others (a third gave the same results, 2.6 million states there). Two certificates let a snapshot mix old and new; two releases
and declarations are the least with something to replace and with a password that is
no longer the declared one.

CHECK_DEADLOCK is off in change_merge, toolchain_tools and upkeep only: their
processes run once and end, and the bounds on edits and faults end the rest. The
services of the other runs never stop, and TLC checks that they do not.

## 5. Fairness

Weak fairness of the steps of a started process: systemd runs it to its end, or
kills it, which is an action of its own. The rest:

* Runner pool. A timer fires again after each end of its service. An operator who
  drained a slot starts its timer again: strong fairness of `StartTimer`.
  `WaitingJobsAreServed` has `PollsDrift` as its antecedent: the timers use
  OnUnitInactiveSec, so each interval starts at the end of the slot's own last poll
  and the slots do not stay in step. Without it TLC finds slots in lockstep that
  exclude each other for ever. `SlotsRecover` exempts a slot that is `Stuck`:
  quarantined without a generation, which the code leaves to the operator on purpose,
  or with a runtime directory that has no receipt, or an entry the receipt does not
  name, because `prepare` was killed between making something and recording it (section 7).
* Proxy host. flock wakes waiting processes, so that a lock that is free again and
  again is obtained (`LocksAreServed`, strong). The renewal timer fires every 12
  hours, so not every start of Caddy coincides with a run: strong fairness of
  `Launch`. That the playbook is run again is the antecedent `PlaybookReruns` of what
  needs it; an expired certificate (section 7) is exempt from `UnfinishedIsResolved`.
* Mirror. The timer fires nightly and operators get the lock between two runs
  (strong); late requests end, new shadows become visible, rate limits end, and an
  occupied name is given back (weak).
* Forgejo host. The timer fires while it is active; systemd restarts what it keeps
  started; `CaptureStarts` and `RecoverLocks` wait for a lock held by others for
  bounded times (strong). `UpgradesSettle` has the operator who aborts, or resumes
  after the migration, as its antecedent, and exempts an edited route, which the code
  refuses to overwrite. `AppReturns` exempts a pending upgrade and the orphaned marker
  of section 7.

The tools, the experiments and the change gate are started by people, and nothing obliges
them to start one again. Transfers and renewals have timers, and what a later run repeats
is not stated as liveness. These runs state no fairness and check safety only.

## 6. Proofs

Each theorem holds for all values of the constants that the assumptions allow. None of the
properties is inductive as it stands: they depend on what a process found some steps ago,
and on what a kill, a late answer or somebody else can have done since. So each
part has an inductive invariant, the conjunction of named parts that say what the
durable records can hold and what each step of a process relies on; it was checked by TLC on
the instances of section 4, and is proved from one lemma for each group of actions.
Refinements have two lemmas more: initial states map to initial states, and a step
from a state with the invariant maps to a step of the abstract specification or to none.

`RunnerPoolProofs.tla`: for any slots and jobs, any number of generations and faults.

* `TypeCorrect`, `ReservationsCorrect` (inductive) and `ReservationsExclusive`. That a
  survey may reserve its job depends on what it learned at earlier moments. The invariant
  adds that a process past the acquisition holds its slot lock and a surveying one the
  lease (`LocksHeld`), that a survey's bookkeeping matches its place and the lock it probes
  (`SurveyConsistent`), and that every active run is, for every survey in progress,
  still to be visited or its job already excluded (`ActiveRunsCovered`). The argument: a
  peer is struck off the agenda only when its lock was free, and then it has no active
  run, or when its assignment was added to the exclusions; no run can become active
  meanwhile, because becoming active takes the lease that the surveyor holds. Most
  steps are `QuietMove`s (they take no lock and start no run); the lemma about these
  covers lifecycle.py in one argument.
* `WorkersDisposable`, `NothingStranded` and `EnrollmentBounded` from `PoolInv`: what the
  checkpoint says at each step (`PhaseFits`), the one order in which directory, receipt,
  unit and controller come and go (`RuntimeFits`), that generations are fresh when they
  enroll (`Minted`), and an account of registrations that no cleanup will find
  (`SuspectsCounted`): each costs a fault. A registration becomes suspect one step before
  it is orphaned, at the retirement that did not see it; counting the orphans
  alone is not inductive.
* `LedgerKept`: the pool implements SlotLedger. This theorem and `NothingStranded`
  have `~LateCreation` as a hypothesis: when Forgejo applies a creation after its lookup both
  are false (section 7), and `EnrollmentBounded`, which has no such hypothesis, says
  what remains.

`CaddyHostProofs.tla`: for any number of certificates, revisions and faults. `HostInv`
says who holds the deployment lock at which step, that the pointer names a complete generation
and is never ahead of what was issued, what journal and marker name (`JournalFits`,
`MarkerFits`; each excludes the other), that without either the host is as committed
(`SettledFits`), and in which context the coordinator, the activation and a start of Caddy
reach each of their steps. From it `TypeCorrect`, `CrashesRecoverable`, `CommittedServed`,
and `CommitsHold`, the refinement of ActiveConfiguration. What makes it inductive is that a
rollback of a rollback keeps the journal, and that `restored` is written only with the
previous generation selected, booted and served.

`MetadataMirrorProofs.tla`: for any mappings, versions, shadows, edits and faults.
`MirrorInv` accounts for creates: one that may still be carried out is claimed in the
journal, its object has no shadow and no other create can be sent (`CreatesAreClaimed`), and
every shadow without a claim is on record or seen by every read (`ShadowsAreSeen`). The
merged view of a refresh may lack shadows that are listed late; the proof uses that these
are on record (`ViewIsRecorded`). `TypeCorrect`, `OneCopyKept`, `NothingResurrected` and
`UncertaintyShown` follow, and `PromiseKept`, the refinement of OneShadow: the abstract
state of an object is a function of its shadows and the journal, and the lemmas go
through what can change either. `ReportsTrue` needs a second invariant on top,
`ReportInv`: as long as a run recorded no error, what it holds of an object is what GitHub
shows unless people touched it, and an object it is done with shows the version it read.

`ForgejoHostProofs.tla`: for any number of attempts, revisions and faults.

* `ExclusionHolds` (inductive), `TypeCorrect`, `OnePendingHolds` and `CapturesAreStill`.
  `LockHolders` says who holds the operation lock, and `Authority` what such a holder may
  rely on: that the other records are settled, and that the capture worker, who may have
  outlived its controller, works for a transaction in phase quiesced that nobody continues
  while it dumps. In that phase the guard refuses every start.
* `PublishedIsActive`, `QuietAttested`, `PromiseKept` (the refinement of UpgradePromise),
  `UpgradesSafe` and `BackupsScheduled` from `UpgradeInv`: which phases of the record
  a step of the controller may meet (`StepFits`), which image is declared and loaded in each
  phase (`ImagesFit`), that nothing is served from quiesced to accepted (`ServedFits`),
  that an observation as new as the gate saw the last work of clients (`AttestFits`), that a
  stopped timer is recalled (`TimerFits`), and that what runs is what is published or the
  activation journal says not (`ConfFits`).

`ChangeGateProofs.tla`: for any changes, scenarios, platforms, invocations and troubles.
`MergesAreValidated` has a pure part, that accepted results of a plan made
from the real paths (or from none, when Git failed) are as deep as the paths need, and an
inductive one: a successful check on the present head always comes from a run
classified from the paths of that head. `ProtectionReported` rests on
`ProtectionInvariant`: what an invocation has collected so far is still true unless somebody
wrote after it began, and while there are two managed rulesets, one of the invocations
that created them has still to look, or saw both, and will not report success. `TypeCorrect`.

`ArchiveTransferProofs.tla`: for any number of archives and faults. `MarkersAreTrusted`
(the inductive `ArchiveInv`) and `TransferKeepsArchives`, the refinement of
ArchivePromise. That an archive is verified where the host
gives it up is not inductive, because the decision and the deletion are steps of
a run that others age, and because commands outlive runs. `ArchiveInv` says that a marker
vouches for verified payloads, or for an archive that may go for good (`MarkersVouch`);
that what the run read of the host and the pins still holds (`RunKnows`); what each phase
rests on (`PhaseRests`); and that a lingering command is harmless whenever it takes
effect (`ClientIsHarmless`), which is why copy, check, publication and deletions
only have to be looked at with no client about. `ReportsAreTrue`: on top of that,
`HonestInv` says that a run without an error so far has each archive where its age
wants it, or still before it (`PassesAccount`).

`UpkeepProofs.tla`: for any numbers of archives, faults, signals, attempts, certificates,
releases and declarations. It begins with the two experiments. `DrillInv`: what the restore
experiment made and is still there was recorded before (`MadeIsRemembered`), and in a
cleanup is still to be looked at or already reported (`CleanupsAccount`). `HostInv`: an
attempt on a runner host recorded what it made, nobody else recorded the same, and whatever
runs for an attempt holds its image (`UsersAreAttached`). `ArchivesKept` joins the refinement of Forgejo's transfer with
that of Semaphore's, whose `DumpInv` is like `ArchiveInv` but has no lingering commands and
excepts dumps that `outlived` a marker's failed deletion. `RenewalInv`: the files
of the issuer are read while no issuer is active (`ReadsAtRest`), and a conclusion without a
failure vouches for what is served. `SetupInv`: a generation is published before it is selected,
an account that people administer has a password no run holds (`PeopleHoldTheirs`), and
where the marker is written the account has a declared one. `JobsHold` is
their conjunction with those above; `UpkeepTyped`, `ReportsHonest`, `NothingHalfMade` and
`OthersKept` follow.

`ToolchainProofs.tla`: for any checkouts, preparers, clones, invocations, platforms, edits
faults, phases and limits; `TypesAreKept` and five more.

* `VerdictsHold` from `MoleculeInv`. Which container a name
  stands for says little by itself, since other clones and children of killed runs replace
  it at any time: beside a run that is alone there is no such actor (`AloneIsAlone`), so
  what its workers did is still true (`Behind`). Only strangers come and go beside it; they
  have none of its labels, and what they take or leave is neither its own nor left by it.
* `CollisionsRefused` from `EldersFit`, `PassesFit` and `ClonesExclude`. Whoever has been on
  the way to a look since a stranger took the name is found not to act on it
  (`EldersFit`): its look refuses, and its worker ends with a failure, which a run that
  passes has none of (`PassesFit`). Nothing is claimed of one whose look came before the
  stranger: that is the window of section 7.
* `SelectionHolds` and `NothingGetsLost` from `GalaxyInv`. Whoever is past the lock of the
  cache is its only holder, so only edits and damage, which the preparation is told apart by
  (`disturbed`), change what it rests on: `Delivered` says, by its step, that base, copy,
  generation and selection suit the checkout and are whole after a repair. `Laid` says what
  the takeover has moved and linked, compared with what was there before: entry by entry
  either the backup or the checkout has it, so that the way back ends where it began. A
  takeover never begins with stable links, which is why no undoing meets any.
* `AccountsAddUp` from `TimingInv`, the account's own parts with the types. It needs that one
  more record of a key, known or new, is one more in the sum of a table (`OneMore`). The sum
  is a fold, defined by recursion over sets; what is needed of it comes from smallest
  counterexamples among finite sets (`SmallestSet`): that the function the recursion asks
  for exists (`SumsExist`), that a sum depends only on its own keys (`SumsAgree`), and that
  any key can be taken out first (`TotalSplit`).

Assumptions, each in the module that declares the constant and evaluated by TLC in the runs:
bounds are natural numbers; `NoSlot` is not a slot and job ids are positive; a host has at
least one release and one declaration; a mirror run may write at least once, objects have at
least one version, a mapping is a sequence of objects closed under what they need, and an
object's kind is one of the four; GitHub has finitely many rulesets; a stranger is not an
invocation, and 0 is neither a version nor an override; a change touches at least one class
of paths, and no scenario has the name of one of the other classes. No assumption speaks
about what a process does.

Only model-checked: liveness under fairness, which is out of the prover's reach. Of
liveness these are `SlotsRecover`, `WaitingJobsAreServed`, `UnfinishedIsResolved`,
`ServiceReturns`, `MirrorSettles`, `AppReturns`, and of `UpgradesSettle` that every upgrade
settles. The two disagreements of section 7 with runs of their own are counterexamples.

## 7. Disagreements between code and documentation

1. One job can be reserved twice (runner_double): the peer's checkpoint is read
   before its run began, its lock probed after its supervisor was killed, and its
   controller still asks for the job. `ExclusiveReservations`, about supervisors, does
   hold; the surviving controller is what escapes it.
2. A migration is not alone with its database (forgejo_alone): a backup that fired
   before quiesce stopped its timer waits for the lock, gives up during the migration,
   and its recovery unit wants forgejo-postgres.service, which systemd starts on the
   directory that the isolated database has open. After a reboot the enabled timer
   does the same, since a resumed migration does not quiesce again.

Met while modelling; no runs of their own, and where a checked property exempts one, the
definition named here is the exemption:

* Runner: an interrupted prepare cannot always be reconciled (`Stuck`), although
  011-forgejo-runners.md:239-252 has a host recovery remove what a worker left. Killed between the creation
  of the runtime directory and of its receipt, it leaves a directory that nothing binds;
  killed between the creation of one of the entries and its record (resources.py:252 and
  256), it leaves a recorded directory with an unrecorded entry, on which `rmdir` fails in every
  cleanup (host_resources.py:51). Either way the slot stays quarantined and
  stops its peers (pool.py:141) until an operator removes the directory.
* Runner: a newer job can overtake an older one, because `assignment.json` is never
  cleared and a clean peer that is merely polling is counted with the job of its last run
  (pool.py:144).
* Runner: a registration that Forgejo creates after the reconciling lookups belongs to no
  generation (registration.py:155); `EnrollmentIsBounded` bounds them.
* Proxy: an expired certificate blocks its replacement. While an interrupted activation
  is pending, undoing it validates the expired certificate, and the coordinator does not
  publish a new one while it is pending.
* Molecule: a container that takes the name after a look at it is removed or replaced
  whatever its labels are: runner, destroy.yml and create.yml look at the labels and then act on the
  name (molecule.py:488 and 520, destroy.yml:27 and 55, create.yml:39 and 67).
  002-multi-os-molecule-validation.md:192 and :522 say that one without the labels is not
  deleted. `CollisionsAreRefused` holds of whoever looks while it is there (`elder`).
* Forgejo: an interrupted recovery can keep the application down. Killed between the
  removal of restart-intent.json and of recovery-failed, it leaves the marker alone, which
  recovery, backup, provisioning and the guard all refuse (`Unmarked`).
* Forgejo: the directory of an interrupted capture (backup.py:78) makes every later
  transfer report an error until an operator removes it (`remnant`).
* Forgejo: killed between the creation of the administrator and the record of its
  password, provisioning refuses from then on; 010-forgejo-service.md:122 leaves that to
  the operator. Not documented is a reset that was applied but not yet marked when the
  declared password changes: neither password opens the account and every later run fails.
* Semaphore: transfer.sh:175 ignores that a marker could not be deleted before its
  dump is sent again. If that upload is then damaged, the stale marker vouches for it,
  and local retention removes the only good copy (`outlived`). 009-semaphore-infrastructure-automation.md
  has the marker follow verification and, at :180, keeps local archives without a
  verified copy.

## 8. Not modelled

* Runner pool: capacity arithmetic (planned as PoolCapacity), credential replacement,
  the deployment audit and the verify mode, which only read.
* TLS and proxy: what an ACME order does, certificate, policy and unit checks (they pass
  or refuse), trust installation, rendering.
* Forgejo: the format of an archive, profiles, mirror status; rehearsal evidence.
* Mirror: plans, which only read, and the submission of a control request to systemd.
  A label that is renamed between its discovery and its update (reconcile.py:170).
* Semaphore: the declared project and the verification job, sequential calls of one
  API client.
* Tooling: the Python environment and the Ansible preflight, secrets tooling, fixtures and
  compatibility probes of the modelled services, provenance records.
* Part 1.8, which has no control logic of its own.

Forgejo, Caddy, systemd, Podman, the kernel, GitHub, the share and the source repositories
are modelled only through what the code relies on, and such definitions are marked external
in the map. Hazards without a property are in PROJECT.json with the reason.
