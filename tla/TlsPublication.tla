---------------------------- MODULE TlsPublication ----------------------------
(***************************************************************************)
(* The root coordinator of roles/tls_automation: it recovers a retained    *)
(* publication, lets the issuer run, and publishes the issuer's            *)
(* certificate as a generation, with rollback, retry and a Caddy restart.  *)
(*                                                                         *)
(* tpc is the next step of the coordinator, cand the generation it works   *)
(* on, and tctx what it loads a configuration for:                         *)
(*   unchanged  the certificate is already selected;                       *)
(*   publish    a new generation;                                          *)
(*   retry      the generation that the journal retains;                   *)
(*   rollback   the previous generation, after a failed activation;        *)
(*   restore    the previous generation, found by recover.                 *)
(***************************************************************************)
EXTENDS ProxyHost

Loading == {"unchanged", "publish", "retry", "rollback", "restore"}
TlsSteps == {"idle", "lockRecover", "recover", "issue", "lockPublish", "publish", "create", "preflight",
             "discard", "prepare", "switch", "record", "unprepare", "activate", "load", "release",
             "restart", "restarting", "restarted", "restartFailed", "again", "commit", "failed", "undo", "undone",
             "blame", "retire", "unjournal", "purge"}

TlsTypeOK == tpc \in TlsSteps /\ tctx \in {"none"} \cup Loading /\ cand \in 0 .. MaxGeneration

TlsInit == tpc = "idle" /\ tctx = "none" /\ cand = 0

TlsRests == tpc' = "idle" /\ tctx' = "none" /\ cand' = 0

Goes(from, to) == tpc = from /\ tpc' = to
Ends == TlsRests /\ lock' = "free"

\* What no step of the coordinator changes, and what most steps leave alone.
TlsKeeps == UNCHANGED <<desired, pending, lastGood, expired, activation>>
KeepsStore == UNCHANGED <<gens, retired, issued>>
KeepsSelection == UNCHANGED <<current, boot>>
KeepsDisk == KeepsStore /\ KeepsSelection /\ UNCHANGED journal

Records(new) == journal' = new
HasStatus(status) == Records([journal EXCEPT !.status = status])

-----------------------------------------------------------------------------
(* Locking, issuing and creating a generation.                             *)

RenewStarts ==
    /\ Goes("idle", "lockRecover")
    /\ TlsKeeps /\ KeepsDisk /\ UNCHANGED <<tctx, cand, lock, service, faults>>

\* Deployment.locked: without a committed manifest there is no binding.
TlsLocks ==
    /\ lock = "free"
    /\ \/ /\ desired # 0 /\ lock' = "tls"
          /\ Goes("lockRecover", "recover") \/ Goes("lockPublish", "publish")
          /\ UNCHANGED <<tctx, cand>>
       \/ /\ desired = 0 /\ tpc \in {"lockRecover", "lockPublish"}
          /\ Ends
    /\ TlsKeeps /\ KeepsDisk /\ UNCHANGED <<service, faults>>

RecoverNothing ==
    /\ Goes("recover", "issue") /\ ~Journaled
    /\ retired' = {} /\ lock' = "free"
    /\ TlsKeeps /\ KeepsSelection /\ UNCHANGED <<gens, issued, journal, tctx, cand, service, faults>>

\* The issuer renews, finds no renewal due, or fails and leaves its last output.
Issue ==
    /\ tpc = "issue"
    /\ issued' \in {issued} \cup {g \in Generations : g = issued + 1}
    /\ \/ issued' # 0 /\ tpc' = "lockPublish" /\ cand' = issued' /\ UNCHANGED tctx
       \/ issued' = 0 /\ TlsRests
    /\ TlsKeeps /\ KeepsSelection /\ UNCHANGED <<gens, retired, journal, lock, service, faults>>

PublishInvalid ==
    /\ tpc = "publish" /\ cand \in expired
    /\ Ends /\ retired' = {}
    /\ TlsKeeps /\ KeepsSelection /\ UNCHANGED <<gens, issued, journal, service, faults>>

PublishUnchanged ==
    /\ Goes("publish", "load") /\ cand \notin expired /\ cand = current
    /\ tctx' = "unchanged" /\ retired' = {}
    /\ TlsKeeps /\ KeepsSelection /\ UNCHANGED <<gens, issued, journal, cand, lock, service, faults>>

PublishNew ==
    /\ Goes("publish", "create") /\ cand \notin expired /\ cand # current
    /\ tctx' = "publish" /\ retired' = {}
    /\ TlsKeeps /\ KeepsSelection /\ UNCHANGED <<gens, issued, journal, cand, lock, service, faults>>

CreateGeneration ==
    /\ Goes("create", "preflight")
    /\ gens' = gens \cup {cand}
    /\ TlsKeeps /\ KeepsSelection
    /\ UNCHANGED <<retired, issued, journal, tctx, cand, lock, service, faults>>

\* validate_candidate of the fixed adapter, after the coordinator's own checks.
Acceptable ==
    /\ cand \notin expired /\ ~pending.set
    /\ Journaled => desired = journal.rev /\ cand = journal.generation

Preflight ==
    /\ Goes("preflight", IF tctx = "publish" THEN "prepare" ELSE "switch") /\ Acceptable
    /\ IF tctx = "retry" THEN HasStatus("retry_pending") ELSE UNCHANGED journal
    /\ TlsKeeps /\ KeepsStore /\ KeepsSelection /\ UNCHANGED <<tctx, cand, lock, service, faults>>

PreflightFails ==
    /\ tpc = "preflight" /\ FailsUnless(Acceptable)
    /\ IF tctx = "publish" THEN tpc' = "discard" /\ UNCHANGED <<tctx, cand, lock>> ELSE Ends
    /\ TlsKeeps /\ KeepsDisk /\ UNCHANGED service

\* _retire_unjournaled_generation.
Discard ==
    /\ tpc = "discard"
    /\ gens' = gens \ {cand}
    /\ Ends
    /\ TlsKeeps /\ KeepsSelection /\ UNCHANGED <<retired, issued, journal, service, faults>>

-----------------------------------------------------------------------------
(* The journaled transaction.                                              *)

Prepared == [status |-> "prepared", previous |-> current, generation |-> cand, rev |-> desired,
             previousBoot |-> boot, candidateBoot |-> [rev |-> desired, tls |-> TRUE],
             restart |-> FALSE, disk |-> "none"]

Prepare ==
    /\ Goes("prepare", "switch")
    /\ Records(Prepared)
    /\ TlsKeeps /\ KeepsStore /\ KeepsSelection /\ UNCHANGED <<tctx, cand, lock, service, faults>>

Switch ==
    /\ Goes("switch", IF tctx = "publish" THEN "record" ELSE "activate")
    /\ current' = cand
    /\ TlsKeeps /\ KeepsStore /\ UNCHANGED <<boot, journal, tctx, cand, lock, service, faults>>

\* The pointer was not replaced, or it was and its directory was not synced,
\* or the journal could not be rewritten.
SwitchFails ==
    /\ tpc \in {"switch", "record"} /\ Fault
    /\ current' \in {current, cand}
    /\ tpc' = IF tctx = "publish" /\ current' # cand THEN "unprepare" ELSE "undo"
    /\ TlsKeeps /\ KeepsStore /\ UNCHANGED <<boot, journal, tctx, cand, lock, service>>

Unprepare ==
    /\ Goes("unprepare", "discard")
    /\ Records(NoJournal)
    /\ TlsKeeps /\ KeepsStore /\ KeepsSelection /\ UNCHANGED <<tctx, cand, lock, service, faults>>

\* Mutant: the journal ends with the switch, before the activation is verified.
RecordSwitchIsFinal ==
    /\ Goes("record", "activate")
    /\ Records(NoJournal)
    /\ TlsKeeps /\ KeepsStore /\ KeepsSelection /\ UNCHANGED <<tctx, cand, lock, service, faults>>

RecordSwitch ==
    /\ Goes("record", "activate")
    /\ HasStatus("switched")
    /\ TlsKeeps /\ KeepsStore /\ KeepsSelection /\ UNCHANGED <<tctx, cand, lock, service, faults>>

\* Integration.activate: a journal decides which boot configuration to load.
AdapterReady ==
    /\ ~pending.set /\ Active
    /\ desired = journal.rev
    /\ current \in {journal.previous, journal.generation}
    /\ boot \in {journal.previousBoot, journal.candidateBoot}
SelectedBoot == IF current = journal.previous THEN journal.previousBoot ELSE journal.candidateBoot

Activate ==
    /\ Goes("activate", "load") /\ AdapterReady
    /\ boot' = SelectedBoot
    /\ TlsKeeps /\ KeepsStore /\ UNCHANGED <<current, journal, tctx, cand, lock, service, faults>>

ActivateFails ==
    /\ Goes("activate", "failed") /\ FailsUnless(AdapterReady)
    /\ TlsKeeps /\ KeepsDisk /\ UNCHANGED <<tctx, cand, lock, service>>

RollingBack == tctx \in {"rollback", "restore"}
Permitted == tctx = "unchanged" => ~pending.set /\ boot = Render(desired)
Loadable == Permitted /\ Validates(boot) /\ (Active \/ RollingBack)
Verified == [journal EXCEPT !.restart = FALSE]

\* caddy reload and the checks after it; a rollback may find it already loaded.
Load ==
    /\ Goes("load", IF tctx = "unchanged" THEN "idle" ELSE "commit") /\ Loadable /\ Active
    /\ running' = Loaded
    /\ IF RollingBack THEN Records(Verified) ELSE UNCHANGED journal
    /\ IF tctx = "unchanged" THEN TlsRests /\ lock' = "free" ELSE UNCHANGED <<tctx, cand, lock>>
    /\ TlsKeeps /\ KeepsStore /\ KeepsSelection /\ UNCHANGED <<caddy, faults>>

LoadFails ==
    /\ tpc = "load"
    /\ \/ ~Loadable /\ NoFault /\ UNCHANGED <<running, journal>>
       \/ Loadable /\ ~RollingBack /\ Fault /\ FailedReload /\ UNCHANGED journal
       \/ Loadable /\ RollingBack /\ Active /\ Fault /\ running' = Loaded /\ Records(Verified)
    /\ IF tctx = "unchanged" THEN Ends ELSE tpc' = "failed" /\ UNCHANGED <<tctx, cand, lock>>
    /\ TlsKeeps /\ KeepsStore /\ KeepsSelection /\ UNCHANGED caddy

\* RestartNeeded: the rollback was not observed and its reload failed.
LoadNeedsRestart ==
    /\ Goes("load", "release") /\ Loadable /\ RollingBack /\ ~Observed
    /\ FailsUnless(Active) /\ FailedReload
    /\ Records([journal EXCEPT !.restart = TRUE])
    /\ TlsKeeps /\ KeepsStore /\ KeepsSelection /\ UNCHANGED <<tctx, cand, lock, caddy>>

-----------------------------------------------------------------------------
(* Deployment.restart: the deployment lock is free while systemd waits for *)
(* ExecStartPre, which needs it.                                           *)

Release ==
    /\ Goes("release", "restart")
    /\ lock' = "free"
    /\ TlsKeeps /\ KeepsDisk /\ UNCHANGED <<tctx, cand, service, faults>>

RestartCaddy ==
    /\ Goes("restart", "restarting")
    /\ CaddyRestarts
    /\ TlsKeeps /\ KeepsDisk /\ UNCHANGED <<tctx, cand, faults>>

RestoredByStart ==
    /\ journal.disk = "restored" /\ desired = journal.rev
    /\ current = journal.previous /\ boot = journal.previousBoot
    /\ Validates(boot) /\ Observed

Relock ==
    /\ Goes("restarted", "again") /\ RestoredByStart
    /\ lock = "free" /\ lock' = "tls"
    /\ TlsKeeps /\ KeepsDisk /\ UNCHANGED <<tctx, cand, service, faults>>

RelockFails ==
    /\ lock = "free" /\ lock' = "tls"
    /\ \/ Goes("restarted", "failed") /\ FailsUnless(RestoredByStart)
       \/ Goes("restartFailed", "failed") /\ NoFault
    /\ TlsKeeps /\ KeepsDisk /\ UNCHANGED <<tctx, cand, service>>

\* The same adapter action once more; a second request to restart is a failure.
Again ==
    /\ Goes("again", "commit") /\ AdapterReady /\ Validates(SelectedBoot)
    /\ boot' = SelectedBoot /\ running' = Loaded
    /\ Records(Verified)
    /\ TlsKeeps /\ KeepsStore /\ UNCHANGED <<current, tctx, cand, lock, caddy, faults>>

AgainFails ==
    /\ Goes("again", "failed") /\ FailsUnless(AdapterReady /\ Validates(SelectedBoot))
    /\ journal' \in {journal} \cup {j \in {Verified} : AdapterReady /\ Validates(SelectedBoot)}
    /\ TlsKeeps /\ KeepsStore /\ KeepsSelection /\ UNCHANGED <<tctx, cand, lock, service>>

-----------------------------------------------------------------------------
(* Outcomes.                                                               *)

CommitPublication ==
    /\ tpc = "commit" /\ tctx = "publish"
    /\ Records(NoJournal) /\ Ends
    /\ TlsKeeps /\ KeepsStore /\ KeepsSelection /\ UNCHANGED <<service, faults>>

\* Mutant: the journal of a retried publication is left for the next run.
CommitOutcomeKept ==
    /\ tpc = "commit" /\ tctx # "publish"
    /\ HasStatus(IF tctx = "retry" THEN "recovered" ELSE "restored")
    /\ IF tctx = "retry" THEN Ends ELSE tpc' = "retire" /\ UNCHANGED <<tctx, cand, lock>>
    /\ TlsKeeps /\ KeepsStore /\ KeepsSelection /\ UNCHANGED <<service, faults>>

\* _retry_retained and _finish_restored_cleanup make the outcome durable first.
\* recover writes stale copies of restart and disk with "restored", which no
\* reader of a restored journal looks at.
CommitOutcome ==
    /\ Goes("commit", IF tctx = "retry" THEN "unjournal" ELSE "retire") /\ tctx # "publish"
    /\ HasStatus(IF tctx = "retry" THEN "recovered" ELSE "restored")
    /\ TlsKeeps /\ KeepsStore /\ KeepsSelection /\ UNCHANGED <<tctx, cand, lock, service, faults>>

Retire ==
    /\ Goes("retire", "unjournal")
    /\ gens' = gens \ {cand} /\ retired' = retired \cup {cand}
    /\ TlsKeeps /\ KeepsSelection /\ UNCHANGED <<issued, journal, tctx, cand, lock, service, faults>>

Unjournal ==
    /\ tpc = "unjournal"
    /\ Records(NoJournal)
    /\ IF tctx = "retry" THEN Ends ELSE tpc' = "purge" /\ UNCHANGED <<tctx, cand, lock>>
    /\ TlsKeeps /\ KeepsStore /\ KeepsSelection /\ UNCHANGED <<service, faults>>

Purge ==
    /\ tpc = "purge"
    /\ retired' = retired \ {cand}
    /\ Ends
    /\ TlsKeeps /\ KeepsSelection /\ UNCHANGED <<gens, issued, journal, service, faults>>

\* A failed activation is rolled back; a failed restoration is only recorded.
ActivationFailed ==
    /\ Goes("failed", IF RollingBack THEN "blame" ELSE "undo")
    /\ TlsKeeps /\ KeepsDisk /\ UNCHANGED <<tctx, cand, lock, service, faults>>

Undo ==
    /\ Goes("undo", "undone")
    /\ current' = journal.previous /\ tctx' = "rollback"
    /\ TlsKeeps /\ KeepsStore /\ UNCHANGED <<boot, journal, cand, lock, service, faults>>

UndoFails ==
    /\ Goes("undo", "blame") /\ Fault
    /\ current' \in {current, journal.previous} /\ tctx' = "rollback"
    /\ TlsKeeps /\ KeepsStore /\ UNCHANGED <<boot, journal, cand, lock, service>>

\* Mutant: the rollback is recorded with a status that no reader accepts.
RecordUndoMisnamed ==
    /\ Goes("undone", "activate")
    /\ HasStatus("rolling_back")
    /\ TlsKeeps /\ KeepsStore /\ KeepsSelection /\ UNCHANGED <<tctx, cand, lock, service, faults>>

RecordUndo ==
    /\ Goes("undone", "activate")
    /\ HasStatus("rollback_pending")
    /\ TlsKeeps /\ KeepsStore /\ KeepsSelection /\ UNCHANGED <<tctx, cand, lock, service, faults>>

Blame ==
    /\ tpc = "blame"
    /\ HasStatus("rollback_failed")
    /\ IF tctx = "restore" THEN tctx' = "retry" /\ tpc' = "preflight" /\ UNCHANGED <<cand, lock>> ELSE Ends
    /\ TlsKeeps /\ KeepsStore /\ KeepsSelection /\ UNCHANGED <<service, faults>>

-----------------------------------------------------------------------------
(* Publisher.recover: what it does with a journal that it finds.           *)

\* What recover demands; RecoveryAuthority says that it never refuses.
Retained == journal.generation \in gens /\ journal.previous \in gens \cup {0}
RetryDue ==
    \/ journal.status \in {"retry_pending", "recovered", "prepared"}
    \/ current = journal.generation
    \/ journal.disk # "none"

Found(context, next) ==
    /\ tpc = "recover" /\ Journaled
    /\ tpc' = next /\ tctx' = context /\ cand' = journal.generation
    /\ TlsKeeps /\ KeepsDisk /\ UNCHANGED <<lock, service, faults>>

RecoverRestored ==
    /\ journal.status = "restored"
    /\ Found("restore", IF journal.generation \in gens THEN "retire" ELSE "unjournal")

RecoverRetry ==
    /\ journal.status # "restored" /\ Retained /\ RetryDue
    /\ current \in {journal.previous, journal.generation}
    /\ Found("retry", "preflight")

RecoverPrevious ==
    /\ journal.status # "restored" /\ Retained /\ ~RetryDue /\ current = journal.previous
    /\ Found("restore", "activate")

-----------------------------------------------------------------------------
TlsProgress ==
    \/ TlsLocks \/ RecoverNothing \/ Issue \/ PublishInvalid \/ PublishUnchanged \/ PublishNew
    \/ CreateGeneration \/ Preflight \/ PreflightFails \/ Discard \/ Prepare \/ Switch \/ Unprepare
    \/ RecordSwitch \/ Activate \/ ActivateFails \/ Load \/ LoadFails \/ LoadNeedsRestart \/ Release \/ RestartCaddy \/ Relock \/ RelockFails
    \/ Again \/ AgainFails \/ CommitPublication \/ CommitOutcome \/ Retire \/ Unjournal \/ Purge
    \/ ActivationFailed \/ Undo \/ RecordUndo \/ Blame \/ RecoverRestored \/ RecoverRetry \/ RecoverPrevious

TlsNext == RenewStarts \/ TlsProgress \/ SwitchFails \/ UndoFails
=============================================================================
