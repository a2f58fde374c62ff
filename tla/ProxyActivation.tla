---------------------------- MODULE ProxyActivation ----------------------------
(***************************************************************************)
(* apply-desired of roles/reverse_proxy/files/activate.py: the transaction *)
(* that replaces the boot configuration and the committed manifest.        *)
(*                                                                         *)
(* apc is its next step, wanted the revision it applies, and actx says     *)
(* what it is doing:                                                       *)
(*   before  recovering the marker of an earlier transaction;              *)
(*   new     activating a configuration that Caddy must load;              *)
(*   kept    committing a manifest whose configuration is already loaded.  *)
(***************************************************************************)
EXTENDS ProxyHost

ApplySteps == {"idle", "lock", "check", "backup", "mark", "write", "load", "commit", "clear", "undo",
               "undoBoot", "undoLoad", "undoClear", "restart", "restarting", "restarted", "restartFailed"}

ApplyTypeOK ==
    apc \in ApplySteps /\ actx \in {"none", "before", "new", "kept"} /\ wanted \in 0 .. MaxRevision

ApplyInit == apc = "idle" /\ actx = "none" /\ wanted = 0

ApplyRests == apc' = "idle" /\ actx' = "none" /\ wanted' = 0

Proceeds(from, to) == apc = from /\ apc' = to
Finishes == ApplyRests /\ lock' = "free"

\* What no step of the activation changes, and what most steps leave alone.
ApplyKeeps == UNCHANGED <<gens, retired, current, journal, issued, expired, coordinator>>
KeepsConfiguration == UNCHANGED <<boot, desired, pending, lastGood>>

ApplyStarts(revision) ==
    /\ Proceeds("idle", "lock")
    /\ wanted' = revision
    /\ ApplyKeeps /\ KeepsConfiguration /\ UNCHANGED <<actx, lock, service, faults>>

\* require_no_tls, then recover_pending before anything else.
ApplyLocks ==
    /\ apc = "lock" /\ lock = "free"
    /\ \/ Journaled /\ ApplyRests /\ UNCHANGED lock
       \/ /\ ~Journaled /\ lock' = "apply" /\ UNCHANGED wanted
          /\ apc' = IF pending.set THEN "undo" ELSE "check"
          /\ actx' = IF pending.set THEN "before" ELSE "none"
    /\ ApplyKeeps /\ KeepsConfiguration /\ UNCHANGED <<service, faults>>

Candidate == Render(wanted)

CheckUnchanged ==
    /\ apc = "check" /\ Active /\ Validates(Candidate)
    /\ boot = Candidate /\ Observed /\ desired = wanted
    /\ Finishes
    /\ ApplyKeeps /\ KeepsConfiguration /\ UNCHANGED <<service, faults>>

Check ==
    /\ Proceeds("check", "backup") /\ Active /\ Validates(Candidate)
    /\ ~(boot = Candidate /\ Observed /\ desired = wanted)
    /\ actx' = IF boot = Candidate /\ Observed THEN "kept" ELSE "new"
    /\ ApplyKeeps /\ KeepsConfiguration /\ UNCHANGED <<wanted, lock, service, faults>>

CheckFails ==
    /\ apc = "check" /\ FailsUnless(Active /\ Validates(Candidate))
    /\ Finishes
    /\ ApplyKeeps /\ KeepsConfiguration /\ UNCHANGED service

\* Mutant: the backup of the last activation is taken for this one's.
BackupReused ==
    /\ Proceeds("backup", "mark")
    /\ ApplyKeeps /\ KeepsConfiguration /\ UNCHANGED <<actx, wanted, lock, service, faults>>

Backup ==
    /\ Proceeds("backup", "mark")
    /\ lastGood' = boot
    /\ ApplyKeeps /\ UNCHANGED <<boot, desired, pending, actx, wanted, lock, service, faults>>

Mark ==
    /\ Proceeds("mark", "write")
    /\ pending' = [set |-> TRUE, previous |-> boot, candidate |-> Candidate,
                   desiredPrevious |-> desired, desiredCandidate |-> wanted]
    /\ ApplyKeeps /\ UNCHANGED <<boot, desired, lastGood, actx, wanted, lock, service, faults>>

WriteBoot ==
    /\ Proceeds("write", IF actx = "kept" THEN "commit" ELSE "load")
    /\ boot' = Candidate
    /\ ApplyKeeps /\ UNCHANGED <<desired, pending, lastGood, actx, wanted, lock, service, faults>>

LoadBoot ==
    /\ Proceeds("load", "commit") /\ Active /\ Validates(boot)
    /\ running' = Loaded
    /\ ApplyKeeps /\ KeepsConfiguration /\ UNCHANGED <<actx, wanted, lock, caddy, faults>>

LoadBootFails ==
    /\ Proceeds("load", "undo") /\ FailsUnless(Active /\ Validates(boot))
    /\ FailedReload
    /\ ApplyKeeps /\ KeepsConfiguration /\ UNCHANGED <<actx, wanted, lock, caddy>>

CommitManifest ==
    /\ Proceeds("commit", "clear")
    /\ desired' = wanted
    /\ ApplyKeeps /\ UNCHANGED <<boot, pending, lastGood, actx, wanted, lock, service, faults>>

Clear ==
    /\ apc = "clear"
    /\ pending' = NoMarker
    /\ Finishes
    /\ ApplyKeeps /\ UNCHANGED <<boot, desired, lastGood, service, faults>>

\* A failed write happened or not; clear_pending puts the marker back.
WriteFails ==
    /\ apc \in {"write", "commit", "clear"} /\ apc' = "undo" /\ Fault
    /\ boot' \in {boot} \cup {b \in {Candidate} : apc = "write"}
    /\ desired' \in {desired} \cup {r \in {wanted} : apc = "commit"}
    /\ ApplyKeeps /\ UNCHANGED <<pending, lastGood, actx, wanted, lock, service>>

-----------------------------------------------------------------------------
(* recover_pending(runtime=True).                                          *)

UndoManifest ==
    /\ Proceeds("undo", "undoBoot") /\ MarkerAuthority
    /\ desired' = pending.desiredPrevious
    /\ ApplyKeeps /\ UNCHANGED <<boot, pending, lastGood, actx, wanted, lock, service, faults>>

UndoBoot ==
    /\ Proceeds("undoBoot", "undoLoad")
    /\ boot' = lastGood
    /\ ApplyKeeps /\ UNCHANGED <<desired, pending, lastGood, actx, wanted, lock, service, faults>>

UndoLoad ==
    /\ Proceeds("undoLoad", "undoClear") /\ Validates(boot) /\ Active
    /\ running' = Loaded
    /\ ApplyKeeps /\ KeepsConfiguration /\ UNCHANGED <<actx, wanted, lock, caddy, faults>>

\* The restored configuration does not validate: the marker stays.
UndoInvalid ==
    /\ apc = "undoLoad" /\ ~Validates(boot)
    /\ Finishes
    /\ ApplyKeeps /\ KeepsConfiguration /\ UNCHANGED <<service, faults>>

\* RestartRequired leaves the scope of the lock before systemd is called.
UndoNeedsRestart ==
    /\ Proceeds("undoLoad", "restart") /\ Validates(boot) /\ ~Observed
    /\ FailsUnless(Active) /\ FailedReload
    /\ lock' = "free"
    /\ ApplyKeeps /\ KeepsConfiguration /\ UNCHANGED <<actx, wanted, caddy>>

UndoClear ==
    /\ apc = "undoClear"
    /\ pending' = NoMarker
    /\ IF actx = "before" THEN apc' = "check" /\ actx' = "none" /\ UNCHANGED <<wanted, lock>> ELSE Finishes
    /\ ApplyKeeps /\ UNCHANGED <<boot, desired, lastGood, service, faults>>

RestartForApply ==
    /\ Proceeds("restart", "restarting")
    /\ CaddyRestarts
    /\ ApplyKeeps /\ KeepsConfiguration /\ UNCHANGED <<actx, wanted, faults>>

\* The activation looks at the outcome of the restart and fails either way.
ApplyRestarted ==
    /\ apc = "restartFailed" \/ (apc = "restarted" /\ lock = "free")
    /\ ApplyRests
    /\ ApplyKeeps /\ KeepsConfiguration /\ UNCHANGED <<lock, service, faults>>

-----------------------------------------------------------------------------
ApplyProgress ==
    \/ ApplyLocks \/ CheckUnchanged \/ Check \/ CheckFails \/ Backup \/ Mark \/ WriteBoot \/ LoadBoot
    \/ LoadBootFails \/ CommitManifest \/ Clear \/ UndoManifest \/ UndoBoot \/ UndoLoad \/ UndoInvalid
    \/ UndoNeedsRestart \/ UndoClear \/ RestartForApply \/ ApplyRestarted

ApplyNext == ApplyProgress \/ WriteFails \/ \E r \in Revisions : ApplyStarts(r)
=============================================================================
