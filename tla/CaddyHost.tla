------------------------------- MODULE CaddyHost -------------------------------
(***************************************************************************)
(* One proxy host: the TLS coordinator, the configuration activation and   *)
(* caddy.service interleave on the files and the lock of ProxyHost, and    *)
(* processes and the host may die between any two steps.                   *)
(***************************************************************************)
EXTENDS TlsPublication, ProxyActivation

Init == HostInit /\ TlsInit /\ ApplyInit

TlsKilled ==
    /\ tpc # "idle" /\ Fault
    /\ TlsRests
    /\ lock' = IF lock = "tls" THEN "free" ELSE lock
    /\ UNCHANGED <<files, service, activation>>

ApplyKilled ==
    /\ apc # "idle" /\ Fault
    /\ ApplyRests
    /\ lock' = IF lock = "apply" THEN "free" ELSE lock
    /\ UNCHANGED <<files, service, coordinator>>

HostRestarts ==
    /\ Fault
    /\ TlsRests /\ ApplyRests
    /\ lock' = "free" /\ caddy' = "down" /\ running' = NotRunning
    /\ UNCHANGED files

Next == TlsNext \/ ApplyNext \/ CaddyNext \/ TlsKilled \/ ApplyKilled \/ HostRestarts

Spec == Init /\ [][Next]_vars

-----------------------------------------------------------------------------
(* Properties.                                                             *)

\* The types of all variables.
TypeOK == HostTypeOK /\ TlsTypeOK /\ ApplyTypeOK

\* At most one of the two transactions is ever recorded on disk, so that each
\* recovery restores files that the other one did not touch.
OneTransaction == ~(Journaled /\ pending.set)

\* In every state, mid-transaction or after a crash, ExecStartPre and recover
\* accept what they find: they never demand an operator's repair.
RecoveryAuthority ==
    /\ Journaled =>
         /\ DiskAuthority
         /\ journal.previous \in gens \cup {0}
         /\ \/ journal.generation \in gens
            \/ journal.status = "restored" /\ journal.generation \in retired
    /\ pending.set => MarkerAuthority

\* The pointer never names a generation that was retired or never completed,
\* not even between two steps or after a rollback of a rollback.
SelectionComplete == current # 0 => current \in gens

\* A crash anywhere leaves what the next start, timer run or activation can continue from:
\* one transaction at most, everything its recovery needs, and a pointer to whole files.
CrashesAreRecoverable == OneTransaction /\ RecoveryAuthority /\ SelectionComplete

\* Without a recorded transaction the boot configuration is the rendering of
\* the committed manifest: no crash leaves half a commit.
Settled == ~Journaled /\ ~pending.set
CommittedIsRendered == (Settled /\ desired # 0) => boot = Render(desired)

\* When no transaction is recorded or running, an active Caddy serves the
\* committed configuration and certificate.
ServesCommitted ==
    (Settled /\ lock = "free" /\ Active) => running.boot = boot /\ running.cert = Loaded.cert

\* Between transactions the committed configuration is the one on disk and in Caddy.
CommittedIsServed == CommittedIsRendered /\ ServesCommitted

\* The configuration that is committed at any time; see ActiveConfiguration.
committedRevision == IF pending.set THEN pending.desiredPrevious ELSE desired
committedCertificate == IF Journaled THEN journal.previous ELSE current
Committed == INSTANCE ActiveConfiguration
    WITH Certificates <- Generations, RevisionNumbers <- Revisions,
         revision <- committedRevision, certificate <- committedCertificate

\* The host implements the abstract committed configuration: a crash, a failed
\* reload or a rollback changes neither the revision nor the certificate.
CommitsAtomically == Committed!Spec

-----------------------------------------------------------------------------
(* Liveness.  The timer starts the coordinator again and again, systemd    *)
(* restarts Caddy, and a process that can take a step takes one.  flock    *)
(* does not pass over a waiting process for ever, and runs of the timer    *)
(* are so far apart that not every start of Caddy coincides with one.      *)

LocksAreServed ==
    SF_vars(TlsLocks) /\ SF_vars(Relock \/ RelockFails) /\ SF_vars(ApplyLocks) /\ SF_vars(StartLocks)

FairSpec ==
    /\ Spec /\ LocksAreServed
    /\ WF_vars(RenewStarts) /\ WF_vars(TlsProgress)
    /\ WF_vars(ApplyProgress) /\ WF_vars(CaddyProgress) /\ SF_vars(Launch)

\* The playbook is also run again and again.
PlaybookReruns == WF_vars(\E r \in Revisions : ApplyStarts(r))

\* Every retained publication is published or rolled back, unless its own
\* certificate expires first.
RetainedIsResolved == Journaled ~> (~Journaled \/ journal.generation \in expired)

\* Caddy always comes back: no transaction waits for a start that waits for it.
ServiceReturns == []<>Active

\* An interrupted activation is undone by running it again, unless the
\* certificate that the restored configuration needs expires first.
PendingIsResolved == PlaybookReruns => (pending.set ~> (~pending.set \/ current \in expired))

\* Nothing unfinished stays so for ever, except behind an expired certificate.
UnfinishedIsResolved == RetainedIsResolved /\ PendingIsResolved
=============================================================================
