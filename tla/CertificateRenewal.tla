--------------------------- MODULE CertificateRenewal ---------------------------
(***************************************************************************)
(* roles/tls_automation/files/tls_runtime/runtime.py: an attempt of the    *)
(* coordinator, from the status it writes first, over the issuer's service *)
(* that it starts and awaits, to the certificate and key it reads from the *)
(* issuer's directory and publishes.  The issuer is a service of its own   *)
(* and survives its coordinator.  What publishing does in detail is in     *)
(* TlsPublication; here it changes what is served, keeps it, or is left    *)
(* unfinished.                                                             *)
(***************************************************************************)
EXTENDS Integers

CONSTANTS
    MaxIssued,         \* certificates the authority gives out
    MaxRenewalFaults   \* failures, timeouts, kills

ASSUME RenewalConstants == MaxIssued \in Nat /\ MaxRenewalFaults \in Nat

VARIABLES
    attempt,      \* where the coordinator is
    report,       \* status.json
    phases,       \* what the attempt has found so far
    issuer,       \* homelab-tls-issuer.service
    issued,       \* certificates given out
    output,       \* caddy.crt and caddy.key in the issuer's directory: [crt, key]
    taken,        \* what the coordinator has read of them
    live,         \* the pair that is published and served
    retained,     \* the candidate of a journal that awaits its recovery, or NoPair
    previous,     \* what was served before it, or NoPair
    renewalFaults

issuerVars == <<issuer, issued, output>>
servedVars == <<live, retained, previous>>
renewalVars == <<attempt, report, phases, issuerVars, taken, servedVars, renewalFaults>>

NoPair == [crt |-> 0, key |-> 0]
NothingRun == [attempt |-> "none", preflight |-> "not_run", issuance |-> "not_run", publication |-> "not_run"]

RenewalInit ==
    /\ attempt = "idle" /\ report = NothingRun /\ phases = NothingRun
    /\ issuer = "inactive" /\ issued = 0 /\ output = NoPair /\ taken = NoPair
    /\ live = NoPair /\ retained = NoPair /\ previous = NoPair
    /\ renewalFaults = 0

RenewalFault == renewalFaults < MaxRenewalFaults /\ renewalFaults' = renewalFaults + 1

Moves(from, to) == attempt = from /\ attempt' = to

-----------------------------------------------------------------------------
(* The issuer's service *)

\* A new certificate when one is due; certificate and key are files of their own.
IssuerObtains ==
    /\ issuer = "running" /\ issued < MaxIssued
    /\ issued' = issued + 1 /\ issuer' = "writing"
    /\ output' \in {[output EXCEPT !.crt = issued'], [output EXCEPT !.key = issued']}
    /\ UNCHANGED <<attempt, report, phases, taken, servedVars, renewalFaults>>

IssuerCompletes ==
    /\ issuer = "writing"
    /\ issuer' = "running" /\ output' = [crt |-> issued, key |-> issued]
    /\ UNCHANGED <<attempt, report, phases, issued, taken, servedVars, renewalFaults>>

\* The client is done, or had nothing to do.
IssuerEnds ==
    /\ issuer = "running"
    /\ issuer' = "inactive"
    /\ UNCHANGED <<attempt, report, phases, issued, output, taken, servedVars, renewalFaults>>

\* It exits with an error, or is killed after 900 seconds, wherever it is.
IssuerFails ==
    /\ issuer \in {"running", "writing"}
    /\ RenewalFault /\ issuer' = "failed"
    /\ UNCHANGED <<attempt, report, phases, issued, output, taken, servedVars>>

Active == issuer \in {"running", "writing"}

-----------------------------------------------------------------------------
(* The coordinator *)

\* The status of the attempt replaces that of the one before, ahead of everything else.
AttemptStarts ==
    /\ Moves("idle", "preflight")
    /\ phases' = [NothingRun EXCEPT !.attempt = "in_progress"]
    /\ report' = phases'
    /\ UNCHANGED <<issuerVars, taken, servedVars, renewalFaults>>

PreflightPasses ==
    /\ Moves("preflight", "recover")
    /\ phases' = [phases EXCEPT !.preflight = "ok", !.publication = "failed"]
    /\ report' = [phases EXCEPT !.preflight = "ok"]
    /\ UNCHANGED <<issuerVars, taken, servedVars, renewalFaults>>

RefusedByPreflight ==
    /\ Moves("preflight", "idle") /\ RenewalFault
    /\ report' = [phases EXCEPT !.attempt = "failed", !.preflight = "failed"]
    /\ UNCHANGED <<phases, issuerVars, taken, servedVars>>

NothingToRecover ==
    /\ Moves("recover", "start") /\ retained = NoPair
    /\ phases' = [phases EXCEPT !.issuance = "ok"]
    /\ UNCHANGED <<report, issuerVars, taken, servedVars, renewalFaults>>

Settled == retained' = NoPair /\ previous' = NoPair

\* How far the transaction got decides which of the pairs is tried first.  The candidate is
\* published at last, and no certificate is ordered in this attempt ...
RetriesCandidate ==
    /\ Moves("recover", "conclude") /\ retained # NoPair
    /\ live' = retained /\ Settled
    /\ phases' = [phases EXCEPT !.publication = "changed"]
    /\ UNCHANGED <<report, issuerVars, taken, renewalFaults>>

\* ... or it is undone, with what was served before it, and the attempt has failed ...
RestoresPrevious ==
    /\ Moves("recover", "conclude") /\ retained # NoPair
    /\ live' = previous /\ Settled
    /\ UNCHANGED <<report, phases, issuerVars, taken, renewalFaults>>

\* ... or both fail, and the next attempt has to recover from whatever was selected last.
RecoveryFails ==
    /\ Moves("recover", "conclude") /\ retained # NoPair /\ RenewalFault
    /\ live' \in {live, retained, previous}
    /\ UNCHANGED <<report, phases, issuerVars, taken, retained, previous>>

\* systemctl start; an issuer that a killed coordinator left at work is joined.
StartsIssuer ==
    /\ Moves("start", "await")
    /\ issuer' = IF Active THEN issuer ELSE "running"
    /\ UNCHANGED <<report, phases, issued, output, taken, servedVars, renewalFaults>>

IssuerAwaited ==
    /\ ~Active
    /\ Moves("await", IF issuer = "failed" THEN "stop" ELSE "look")
    /\ UNCHANGED <<report, phases, issuerVars, taken, servedVars, renewalFaults>>

StartTimesOut ==
    /\ Moves("await", "stop") /\ RenewalFault
    /\ UNCHANGED <<report, phases, issuerVars, taken, servedVars>>

IssuanceFailed == phases' = [phases EXCEPT !.issuance = "failed"]

StopsIssuer ==
    /\ Moves("stop", "look")
    /\ issuer' = IF Active THEN "failed" ELSE issuer
    /\ IssuanceFailed
    /\ UNCHANGED <<report, issued, output, taken, servedVars, renewalFaults>>

StopFails ==
    /\ Moves("stop", "look") /\ RenewalFault
    /\ IssuanceFailed
    /\ UNCHANGED <<report, issuerVars, taken, servedVars>>

\* Mutant: after a stop the issuer is taken for stopped.
LooksAtIssuerTooSoon ==
    /\ Moves("look", "certificate")
    /\ UNCHANGED <<report, phases, issuerVars, taken, servedVars, renewalFaults>>

\* snapshot
LooksAtIssuer ==
    /\ Moves("look", IF Active THEN "conclude" ELSE "certificate")
    /\ UNCHANGED <<report, phases, issuerVars, taken, servedVars, renewalFaults>>

ReadsCertificate ==
    /\ Moves("certificate", "key")
    /\ taken' = [crt |-> output.crt, key |-> 0]
    /\ UNCHANGED <<report, phases, issuerVars, servedVars, renewalFaults>>

ReadsKey ==
    /\ Moves("key", "publish")
    /\ taken' = [taken EXCEPT !.key = output.key]
    /\ UNCHANGED <<report, phases, issuerVars, servedVars, renewalFaults>>

IsPair(pair) == pair.crt # 0 /\ pair.crt = pair.key

Publishes ==
    /\ Moves("publish", "conclude")
    /\ IsPair(taken)
    /\ live' = taken
    /\ phases' = [phases EXCEPT !.publication = IF taken = live THEN "unchanged" ELSE "changed"]
    /\ UNCHANGED <<report, issuerVars, taken, retained, previous, renewalFaults>>

RejectsPair ==
    /\ Moves("publish", "conclude")
    /\ ~IsPair(taken)
    /\ UNCHANGED <<report, phases, issuerVars, taken, servedVars, renewalFaults>>

\* The transaction is left unfinished on either side of the selection of the candidate.
Unfinished ==
    /\ IsPair(taken) /\ taken # live
    /\ live' \in {live, taken} /\ retained' = taken /\ previous' = live

\* The activation fails: the previous pair is restored, or that fails too.
PublicationFails ==
    /\ Moves("publish", "conclude")
    /\ IsPair(taken) /\ RenewalFault
    /\ UNCHANGED servedVars \/ Unfinished
    /\ UNCHANGED <<report, phases, issuerVars, taken>>

Failed == "failed" \in {phases.issuance, phases.publication}

AttemptConcludes ==
    /\ Moves("conclude", "idle")
    /\ report' = [phases EXCEPT !.attempt = IF Failed THEN "failed" ELSE "completed"]
    /\ UNCHANGED <<phases, issuerVars, taken, servedVars, renewalFaults>>

\* Killed by systemd or an exception nobody handles; the kernel releases the lock.
AttemptDies ==
    /\ attempt # "idle" /\ RenewalFault
    /\ attempt' = "idle"
    /\ \/ UNCHANGED servedVars
       \/ attempt = "publish" /\ Unfinished
       \/ /\ attempt = "recover" /\ retained # NoPair
          /\ live' \in {live, retained, previous} /\ UNCHANGED <<retained, previous>>
    /\ UNCHANGED <<report, phases, issuerVars, taken>>

RenewalNext ==
    \/ IssuerObtains \/ IssuerCompletes \/ IssuerEnds \/ IssuerFails
    \/ AttemptStarts \/ PreflightPasses \/ RefusedByPreflight
    \/ NothingToRecover \/ RetriesCandidate \/ RestoresPrevious \/ RecoveryFails
    \/ StartsIssuer \/ IssuerAwaited \/ StartTimesOut \/ StopsIssuer \/ StopFails
    \/ LooksAtIssuer \/ ReadsCertificate \/ ReadsKey
    \/ Publishes \/ RejectsPair \/ PublicationFails
    \/ AttemptConcludes \/ AttemptDies

-----------------------------------------------------------------------------
Pairs == [crt : 0..issued, key : 0..issued]
Statuses ==
    [attempt : {"none", "in_progress", "failed", "completed"}, preflight : {"not_run", "ok", "failed"},
     issuance : {"not_run", "ok", "failed"}, publication : {"not_run", "unchanged", "changed", "failed"}]

RenewalTypeOK ==
    /\ attempt \in {"idle", "preflight", "recover", "start", "await", "stop", "look", "certificate", "key",
                    "publish", "conclude"}
    /\ report \in Statuses /\ phases \in Statuses
    /\ issuer \in {"inactive", "running", "writing", "failed"} /\ issued \in 0..MaxIssued
    /\ output \in Pairs /\ taken \in Pairs /\ live \in Pairs /\ retained \in Pairs /\ previous \in Pairs

\* The status is about the last attempt: in progress while one is at work or was killed,
\* and completed after an issuance only when exactly what the issuer left, one whole
\* pair, is served and nothing awaits a recovery.
StatusIsTrue ==
    /\ attempt # "idle" => report.attempt = "in_progress"
    /\ attempt = "idle" /\ report.attempt = "completed" =>
           /\ IsPair(live) /\ retained = NoPair
           /\ report.issuance = "ok" => live = output /\ ~Active

\* What is published was read while no issuer wrote, although issuers outlive the attempts
\* that started them, stops fail, and a killed issuer leaves half of a pair.
SnapshotIsStill ==
    /\ attempt \in {"certificate", "key", "publish"} => ~Active
    /\ attempt = "publish" => taken = output
    /\ live # NoPair => IsPair(live)
=============================================================================
