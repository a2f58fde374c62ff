--------------------------------- MODULE Upkeep ---------------------------------
(***************************************************************************)
(* The jobs beside the services: the two transfers of sealed archives to a *)
(* share, an attempt to renew the certificate, what provisioning sets up   *)
(* around Forgejo, and the experiments that make something real and must   *)
(* take it away again, the restore experiment of Semaphore and those on a  *)
(* runner host.  They share no state, so a behaviour is about one of them, *)
(* chosen at its start.                                                    *)
(***************************************************************************)
EXTENDS SemaphoreDrill, HostProbe, ArchiveTransfer, SemaphoreTransfer, CertificateRenewal, ForgejoSetup

VARIABLE chore   \* the job a behaviour is about

experimentVars == <<drillVars, hostVars>>
transferVars == <<archiveVars, dumpVars>>
serviceVars == <<renewalVars, setupVars>>
upkeepVars == <<experimentVars, transferVars, serviceVars, chore>>

Init ==
    /\ chore \in {"restore", "host", "archives", "dumps", "renewal", "setup"}
    /\ DrillInit /\ HostInit /\ ArchiveInit /\ DumpInit /\ RenewalInit /\ SetupInit
    /\ chore # "restore" => mode = "attended" /\ others = {}
    /\ chore # "host" => kind = "resources" /\ maker["parent"] = Nobody

Next ==
    /\ UNCHANGED chore
    /\ \/ chore = "restore" /\ DrillNext /\ UNCHANGED <<hostVars, transferVars, serviceVars>>
       \/ chore = "host" /\ HostNext /\ UNCHANGED <<drillVars, transferVars, serviceVars>>
       \/ chore = "archives" /\ ArchiveNext /\ UNCHANGED <<experimentVars, dumpVars, serviceVars>>
       \/ chore = "dumps" /\ DumpNext /\ UNCHANGED <<experimentVars, archiveVars, serviceVars>>
       \/ chore = "renewal" /\ RenewalNext /\ UNCHANGED <<experimentVars, transferVars, setupVars>>
       \/ chore = "setup" /\ SetupNext /\ UNCHANGED <<experimentVars, transferVars, renewalVars>>

Spec == Init /\ [][Next]_upkeepVars

-----------------------------------------------------------------------------
TypeOK == DrillTypeOK /\ HostTypeOK /\ ArchiveTypeOK /\ DumpTypeOK /\ RenewalTypeOK /\ SetupTypeOK

\* No job claims more than it did: what a restore experiment leaves is in its report, the
\* answer of a host experiment is true, a transfer without errors left every archive where
\* its age wants it, a renewal that completed serves what was issued, and the marker of the
\* administrator stands for an account with a declared password, whatever was killed or
\* failed before.
ReportsAreHonest ==
    /\ ReportsLeftovers /\ AnswersAreTrue
    /\ TransferIsHonest /\ ExitIsHonest
    /\ StatusIsTrue /\ MarkerIsTrue

\* Nothing is used while it is half made: a restored application with schedules or a
\* route, a certificate and key while an issuer may write them, a generation of helpers
\* of which a file is missing.
NothingHalfMadeIsUsed == RestoredIsInert /\ SnapshotIsStill /\ HelpersStart

\* What others have under the same names survives both experiments, and an image goes only
\* when nothing uses it, in every order of failures, signals, lost answers and overlapping
\* attempts; provisioning resets the password of nobody's account but the one it is making.
OthersAreKept == StrangersAreKept /\ OwnIsTouched /\ RemovedWhenQuiet /\ NobodyIsReset

Transfer == INSTANCE ArchivePromise WITH
    age <- IF chore = "archives" THEN age ELSE dumpAge,
    here <- IF chore = "archives" THEN Whole ELSE IF chore = "dumps" THEN Sealed ELSE {},
    there <- IF chore = "archives" THEN Delivered ELSE IF chore = "dumps" THEN Vouched ELSE {},
    kept <- pinned

\* Both transfers keep every archive whole on the host or verified on the share until it
\* expires, and those an upgrade pinned beyond that, in every order of kills between two
\* deletions, lost answers, damaged copies, late commands and pins.  A dump that Semaphore
\* sends under a marker whose deletion failed counts as delivered (Vouched) although the copy
\* may differ: the next run takes the marker's word and retires the local dump.  That loss,
\* which transfer.sh:175 permits against 009-semaphore-infrastructure-automation.md:180,
\* is not ruled out here.
ArchivesAreKept == Transfer!Spec
=============================================================================
