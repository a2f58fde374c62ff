-------------------------- MODULE ActiveConfiguration --------------------------
(***************************************************************************)
(* What the two transactions of the proxy host promise together: there is  *)
(* always one committed configuration, a manifest revision and a           *)
(* certificate.  A step commits another revision or a newer certificate,   *)
(* never both, and nothing but a commit changes either.                    *)
(***************************************************************************)
EXTENDS Naturals

CONSTANTS Certificates, RevisionNumbers

VARIABLES revision, certificate

Init == revision = 0 /\ certificate = 0

CommitRevision ==
    /\ revision' \in RevisionNumbers
    /\ UNCHANGED certificate

\* Certificates wait for a manifest and are numbered in the order of issue.
CommitCertificate ==
    /\ revision # 0
    /\ certificate' \in Certificates /\ certificate' > certificate
    /\ UNCHANGED revision

Next == CommitRevision \/ CommitCertificate

Spec == Init /\ [][Next]_<<revision, certificate>>
=============================================================================
