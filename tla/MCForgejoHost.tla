---------------------------- MODULE MCForgejoHost ----------------------------
(* The Forgejo host for TLC: MaxAttempts, MaxRevision and MaxFaults bound it. *)
EXTENDS ForgejoHost
=============================================================================
