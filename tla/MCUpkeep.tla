-------------------------------- MODULE MCUpkeep --------------------------------
(***************************************************************************)
(* Upkeep for TLC: two failures and a signal in a restore experiment; two  *)
(* attempts and two faults on a runner host; two archives, two faults in   *)
(* the transfer of Forgejo and three in that of Semaphore; two             *)
(* certificates and three faults in their renewal; two releases of the     *)
(* helpers, two revisions of the administrator's password, two faults and  *)
(* two acts of people.                                                     *)
(***************************************************************************)
EXTENDS Upkeep
=============================================================================
