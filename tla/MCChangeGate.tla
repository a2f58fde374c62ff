----------------------------- MODULE MCChangeGate -----------------------------
(***************************************************************************)
(* ChangeGate for TLC: two scenarios, and changes that need nothing but    *)
(* the fast job, one scenario, and every scenario.                         *)
(***************************************************************************)
EXTENDS ChangeGate, TLC

MCChanges == {{"document"}, {"alpha", "source"}, {"beta", "unmapped"}}
MCPlatforms == [alpha |-> {"debian"}, beta |-> {"rocky"}]
CommandSymmetry == Permutations(Commands)
=============================================================================
