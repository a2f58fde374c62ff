------------------------------ MODULE MCToolchain ------------------------------
(***************************************************************************)
(* Toolchain for TLC: two preparers of one checkout; two worktrees of a    *)
(* clone and another clone; a collector with little room.  No tool sees    *)
(* another, so those who prepare are named like two of those who test:     *)
(* one permutation then serves both tools.                                 *)
(***************************************************************************)
EXTENDS Toolchain, TLC

CONSTANTS checkout, v1, v2, o1, o2, a1, a2, b1

MCHomeOf == [p \in Preparers |-> checkout]
MCCloneOf == [i \in Invocations |-> IF i = b1 THEN "other" ELSE "clone"]
MCRoleRuns == [role : {"r"}, run : {1, 2}] \cup [role : {"s"}, run : {1}]

ToolSymmetry ==
    Permutations({v1, v2}) \cup Permutations({o1, o2}) \cup Permutations({a1, a2})
=============================================================================
