---------------------------- MODULE MCRunnerPool ----------------------------
EXTENDS RunnerPool, TLC

SlotSymmetry == Permutations(Slots)
=============================================================================
