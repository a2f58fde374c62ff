------------------------------- MODULE Toolchain -------------------------------
(***************************************************************************)
(* The tools that prepare and run the tests on one host: the Galaxy cache, *)
(* the Molecule runner and its timing collector.  They share no state, so  *)
(* a behaviour is about one of them, chosen at its start.                  *)
(***************************************************************************)
EXTENDS GalaxyCache, MoleculeRuns, MoleculeTiming

VARIABLE tool   \* the tool a behaviour is about

toolchainVars == <<galaxyVars, moleculeVars, timingVars, tool>>

Init ==
    /\ tool \in {"galaxy", "molecule", "timing"}
    /\ GalaxyInit /\ MoleculeInit /\ TimingInit
    /\ tool # "galaxy" => \A c \in Checkouts : ~own[c].had /\ entry[c]["roles"] = "none"
    /\ tool # "molecule" => \A t \in TestPlatforms : container[t] = {}

Next ==
    \/ tool = "galaxy" /\ GalaxyNext /\ UNCHANGED <<moleculeVars, timingVars, tool>>
    \/ tool = "molecule" /\ MoleculeNext /\ UNCHANGED <<galaxyVars, timingVars, tool>>
    \/ tool = "timing" /\ TimingNext /\ UNCHANGED <<galaxyVars, moleculeVars, tool>>

Spec == Init /\ [][Next]_toolchainVars

-----------------------------------------------------------------------------
TypeOK == GalaxyTypeOK /\ MoleculeTypeOK
=============================================================================
