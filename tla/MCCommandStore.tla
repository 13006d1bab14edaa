--------------------------- MODULE MCCommandStore ---------------------------
(* The command store on a small instance: two searches, two owners.        *)
EXTENDS CommandStore, TLC

CONSTANTS s1, s2, k1, f1

MCSearches == {s1, s2}
Symmetry == Permutations(MCSearches)

MCOwners == {"ada", "bob"}
MCKeys == {k1}
MCSources == {"lever", "ashby"}
MCFingerprints == {f1}

\* The enumeration searchSourceSchema.
MCAllSources == {"remoteok", "himalayas", "greenhouse", "lever", "ashby", "workable"}
=============================================================================
