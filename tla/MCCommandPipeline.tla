-------------------------- MODULE MCCommandPipeline -------------------------
(* The pipeline on small instances: one search of one owner.               *)
EXTENDS CommandPipeline, TLC

MCOwners == {"ada"}
MCSources == {"lever"}
MCTwoSources == {"lever", "ashby"}

Symmetry == Permutations(Workers) \union Permutations(Copies)
=============================================================================
