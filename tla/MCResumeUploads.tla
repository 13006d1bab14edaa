--------------------------- MODULE MCResumeUploads --------------------------
(* One upload, worked on by two calls and the files worker at once.        *)
EXTENDS ResumeUploads, TLC

Symmetry == Permutations(Calls) \union Permutations(Versions) \union Permutations(Workers)
=============================================================================
