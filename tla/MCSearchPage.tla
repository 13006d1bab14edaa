---------------------------- MODULE MCSearchPage ----------------------------
(* SearchPage for TLC: a search ends by itself with or without postings, or is cancelled. *)
EXTENDS SearchPage

MCEndings == {"SearchPartial"}
=============================================================================
