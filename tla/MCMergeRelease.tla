--------------------------- MODULE MCMergeRelease ---------------------------
(* Up to two pushes to each release branch, any number of runs of the      *)
(* script, and everything that an operator does to the repository between. *)
EXTENDS MergeRelease
============================================================================
