--------------------------- MODULE MCFinalReview ---------------------------
(* A candidate of at most two files, each in one or two shards.             *)
EXTENDS FinalReview
=============================================================================
