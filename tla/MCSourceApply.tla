--------------------------- MODULE MCSourceApply ---------------------------
(* One other branch besides the job's own and the detached HEAD.  The bounds  *)
(* are explained in the README.                                               *)
EXTENDS SourceApply
=============================================================================
