---------------------------- MODULE MCProcessRun ----------------------------
(* Two gates; the caller is cancelled up to twice per gate list.  The two     *)
(* pumps are interchangeable, but liveness is checked, hence no symmetry.     *)
EXTENDS ProcessRun
MCPumps == {"out", "err"}
=============================================================================
