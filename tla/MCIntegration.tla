--------------------------- MODULE MCIntegration ---------------------------
(* Tasks that compete for the integration branch of one job: undisturbed,     *)
(* with crashes and failing Git commands, and with unruly agents besides.     *)
EXTENDS Integration
MCScenarios == {{}, {"crash", "git"}, {"crash", "git", "agent"}}
=============================================================================
