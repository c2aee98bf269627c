------------------------------ MODULE MCStartup ------------------------------
(* Two daemons and a dossier command meet at a new database, at one of each   *)
(* version that was released, and at one of a later release.                  *)
EXTENDS Startup
MCVersions == 0..5
=============================================================================
