------------------------------- MODULE Startup -------------------------------
(***************************************************************************)
(* How a daemon comes up and goes down: it opens the database, creating or *)
(* migrating it on the way (DatabaseCore.__init__, db_core.py), takes the  *)
(* singleton lock, listens on its socket and recovers (YoloDaemon.start,   *)
(* daemon.py).  The database is opened before the lock is taken, and the   *)
(* dossier command opens it without any lock, so all of this happens in    *)
(* several processes at once, and each of them may die at any point.       *)
(*                                                                         *)
(* SQLite makes a statement, or a transaction, atomic; a script is neither. *)
(***************************************************************************)
EXTENDS Naturals

CONSTANTS Daemons, Tools,    \* processes that start a daemon; that only open the database
          Nobody,
          Current,           \* CURRENT_SCHEMA_VERSION
          OldVersions,       \* schema versions of the databases found at first, 0: none
          MaxCrashes, MaxStops

ASSUME ProcessAssumption == Nobody \notin Daemons \cup Tools
ASSUME VersionAssumption ==
  /\ Current \in Nat \ {0} /\ OldVersions \subseteq 0..(Current + 1)
  /\ MaxCrashes \in Nat /\ MaxStops \in Nat

VARIABLES tables,    \* of the current names that exist: "none", "some", "all"
          shape,     \* the schema version these tables have the columns of
          version,   \* PRAGMA user_version
          backups,   \* the schemas saved, each with the version it is filed under
          pc,        \* where each process is
          seen,      \* the version each process is about to migrate from, or 0
          lock,      \* holder of the flock
          socket,    \* the process that bound the socket file, which may be dead
          halves,    \* whether processes also die between two statements of a script
          crashes, stops

disk == <<tables, shape, version, backups>>
ends == <<lock, socket>>
env  == <<halves, crashes, stops>>
vars == <<disk, pc, seen, ends, env>>

Processes == Daemons \cup Tools

TypeOK ==
  /\ tables \in {"none", "some", "all"} /\ shape \in 0..(Current + 1)
  /\ version \in 0..(Current + 1)
  /\ backups \subseteq [filed : 1..Current, shape : 1..Current]
  /\ pc \in [Processes -> {"off", "looking", "reading", "creating", "filling", "saving",
                "migrating", "proving", "refreshing", "stamping", "checking", "open",
                "locked", "listening", "serving", "closing", "unlocking"}]
  /\ seen \in [Processes -> 0..(Current + 1)]
  /\ lock \in Daemons \cup {Nobody} /\ socket \in Daemons \cup {Nobody}
  /\ halves \in BOOLEAN /\ crashes \in 0..MaxCrashes /\ stops \in 0..MaxStops

\* The original store carried no version number.
Init ==
  /\ shape \in OldVersions
  /\ tables = IF shape = 0 THEN "none" ELSE "all"
  /\ version = IF shape = 1 THEN 0 ELSE shape
  /\ backups = {}
  /\ pc = [p \in Processes |-> "off"] /\ seen = [p \in Processes |-> 0]
  /\ lock = Nobody /\ socket = Nobody
  /\ halves \in BOOLEAN /\ crashes = 0 /\ stops = 0

Goto(p, from, to) == pc[p] = from /\ pc' = [pc EXCEPT ![p] = to]
Fails(p)          == pc' = [pc EXCEPT ![p] = "off"]
Forgets(p)        == seen' = [seen EXCEPT ![p] = 0]

Launch(p) == Goto(p, "off", "looking") /\ UNCHANGED <<disk, seen, ends, env>>

-----------------------------------------------------------------------------
(* DatabaseCore.__init__.                                                  *)

Looks(p) ==
  /\ Goto(p, "looking", IF tables = "none" THEN "creating" ELSE "reading")
  /\ UNCHANGED <<disk, seen, ends, env>>

Found == IF version = 0 THEN 1 ELSE version

Known(v) == v <= Current

Reads(p) ==
  /\ pc[p] = "reading"
  /\ seen' = [seen EXCEPT ![p] = IF Found < Current THEN Found ELSE 0]
  /\ pc' = [pc EXCEPT ![p] = IF ~Known(Found) THEN "off"
                             ELSE IF Found < Current THEN "saving" ELSE "proving"]
  /\ UNCHANGED <<disk, ends, env>>

\* The script of a new database, statement by statement; each creates what is missing.
Creates(p) ==
  /\ Goto(p, "creating", "filling")
  /\ IF tables = "none" THEN tables' = "some" /\ shape' = Current ELSE UNCHANGED <<tables, shape>>
  /\ UNCHANGED <<version, backups, seen, ends, env>>

Fills(p) ==
  /\ \E from \in {"filling", "refreshing"} : Goto(p, from, "stamping")
  /\ tables' = "all"
  /\ UNCHANGED <<shape, version, backups, seen, ends, env>>

Stamps(p) ==
  /\ Goto(p, "stamping", "checking")
  /\ version' = Current
  /\ UNCHANGED <<tables, shape, backups, seen, ends, env>>

\* Mutant: an old database is migrated without a copy.
Saved_Nothing(p) == {}
Saved(p) == {[filed |-> seen[p], shape |-> shape]}

Saves(p) ==
  /\ Goto(p, "saving", "migrating")
  /\ backups' = backups \cup Saved(p)
  /\ UNCHANGED <<tables, shape, version, seen, ends, env>>

\* A migration adds columns, so that it fails where they already are.
Applies(p) == tables = "all" /\ shape = seen[p]

\* Mutant: the version is left to the statement after the transaction.
Migrated_Later == version
Migrated == Current

\* One transaction, with the version in it; it may fail and be rolled back.
Migrates(p) ==
  /\ pc[p] = "migrating"
  /\ \/ /\ Applies(p)
        /\ shape' = Current /\ version' = Migrated
        /\ pc' = [pc EXCEPT ![p] = "refreshing"]
     \/ Fails(p) /\ UNCHANGED <<shape, version>>
  /\ Forgets(p)
  /\ UNCHANGED <<tables, backups, ends, env>>

\* A current database must prove its columns before the script may repair it.
Proves(p) ==
  /\ Goto(p, "proving", IF shape = Current /\ tables = "all" THEN "refreshing" ELSE "off")
  /\ UNCHANGED <<disk, seen, ends, env>>

Checks(p) ==
  /\ Goto(p, "checking", IF shape = Current /\ tables = "all" THEN "open" ELSE "off")
  /\ UNCHANGED <<disk, seen, ends, env>>

CloseTool(p) ==
  /\ p \in Tools /\ Goto(p, "open", "off")
  /\ UNCHANGED <<disk, seen, ends, env>>

-----------------------------------------------------------------------------
(* YoloDaemon.start, serve and shutdown.                                   *)

\* Mutant: the lock is asked for, but its refusal ignored.
MayLock_Always == TRUE
MayLock == lock = Nobody

Locks(p) ==
  /\ p \in Daemons /\ pc[p] = "open"
  /\ IF MayLock THEN lock' = p /\ pc' = [pc EXCEPT ![p] = "locked"]
                ELSE Fails(p) /\ UNCHANGED lock
  /\ UNCHANGED <<disk, seen, socket, env>>

\* A socket file that a dead daemon has left is replaced.
Listens(p) ==
  /\ pc[p] = "locked"
  /\ \/ socket' = p /\ pc' = [pc EXCEPT ![p] = "listening"] /\ UNCHANGED lock
     \/ socket' \in {socket, Nobody} /\ lock' = Nobody /\ Fails(p)
  /\ UNCHANGED <<disk, seen, env>>

\* No await separates the recovery from the socket: no request comes before it.
Recovers(p) == Goto(p, "listening", "serving") /\ UNCHANGED <<disk, seen, ends, env>>

\* From Python 3.13 on, a server that is closed removes its socket file itself.
Stop(p) ==
  /\ stops < MaxStops /\ stops' = stops + 1
  /\ Goto(p, "serving", "closing")
  /\ socket' \in {p, Nobody}
  /\ UNCHANGED <<disk, seen, lock, halves, crashes>>

\* Runners have ended and the database is closed.
Unlinks(p) ==
  /\ Goto(p, "closing", "unlocking") /\ socket' = Nobody
  /\ UNCHANGED <<disk, seen, lock, env>>

Unlocks(p) ==
  /\ Goto(p, "unlocking", "off") /\ lock' = Nobody
  /\ UNCHANGED <<disk, seen, socket, env>>

\* The lock goes with the process, the socket file stays.
Crash(p) ==
  /\ pc[p] # "off" /\ crashes < MaxCrashes
  /\ pc[p] \in {"filling", "stamping"} => halves \/ version # 0
  /\ crashes' = crashes + 1
  /\ Fails(p) /\ Forgets(p)
  /\ lock' = IF lock = p THEN Nobody ELSE lock
  /\ UNCHANGED <<disk, socket, halves, stops>>

-----------------------------------------------------------------------------
Opens(p) == Looks(p) \/ Reads(p) \/ Creates(p) \/ Fills(p) \/ Stamps(p) \/ Saves(p)
            \/ Migrates(p) \/ Proves(p) \/ Checks(p) \/ CloseTool(p)
Serves(p) == Locks(p) \/ Listens(p) \/ Recovers(p) \/ Unlinks(p) \/ Unlocks(p)

Next == \E p \in Processes : Launch(p) \/ Opens(p) \/ Serves(p) \/ Stop(p) \/ Crash(p)

\* A process that runs goes on; the service manager starts a daemon that has failed, a
\* user one that was stopped; disk and kernel do not fail for ever.
Fairness ==
  /\ \A p \in Processes : WF_vars(Opens(p))
  /\ \A p \in Daemons :
       /\ WF_vars(Launch(p)) /\ WF_vars(Serves(p))
       /\ SF_vars(Migrates(p) /\ pc'[p] = "refreshing")
       /\ SF_vars(Listens(p) /\ pc'[p] = "listening")

Spec == Init /\ [][Next]_vars /\ Fairness

-----------------------------------------------------------------------------
\* The version never claims what is not there: whatever dies where, a database that
\* says it is of some version has the tables and columns of that version, so that no
\* migration is ever skipped or applied twice (_migrate, db_core.py:274).
VersionIsTrue == version # 0 => tables = "all" /\ shape = version

\* Columns change only upwards and only after a copy of the database as it was has been
\* filed under its own version, even if another process has migrated it since that was
\* read; a database from the future stays as it is (db_core.py:202, 260).
UpgradesAreSaved ==
  [][/\ shape' # shape /\ shape # 0 =>
          shape' > shape /\ [filed |-> shape, shape |-> shape] \in backups
     /\ version' >= version]_vars

\* A client that reaches a daemon through the socket reaches the one that works on the
\* jobs: no start, failed start or late shutdown of another process takes the socket
\* from it (start and shutdown, daemon.py:49, 85).
SocketLeadsToTheWorker ==
  \A p \in Daemons :
    /\ pc[p] \in {"listening", "serving"} => socket = p
    /\ pc[p] \in {"listening", "serving", "closing"} => lock = p /\ socket \in {p, Nobody}

\* A daemon comes up again and again, after crashes, stops and races for the lock or the
\* schema, unless a crash has left a new database half created.
ComesUp == ~halves /\ shape <= Current ~> \E p \in Daemons : pc[p] = "serving"
=============================================================================
