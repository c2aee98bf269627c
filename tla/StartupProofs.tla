---------------------------- MODULE StartupProofs ----------------------------
(***************************************************************************)
(* Proofs about Startup, for any number of processes, crashes and stops    *)
(* and for every schema version: the version in the database is true,      *)
(* upgrades are saved before they are made, and the socket belongs to the  *)
(* daemon that works.                                                      *)
(***************************************************************************)
EXTENDS Startup, TLAPS

Places == {"off", "looking", "reading", "creating", "filling", "saving", "migrating",
           "proving", "refreshing", "stamping", "checking", "open",
           "locked", "listening", "serving", "closing", "unlocking"}

\* A database without a version is not there yet, is the original one, or was created or
\* left half created by the present release.
UnversionedInv ==
  version = 0 => \/ tables = "none" /\ shape = 0
                 \/ tables = "all" /\ shape = 1
                 \/ shape = Current

\* What a process knows of the database holds although others change it meanwhile.
Stage(p) ==
  /\ pc[p] = "reading" => tables # "none"
  /\ pc[p] = "creating" => tables = "none" \/ shape = Current
  /\ pc[p] \in {"filling", "refreshing", "stamping"} => shape = Current
  /\ pc[p] \in {"refreshing", "stamping"} => tables = "all"
  /\ pc[p] \in {"saving", "migrating"} =>
        seen[p] \in 1..(Current - 1) /\ (shape = seen[p] \/ shape = Current)
  /\ pc[p] = "migrating" => [filed |-> seen[p], shape |-> seen[p]] \in backups \/ shape = Current

StageInv == \A p \in Processes : Stage(p)

SchemaInv == VersionIsTrue /\ UnversionedInv /\ StageInv

\* Only the holder of the lock goes near the socket.
HolderInv ==
  /\ \A p \in Processes :
       pc[p] \in {"locked", "listening", "serving", "closing", "unlocking"} => lock = p
  /\ \A p \in Processes : pc[p] \in {"listening", "serving"} => socket = p
  /\ \A p \in Processes : pc[p] = "closing" => socket \in {p, Nobody}

-----------------------------------------------------------------------------
(* Types.                                                                  *)

LEMMA TypeInit == Init => TypeOK
<1> SUFFICES ASSUME Init PROVE TypeOK
  OBVIOUS
<1>1. shape \in 0..(Current + 1) /\ version \in 0..(Current + 1)
  BY VersionAssumption DEF Init
<1>2. pc \in [Processes -> Places]
  BY DEF Init, Places
<1>3. seen \in [Processes -> 0..(Current + 1)]
  BY VersionAssumption DEF Init
<1>4. halves \in BOOLEAN /\ crashes \in 0..MaxCrashes /\ stops \in 0..MaxStops
  BY VersionAssumption DEF Init
<1>5. tables \in {"none", "some", "all"} /\ backups = {} /\ lock = Nobody /\ socket = Nobody
  BY DEF Init
<1> QED BY <1>1, <1>2, <1>3, <1>4, <1>5 DEF TypeOK, Places

\* Every process only ever moves itself.
LEMMA PlaceStep ==
  ASSUME TypeOK, [Next]_vars
  PROVE  /\ pc' \in [Processes -> Places]
         /\ \/ UNCHANGED pc
            \/ \E p \in Processes : \A q \in Processes : q # p => pc'[q] = pc[q]
<1>1. pc \in [Processes -> Places]
  BY DEF TypeOK, Places
<1>2. CASE UNCHANGED vars
  BY <1>1, <1>2 DEF vars
<1>3. ASSUME NEW p \in Processes, Launch(p) \/ Opens(p) \/ Serves(p) \/ Stop(p) \/ Crash(p)
      PROVE  \E place \in Places : pc' = [pc EXCEPT ![p] = place]
  BY <1>3 DEF Places, Launch, Opens, Serves, Stop, Crash, Looks, Reads, Creates, Fills, Stamps,
     Saves, Migrates, Proves, Checks, CloseTool, Locks, Listens, Recovers, Unlinks, Unlocks,
     Goto, Fails
<1> QED BY <1>1, <1>2, <1>3 DEF Next

\* Each variable keeps its type; a copy is of a version that the code migrates from.
LEMMA TypeStep == TypeOK /\ SchemaInv /\ HolderInv /\ [Next]_vars => TypeOK'
<1> SUFFICES ASSUME TypeOK, SchemaInv, HolderInv, [Next]_vars PROVE TypeOK'
  OBVIOUS
<1>1. pc' \in [Processes -> Places]
  BY PlaceStep
<1>2. Current \in 0..(Current + 1) /\ 0 \in 0..(Current + 1)
  BY VersionAssumption
<1>3. tables' \in {"none", "some", "all"} /\ shape' \in 0..(Current + 1)
      /\ version' \in 0..(Current + 1)
  BY <1>2 DEF TypeOK, Next, Launch, Opens, Serves, Stop, Crash, Looks, Reads, Creates, Fills,
     Stamps, Saves, Migrates, Migrated, Proves, Checks, CloseTool, Locks, Listens, Recovers,
     Unlinks, Unlocks, vars, disk
<1>4. backups' \subseteq [filed : 1..Current, shape : 1..Current]
  <2>1. ASSUME NEW p \in Processes, Saves(p)
        PROVE  backups' \subseteq [filed : 1..Current, shape : 1..Current]
    <3>1. seen[p] \in 1..(Current - 1) /\ (shape = seen[p] \/ shape = Current)
      BY <2>1 DEF Saves, Goto, SchemaInv, StageInv, Stage
    <3>2. seen[p] \in 1..Current /\ shape \in 1..Current
      BY <3>1, VersionAssumption
    <3> QED BY <2>1, <3>2 DEF Saves, Saved, TypeOK
  <2>2. CASE UNCHANGED backups
    BY <2>2 DEF TypeOK
  <2>3. (\E p \in Processes : Saves(p)) \/ UNCHANGED backups
    BY DEF Next, Launch, Opens, Serves, Stop, Crash, Looks, Reads, Creates, Fills, Stamps,
       Migrates, Proves, Checks, CloseTool, Locks, Listens, Recovers, Unlinks, Unlocks,
       vars, disk
  <2> QED BY <2>1, <2>2, <2>3
<1>5. seen' \in [Processes -> 0..(Current + 1)]
  BY <1>2 DEF TypeOK, Next, Launch, Opens, Serves, Stop, Crash, Looks, Reads, Creates, Fills,
     Stamps, Saves, Migrates, Forgets, Proves, Checks, CloseTool, Locks, Listens, Recovers,
     Unlinks, Unlocks, vars, disk, Found
<1>6. lock' \in Daemons \cup {Nobody} /\ socket' \in Daemons \cup {Nobody}
  <2>1. ASSUME NEW p \in Processes, Listens(p) \/ Stop(p)
        PROVE  p \in Daemons
    BY <2>1, ProcessAssumption DEF Listens, Stop, Goto, HolderInv, TypeOK, Processes
  <2>2. ASSUME NEW p \in Processes, Listens(p) \/ Stop(p)
        PROVE  lock' \in Daemons \cup {Nobody} /\ socket' \in Daemons \cup {Nobody}
    BY <2>1, <2>2 DEF Listens, Stop, TypeOK
  <2>3. ASSUME NEW p \in Processes, Locks(p) \/ Crash(p) \/ Unlinks(p) \/ Unlocks(p)
        PROVE  lock' \in Daemons \cup {Nobody} /\ socket' \in Daemons \cup {Nobody}
    BY <2>3 DEF Locks, Crash, Unlinks, Unlocks, TypeOK
  <2>4. ASSUME NEW p \in Processes, Launch(p) \/ Opens(p) \/ Recovers(p)
        PROVE  UNCHANGED <<lock, socket>>
    BY <2>4 DEF Launch, Opens, Recovers, Looks, Reads, Creates, Fills, Stamps, Saves, Migrates,
       Proves, Checks, CloseTool, ends
  <2>5. CASE UNCHANGED vars
    BY <2>5 DEF vars, ends, TypeOK
  <2> QED BY <2>2, <2>3, <2>4, <2>5 DEF Next, Serves, TypeOK
<1>7. halves' \in BOOLEAN /\ crashes' \in 0..MaxCrashes /\ stops' \in 0..MaxStops
  <2>1. UNCHANGED env \/ \E p \in Processes : Stop(p) \/ Crash(p)
    BY DEF Next, Launch, Opens, Serves, Looks, Reads, Creates, Fills, Stamps, Saves, Migrates,
       Proves, Checks, CloseTool, Locks, Listens, Recovers, Unlinks, Unlocks, vars
  <2>2. UNCHANGED halves
    BY <2>1 DEF env, Stop, Crash
  <2>3. crashes' \in 0..MaxCrashes /\ stops' \in 0..MaxStops
    BY <2>1, VersionAssumption DEF env, Stop, Crash, TypeOK
  <2> QED BY <2>2, <2>3 DEF TypeOK
<1> QED BY <1>1, <1>3, <1>4, <1>5, <1>6, <1>7 DEF TypeOK, Places

-----------------------------------------------------------------------------
(* The schema.                                                             *)

\* Where a step that leaves the database alone may go.
LEMMA QuietStep ==
  ASSUME TypeOK, SchemaInv, NEW p \in Processes,
         \/ Launch(p) \/ Looks(p) \/ Reads(p) \/ Proves(p) \/ Checks(p) \/ CloseTool(p)
         \/ Serves(p) \/ Stop(p) \/ Crash(p)
  PROVE  SchemaInv'
<1>1. UNCHANGED disk
  BY DEF Launch, Looks, Reads, Proves, Checks, CloseTool, Serves, Locks, Listens, Recovers,
     Unlinks, Unlocks, Stop, Crash
<1>2. VersionIsTrue' /\ UnversionedInv'
  BY <1>1 DEF SchemaInv, VersionIsTrue, UnversionedInv, disk
<1>3. \A q \in Processes : q # p => pc'[q] = pc[q] /\ seen'[q] = seen[q]
  BY DEF TypeOK, Launch, Looks, Reads, Proves, Checks, CloseTool, Serves, Locks, Listens,
     Recovers, Unlinks, Unlocks, Stop, Crash, Goto, Fails, Forgets
<1>4. \A q \in Processes : q # p => Stage(q)'
  BY <1>1, <1>3 DEF SchemaInv, StageInv, Stage, disk
<1>5. CASE Launch(p) \/ Checks(p) \/ CloseTool(p) \/ Serves(p) \/ Stop(p) \/ Crash(p)
  <2>1. pc'[p] \notin {"reading", "creating", "filling", "refreshing", "stamping", "saving",
                       "migrating"}
    BY <1>5 DEF TypeOK, Launch, Checks, CloseTool, Serves, Locks, Listens, Recovers, Unlinks,
       Unlocks, Stop, Crash, Goto, Fails
  <2> QED BY <1>2, <1>4, <2>1 DEF SchemaInv, StageInv, Stage
<1>6. CASE Looks(p)
  <2>1. pc'[p] = IF tables = "none" THEN "creating" ELSE "reading"
    BY <1>6 DEF TypeOK, Looks, Goto
  <2>2. Stage(p)'
    BY <1>1, <2>1 DEF disk, Stage
  <2> QED BY <1>2, <1>4, <2>2 DEF SchemaInv, StageInv, Stage
<1>7. CASE Proves(p)
  <2>1. pc'[p] = IF shape = Current /\ tables = "all" THEN "refreshing" ELSE "off"
    BY <1>7 DEF TypeOK, Proves, Goto
  <2>2. Stage(p)'
    BY <1>1, <2>1 DEF disk, Stage
  <2> QED BY <1>2, <1>4, <2>2 DEF SchemaInv, StageInv, Stage
<1>8. CASE Reads(p)
  <2>1. tables # "none"
    BY <1>8 DEF Reads, SchemaInv, StageInv, Stage
  <2>2. pc'[p] \in {"off", "proving"} \/ (pc'[p] = "saving" /\ Found < Current /\ seen'[p] = Found)
    BY <1>8 DEF TypeOK, Reads
  <2>3. Found < Current => Found \in 1..(Current - 1) /\ (shape = Found \/ shape = Current)
    BY <2>1, VersionAssumption DEF Found, SchemaInv, VersionIsTrue, UnversionedInv, TypeOK
  <2>4. Stage(p)'
    BY <1>1, <2>2, <2>3 DEF disk, Stage
  <2> QED BY <1>2, <1>4, <2>4 DEF SchemaInv, StageInv, Stage
<1> QED BY <1>5, <1>6, <1>7, <1>8

\* The steps that write, each of which other processes may see at any point of theirs.
LEMMA WriteStep ==
  ASSUME TypeOK, SchemaInv, NEW p \in Processes,
         Creates(p) \/ Fills(p) \/ Stamps(p) \/ Saves(p) \/ Migrates(p)
  PROVE  SchemaInv'
<1>0. \A q \in Processes : q # p => pc'[q] = pc[q] /\ seen'[q] = seen[q]
  BY DEF TypeOK, Creates, Fills, Stamps, Saves, Migrates, Goto, Fails, Forgets
<1> USE VersionAssumption DEF SchemaInv, VersionIsTrue, UnversionedInv, StageInv, Stage
<1>1. CASE Creates(p)
  <2>1. pc[p] = "creating" /\ pc'[p] = "filling" /\ UNCHANGED <<version, backups, seen>>
    BY <1>1 DEF Creates, Goto, TypeOK
  <2>2. CASE tables = "none"
    <3>1. tables' = "some" /\ shape' = Current
      BY <1>1, <2>2 DEF Creates
    <3>2. version = 0
      BY <2>2
    <3> QED BY <1>0, <2>1, <2>2, <3>1, <3>2
  <2>3. CASE tables # "none"
    <3>1. UNCHANGED <<tables, shape>>
      BY <1>1, <2>3 DEF Creates
    <3> QED BY <1>0, <2>1, <2>3, <3>1
  <2> QED BY <2>2, <2>3
<1>2. CASE Fills(p)
  <2>1. pc'[p] = "stamping" /\ tables' = "all" /\ UNCHANGED <<shape, version, backups, seen>>
    BY <1>2 DEF Fills, Goto, TypeOK
  <2>2. shape = Current
    BY <1>2 DEF Fills, Goto
  <2> QED BY <1>0, <2>1, <2>2
<1>3. CASE Stamps(p)
  <2>1. pc'[p] = "checking" /\ version' = Current /\ UNCHANGED <<tables, shape, backups, seen>>
    BY <1>3 DEF Stamps, Goto, TypeOK
  <2>2. shape = Current /\ tables = "all"
    BY <1>3 DEF Stamps, Goto
  <2> QED BY <1>0, <2>1, <2>2
<1>4. CASE Saves(p)
  <2>1. /\ pc[p] = "saving" /\ pc'[p] = "migrating" /\ UNCHANGED <<tables, shape, version, seen>>
        /\ backups' = backups \cup {[filed |-> seen[p], shape |-> shape]}
    BY <1>4 DEF Saves, Saved, Goto, TypeOK
  <2>2. Stage(p)'
    BY <2>1
  <2>3. \A q \in Processes : q # p => Stage(q)'
    BY <1>0, <2>1
  <2> QED BY <2>1, <2>2, <2>3
<1>5. CASE Migrates(p)
  <2>1. CASE Applies(p) /\ shape' = Current /\ version' = Current /\ pc'[p] = "refreshing"
    <3>1. tables = "all" /\ UNCHANGED <<tables, backups>>
      BY <1>5, <2>1 DEF Migrates, Applies
    <3>2. Stage(p)'
      BY <2>1, <3>1
    <3>3. \A q \in Processes : q # p => Stage(q)'
      BY <1>0, <2>1, <3>1
    <3> QED BY <2>1, <3>1, <3>2, <3>3
  <2>2. CASE UNCHANGED <<tables, shape, version, backups>> /\ pc'[p] = "off"
    BY <1>0, <2>2
  <2> QED BY <1>5, <2>1, <2>2 DEF Migrates, Migrated, Fails, TypeOK
<1> QED BY <1>1, <1>2, <1>3, <1>4, <1>5

LEMMA SchemaStep == TypeOK /\ SchemaInv /\ [Next]_vars => SchemaInv'
<1> SUFFICES ASSUME TypeOK, SchemaInv, [Next]_vars PROVE SchemaInv'
  OBVIOUS
<1>1. CASE UNCHANGED vars
  BY <1>1 DEF vars, disk, SchemaInv, VersionIsTrue, UnversionedInv, StageInv, Stage
<1> QED BY <1>1, QuietStep, WriteStep DEF Next, Opens

-----------------------------------------------------------------------------
(* The lock and the socket.                                                *)

LEMMA HolderStep == TypeOK /\ HolderInv /\ [Next]_vars => HolderInv'
<1> SUFFICES ASSUME TypeOK, HolderInv, [Next]_vars PROVE HolderInv'
  OBVIOUS
<1> USE ProcessAssumption DEF HolderInv, Processes
<1>1. CASE UNCHANGED vars
  BY <1>1 DEF vars, ends
<1>2. ASSUME NEW p \in Processes, Launch(p) \/ Opens(p) PROVE HolderInv'
  <2>1. UNCHANGED <<lock, socket>>
    BY <1>2 DEF Launch, Opens, Looks, Reads, Creates, Fills, Stamps, Saves, Migrates, Proves,
       Checks, CloseTool, ends
  <2>2. /\ \A q \in Processes : q # p => pc'[q] = pc[q]
        /\ pc'[p] \notin {"locked", "listening", "serving", "closing", "unlocking"}
    BY <1>2 DEF TypeOK, Launch, Opens, Looks, Reads, Creates, Fills, Stamps, Saves, Migrates,
       Proves, Checks, CloseTool, Goto, Fails
  <2> QED BY <2>1, <2>2
<1>3. ASSUME NEW p \in Processes, Locks(p) PROVE HolderInv'
  <2>1. CASE lock = Nobody
    BY <1>3, <2>1 DEF Locks, MayLock, TypeOK
  <2>2. CASE lock # Nobody
    BY <1>3, <2>2 DEF Locks, MayLock, Fails, TypeOK
  <2> QED BY <2>1, <2>2
<1>4. ASSUME NEW p \in Processes, Listens(p) PROVE HolderInv'
  <2>1. pc[p] = "locked" /\ lock = p
    BY <1>4 DEF Listens
  <2>2. \A q \in Processes : q # p =>
          pc[q] \notin {"locked", "listening", "serving", "closing", "unlocking"}
    BY <2>1
  <2>3. /\ \A q \in Processes : q # p => pc'[q] = pc[q]
        /\ \/ pc'[p] = "listening" /\ socket' = p /\ lock' = lock
           \/ pc'[p] = "off"
    BY <1>4 DEF Listens, Fails, TypeOK
  <2> QED BY <2>1, <2>2, <2>3
<1>5. ASSUME NEW p \in Processes, Recovers(p) \/ Stop(p) \/ Unlinks(p) \/ Unlocks(p)
      PROVE  HolderInv'
  <2>1. lock = p /\ \A q \in Processes : q # p =>
          pc[q] \notin {"locked", "listening", "serving", "closing", "unlocking"}
    BY <1>5 DEF Recovers, Stop, Unlinks, Unlocks, Goto
  <2>2. \A q \in Processes : q # p => pc'[q] = pc[q]
    BY <1>5 DEF Recovers, Stop, Unlinks, Unlocks, Goto, TypeOK
  <2>3. CASE Recovers(p)
    BY <2>1, <2>2, <2>3 DEF Recovers, Goto, ends, TypeOK
  <2>4. CASE Stop(p)
    BY <2>1, <2>2, <2>4 DEF Stop, Goto, TypeOK
  <2>5. CASE Unlinks(p)
    BY <2>1, <2>2, <2>5 DEF Unlinks, Goto, TypeOK
  <2>6. CASE Unlocks(p)
    BY <2>1, <2>2, <2>6 DEF Unlocks, Goto, TypeOK
  <2> QED BY <1>5, <2>3, <2>4, <2>5, <2>6
<1>6. ASSUME NEW p \in Processes, Crash(p) PROVE HolderInv'
  BY <1>6 DEF Crash, Fails, TypeOK
<1> QED BY <1>1, <1>2, <1>3, <1>4, <1>5, <1>6 DEF Next, Serves

-----------------------------------------------------------------------------
LEMMA InitInv == Init => SchemaInv /\ HolderInv
<1> SUFFICES ASSUME Init PROVE SchemaInv /\ HolderInv
  OBVIOUS
<1>1. VersionIsTrue /\ UnversionedInv
  BY VersionAssumption DEF Init, VersionIsTrue, UnversionedInv
<1>2. \A p \in Processes : pc[p] = "off"
  BY DEF Init
<1> QED BY <1>1, <1>2 DEF SchemaInv, StageInv, Stage, HolderInv

\* The three parts of the invariant need each other.
LEMMA Invariants == Spec => [](TypeOK /\ SchemaInv /\ HolderInv)
BY TypeInit, InitInv, TypeStep, SchemaStep, HolderStep, PTL DEF Spec

\* The types of Startup, for any processes, versions and bounds.
THEOREM TypeCorrect == Spec => []TypeOK
BY Invariants, PTL

\* Whatever dies where, and whoever opens the database at the same time, a database of
\* some version has its tables and columns (DatabaseCore.__init__, _migrate).
THEOREM VersionIsTrueHolds == Spec => []VersionIsTrue
BY Invariants, PTL DEF SchemaInv

\* No columns change without a copy of the database as it was (_backup_before_migration).
THEOREM UpgradesAreSavedHolds == Spec => UpgradesAreSaved
<1> DEFINE Saving ==
      /\ shape' # shape /\ shape # 0 =>
           shape' > shape /\ [filed |-> shape, shape |-> shape] \in backups
      /\ version' >= version
<1>1. TypeOK /\ SchemaInv /\ [Next]_vars => [Saving]_vars
  <2> SUFFICES ASSUME TypeOK, SchemaInv, Next PROVE Saving
    OBVIOUS
  <2> USE VersionAssumption DEF TypeOK, SchemaInv, VersionIsTrue, StageInv, Stage
  <2>1. CASE UNCHANGED <<shape, version>>
    BY <2>1
  <2>2. ASSUME NEW p \in Processes, Creates(p) PROVE Saving
    BY <2>2 DEF Creates, Goto, UnversionedInv
  <2>3. ASSUME NEW p \in Processes, Stamps(p) PROVE Saving
    <3>1. pc[p] = "stamping" /\ version' = Current /\ shape' = shape
      BY <2>3 DEF Stamps, Goto
    <3>2. shape = Current
      BY <3>1
    <3>3. version \in 0..Current
      BY <3>2
    <3> QED BY <3>1, <3>2, <3>3
  <2>4. ASSUME NEW p \in Processes, Migrates(p) PROVE Saving
    BY <2>1, <2>4 DEF Migrates, Migrated, Applies
  <2>5. \/ UNCHANGED <<shape, version>>
        \/ \E p \in Processes : Creates(p) \/ Stamps(p) \/ Migrates(p)
    BY DEF Next, Launch, Opens, Serves, Stop, Crash, Looks, Reads, Fills, Saves, Proves, Checks,
       CloseTool, Locks, Listens, Recovers, Unlinks, Unlocks, disk
  <2> QED BY <2>1, <2>2, <2>3, <2>4, <2>5
<1> QED BY <1>1, Invariants, PTL DEF Spec, UpgradesAreSaved

\* The socket and the lock belong to the daemon that works (start, shutdown).
THEOREM SocketLeadsToTheWorkerHolds == Spec => []SocketLeadsToTheWorker
<1>1. HolderInv => SocketLeadsToTheWorker
  BY DEF HolderInv, SocketLeadsToTheWorker, Processes
<1> QED BY <1>1, Invariants, PTL
=============================================================================
