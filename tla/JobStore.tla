------------------------------ MODULE JobStore ------------------------------
(***************************************************************************)
(* The durable store: db.py with its mixins db_records, db_recovery and    *)
(* db_provenance over the tables of db_core.  Every public mutation runs   *)
(* under one lock and one BEGIN IMMEDIATE transaction, so it is one        *)
(* action; a call that raises rolls back and is no step at all.  The       *)
(* callers are arbitrary: whatever order the daemon, the orchestrators and *)
(* a restart produce, the store has to keep its promises by itself.        *)
(*                                                                         *)
(* A crash loses nothing committed, so it shows up only through            *)
(* RecoverIncomplete, which the next daemon start runs in whatever state   *)
(* the crash left behind.                                                  *)
(***************************************************************************)
EXTENDS StateMachine

CONSTANTS Jobs,       \* job identifiers
          Tasks,      \* logical task identifiers inside one job's plan
          Numbers,    \* attempt numbers of one task
          Commits,    \* Git commits that can be accepted
          Dossiers,   \* dossier documents whose digest matches their content
          NoCommit,   \* the empty accepted_commit column
          NoDossier   \* no dossier row

ASSUME NoneAssumption == NoCommit \notin Commits /\ NoDossier \notin Dossiers

VARIABLES
  jobState,         \* jobs.state
  stopRequested,    \* jobs.stop_requested
  autoApply,        \* jobs.auto_apply, the metadata that acceptance freezes
  phase,            \* jobs.acceptance_phase
  acceptedCommit,   \* jobs.accepted_commit
  intent,           \* jobs.source_apply_intent
  outcome,          \* jobs.source_apply_outcome
  dossier,          \* dossiers.content (schema version and digest go with it)
  published,        \* dossiers.published
  taskState,        \* tasks.state, by job and logical id
  attemptState      \* attempts.state, by job, task and number

jobVars   == <<jobState, stopRequested, autoApply>>
graphVars == <<taskState, attemptState>>
ledgerVars == <<phase, acceptedCommit, intent, outcome, dossier, published>>
vars == <<jobVars, ledgerVars, graphVars>>

Intents  == {"requested", "not-requested"}
Outcomes == {"applied", "skipped", "not-requested"}
NoOutcome == "unset"              \* the empty source_apply_outcome column

\* The ledger's empty values are no decision and no outcome.
ASSUME LedgerAssumption ==
  NoCommit \notin Commits \X Intents \X Dossiers /\ NoDossier \notin Outcomes

TypeOK ==
  /\ jobState       \in [Jobs -> JobStates \cup {Absent}]
  /\ stopRequested  \in [Jobs -> BOOLEAN]
  /\ autoApply      \in [Jobs -> BOOLEAN]
  /\ phase          \in [Jobs -> AcceptancePhases]
  /\ acceptedCommit \in [Jobs -> Commits \cup {NoCommit}]
  /\ intent         \in [Jobs -> Intents]
  /\ outcome        \in [Jobs -> Outcomes \cup {NoOutcome}]
  /\ dossier        \in [Jobs -> Dossiers \cup {NoDossier}]
  /\ published      \in [Jobs -> BOOLEAN]
  /\ taskState      \in [Jobs -> [Tasks -> TaskStates \cup {Absent}]]
  /\ attemptState   \in [Jobs -> [Tasks -> [Numbers -> AttemptStates \cup {Absent}]]]

Init ==
  /\ jobState       = [j \in Jobs |-> Absent]
  /\ stopRequested  = [j \in Jobs |-> FALSE]
  /\ autoApply      = [j \in Jobs |-> FALSE]
  /\ phase          = [j \in Jobs |-> "none"]
  /\ acceptedCommit = [j \in Jobs |-> NoCommit]
  /\ intent         = [j \in Jobs |-> "not-requested"]
  /\ outcome        = [j \in Jobs |-> NoOutcome]
  /\ dossier        = [j \in Jobs |-> NoDossier]
  /\ published      = [j \in Jobs |-> FALSE]
  /\ taskState      = [j \in Jobs |-> [t \in Tasks |-> Absent]]
  /\ attemptState   = [j \in Jobs |-> [t \in Tasks |-> [n \in Numbers |-> Absent]]]

-----------------------------------------------------------------------------
(* The rows of one job, as _snapshot_locked reads them.                    *)

Exists(j) == jobState[j] # Absent
HasRunningAttempt(j, t) == \E n \in Numbers : attemptState[j][t][n] = "running"

SnapshotTasks(j)  == {taskState[j][t] : t \in {u \in Tasks : taskState[j][u] # Absent}}
RunningOwners(j)  == {taskState[j][t] : t \in {u \in Tasks : HasRunningAttempt(j, u)}}

\* _validate_snapshot_locked; transactions use it primed, on the rows they wrote.
ValidRows(j) ==
  SnapshotValid(jobState[j], SnapshotTasks(j), stopRequested[j], RunningOwners(j), phase[j])

\* Bulk updates of one job's rows: close every running attempt; move the tasks
\* whose state is in `from` to `to`.
ClosedAttempts(j, as) ==
  [t \in Tasks |-> [n \in Numbers |->
     IF attemptState[j][t][n] = "running" THEN as ELSE attemptState[j][t][n]]]
MovedTasks(j, from, to) ==
  [t \in Tasks |-> IF taskState[j][t] \in from THEN to ELSE taskState[j][t]]

\* Mutant: the bulk retry also reopens finished tasks.
Retryable_WithCompleted == TaskStates
Retryable == TaskStates \ {"completed"}

-----------------------------------------------------------------------------
(* db_records.py and db.py: jobs, tasks and attempts.                      *)

CreateJob(j, auto) ==
  /\ ~Exists(j)
  /\ jobState' = [jobState EXCEPT ![j] = "queued"]
  /\ autoApply' = [autoApply EXCEPT ![j] = auto]
  /\ UNCHANGED <<stopRequested, ledgerVars, graphVars>>
  /\ ValidRows(j)'

Frozen(j) == phase[j] # "none"

\* update_job: a field the call omits keeps its value.
UpdateJob(j, target, stop, auto) ==
  /\ Exists(j)
  /\ Frozen(j) => auto = autoApply[j]
  /\ target \in JobTransitions[jobState[j]]
  /\ target = "completed" => jobState[j] = "completed"
  /\ jobState' = [jobState EXCEPT ![j] = target]
  /\ stopRequested' = [stopRequested EXCEPT ![j] = stop]
  /\ autoApply' = [autoApply EXCEPT ![j] = auto]
  /\ UNCHANGED <<ledgerVars, graphVars>>
  /\ ValidRows(j)'

\* request_stop and clear_stop are the two fixed uses of update_job; clear_stop
\* also writes jobs.error, which acceptance freezes.
RequestStop(j) == UpdateJob(j, "stopping", TRUE, autoApply[j])
ClearStop(j)   == ~Frozen(j) /\ UpdateJob(j, "queued", FALSE, autoApply[j])

AddTasks(j, new) ==
  /\ jobState[j] \in {"queued", "planning"}
  /\ phase[j] = "none"
  /\ \A t \in new : taskState[j][t] = Absent
  /\ taskState' = [taskState EXCEPT ![j] =
                     [t \in Tasks |-> IF t \in new THEN "pending" ELSE taskState[j][t]]]
  /\ UNCHANGED <<jobVars, ledgerVars, attemptState>>
  /\ ValidRows(j)'

\* Mutant: activating a task of a queued or planning job leaves the job there.
ActivatedJobState_Unchanged(j, target) == jobState[j]
\* A task that goes in flight carries a queued or planning job to running.
ActivatedJobState(j, target) ==
  IF target \in InflightTaskStates /\ jobState[j] \in {"queued", "planning"}
  THEN "running" ELSE jobState[j]

UpdateTask(j, t, target) ==
  /\ Exists(j) /\ taskState[j][t] # Absent
  /\ phase[j] = "none"
  /\ target \in TaskTransitions[taskState[j][t]]
  /\ target = "completed" /\ taskState[j][t] # "completed" => ~HasRunningAttempt(j, t)
  /\ jobState' = [jobState EXCEPT ![j] = ActivatedJobState(j, target)]
  /\ taskState' = [taskState EXCEPT ![j][t] = target]
  /\ UNCHANGED <<stopRequested, autoApply, ledgerVars, attemptState>>
  /\ ValidRows(j)'

\* Mutant: the query for an already running attempt is gone.
MayStart_Concurrent(j, t, n) ==
  jobState[j] = "running" /\ taskState[j][t] = "running" /\ phase[j] = "none"
    /\ attemptState[j][t][n] = Absent
MayStart(j, t, n) ==
  /\ jobState[j] = "running" /\ taskState[j][t] = "running" /\ phase[j] = "none"
  /\ ~HasRunningAttempt(j, t)
  /\ attemptState[j][t][n] = Absent          \* UNIQUE(task_id, number)

StartAttempt(j, t, n) ==
  /\ MayStart(j, t, n)
  /\ attemptState' = [attemptState EXCEPT ![j][t][n] = "running"]
  /\ UNCHANGED <<jobVars, ledgerVars, taskState>>
  /\ ValidRows(j)'

\* finish_attempt also accepts an attempt whose job has been accepted meanwhile;
\* only the snapshot rule (no running attempt after acceptance) rules that out.
FinishAttempt(j, t, n, target) ==
  /\ attemptState[j][t][n] = "running"
  /\ target \in AttemptTransitions["running"] \ {"running"}
  /\ attemptState' = [attemptState EXCEPT ![j][t][n] = target]
  /\ UNCHANGED <<jobVars, ledgerVars, taskState>>
  /\ ValidRows(j)'

-----------------------------------------------------------------------------
(* db_recovery.py: settling, retrying, resuming and crash recovery.        *)

RetryFailedTasks(j) ==
  /\ phase[j] = "none"
  /\ jobState[j] \in {"failed", "stopped", "queued"}
  /\ taskState' = [taskState EXCEPT ![j] = MovedTasks(j, Retryable, "pending")]
  /\ UNCHANGED <<jobVars, ledgerVars, attemptState>>
  /\ ValidRows(j)'

SettleInflight(j, target, as) ==
  /\ Exists(j) /\ phase[j] = "none"
  /\ attemptState' = [attemptState EXCEPT ![j] = ClosedAttempts(j, as)]
  /\ taskState' = [taskState EXCEPT ![j] = MovedTasks(j, InflightTaskStates, target)]
  /\ UNCHANGED <<jobVars, ledgerVars>>
  /\ ValidRows(j)'

PrepareResume(j) ==
  /\ phase[j] = "none"
  /\ jobState[j] \in {"stopped", "failed"}
  /\ attemptState' = [attemptState EXCEPT ![j] = ClosedAttempts(j, "cancelled")]
  /\ taskState' = [taskState EXCEPT ![j] = MovedTasks(j, Retryable, "pending")]
  /\ jobState' = [jobState EXCEPT ![j] = "queued"]
  /\ stopRequested' = [stopRequested EXCEPT ![j] = FALSE]
  /\ UNCHANGED <<autoApply, ledgerVars>>
  /\ ValidRows(j)'

Incomplete(j)        == Exists(j) /\ jobState[j] \notin TerminalJobStates
RecoversAccepted(j)  == Incomplete(j) /\ phase[j] \in {"accepted", "applying"}
RecoversOrdinary(j)  == Incomplete(j) /\ ~RecoversAccepted(j)
\* Mutant: recovery does not look at the stop request.
RecoversActive_IgnoringStop(j) == RecoversOrdinary(j)
RecoversActive(j)    == RecoversOrdinary(j) /\ ~stopRequested[j] /\ jobState[j] # "stopping"
RecoversStopped(j)   == RecoversOrdinary(j) /\ ~RecoversActive(j)

\* Mutant: recovery leaves the interrupted attempts of active jobs running.
RecoveredAttempts_KeepRunning(j) ==
  IF RecoversStopped(j) THEN ClosedAttempts(j, "cancelled") ELSE attemptState[j]
RecoveredAttempts(j) ==
  IF RecoversOrdinary(j) THEN ClosedAttempts(j, "cancelled") ELSE attemptState[j]
RecoveredTasks(j) ==
  IF RecoversActive(j) THEN MovedTasks(j, InflightTaskStates, "pending")
  ELSE IF RecoversStopped(j) THEN MovedTasks(j, InflightTaskStates, "stopped")
  ELSE taskState[j]
RecoveredState(j) ==
  IF RecoversActive(j) THEN "queued"
  ELSE IF RecoversStopped(j) THEN "stopped" ELSE jobState[j]
\* An accepted job loses a stale stop request: its completion wins.
RecoveredStop(j) ==
  IF RecoversAccepted(j) \/ RecoversActive(j) THEN FALSE
  ELSE IF RecoversStopped(j) THEN TRUE ELSE stopRequested[j]

\* The checks recover_incomplete makes before it opens its transaction.
RecoveryChecks(j) ==
  /\ RecoversAccepted(j) => jobState[j] \in {"running", "stopping"}
  /\ RecoversActive(j)   => "queued" \in JobTransitions[jobState[j]]
  /\ RecoversStopped(j)  => /\ jobState[j] # "stopping" => "stopping" \in JobTransitions[jobState[j]]
                            /\ "stopped" \in JobTransitions["stopping"]

\* One transaction for every interrupted job: one bad job refuses them all.
RecoverIncomplete ==
  /\ \A j \in Jobs : RecoveryChecks(j)
  /\ jobState'      = [j \in Jobs |-> RecoveredState(j)]
  /\ stopRequested' = [j \in Jobs |-> RecoveredStop(j)]
  /\ taskState'     = [j \in Jobs |-> RecoveredTasks(j)]
  /\ attemptState'  = [j \in Jobs |-> RecoveredAttempts(j)]
  /\ UNCHANGED <<autoApply, ledgerVars>>
  /\ \A j \in Jobs : Incomplete(j) => ValidRows(j)'

-----------------------------------------------------------------------------
(* db_provenance.py: the acceptance journal.                               *)

MayStage(j) == jobState[j] # "completed" /\ phase[j] = "none"

\* stage_dossier is the one mutation that does not validate the snapshot.
StageDossier(j, d) ==
  /\ Exists(j) /\ MayStage(j)
  /\ dossier' = [dossier EXCEPT ![j] = d]
  /\ published' = [published EXCEPT ![j] = FALSE]
  /\ UNCHANGED <<jobVars, graphVars, phase, acceptedCommit, intent, outcome>>

\* prepare_accepted_job; the idempotent repetition with the same commit, intent
\* and dossier commits without writing, any other repetition raises.
PrepareAcceptedJob(j, c, i, d) ==
  /\ phase[j] = "none"
  /\ jobState[j] \in {"running", "stopping"}
  /\ SnapshotValid(jobState[j], SnapshotTasks(j), FALSE, RunningOwners(j), "accepted")
  /\ dossier' = [dossier EXCEPT ![j] = d]
  /\ published' = [published EXCEPT ![j] = FALSE]
  /\ acceptedCommit' = [acceptedCommit EXCEPT ![j] = c]
  /\ intent' = [intent EXCEPT ![j] = i]
  /\ outcome' = [outcome EXCEPT ![j] = NoOutcome]
  /\ phase' = [phase EXCEPT ![j] = "accepted"]
  /\ stopRequested' = [stopRequested EXCEPT ![j] = FALSE]
  /\ UNCHANGED <<jobState, autoApply, graphVars>>
  /\ ValidRows(j)'

MarkApplyStarted(j, c) ==
  /\ Exists(j)
  /\ acceptedCommit[j] = c
  /\ intent[j] = "requested"
  /\ phase[j] = "accepted"
  /\ phase' = [phase EXCEPT ![j] = "applying"]
  /\ UNCHANGED <<jobVars, graphVars, acceptedCommit, intent, outcome, dossier, published>>
  /\ ValidRows(j)'

\* Mutant: an outcome is recorded whatever the journaled intent was.
OutcomeFits_Any(j, o) == phase[j] \in {"accepted", "applying"}
OutcomeFits(j, o) ==
  \/ intent[j] = "not-requested" /\ phase[j] = "accepted" /\ o = "not-requested"
  \/ intent[j] = "requested" /\ phase[j] = "applying" /\ o \in {"applied", "skipped"}

\* Mutant: completion is recorded without flagging the dossier row.
PublishedRows_Forgotten(j) == published
PublishedRows(j) == [published EXCEPT ![j] = TRUE]

\* publish_completed_job; repeating it on a completed job changes nothing.
PublishCompletedJob(j, d, o) ==
  /\ dossier[j] = d /\ d # NoDossier
  /\ jobState[j] # "completed"
  /\ OutcomeFits(j, o)
  /\ acceptedCommit[j] # NoCommit
  /\ "completed" \in JobTransitions[jobState[j]]
  /\ SnapshotValid("completed", SnapshotTasks(j), FALSE, RunningOwners(j), "published")
  /\ jobState' = [jobState EXCEPT ![j] = "completed"]
  /\ stopRequested' = [stopRequested EXCEPT ![j] = FALSE]
  /\ phase' = [phase EXCEPT ![j] = "published"]
  /\ outcome' = [outcome EXCEPT ![j] = o]
  /\ published' = PublishedRows(j)
  /\ ~published[j]                            \* UPDATE ... WHERE published = 0
  /\ UNCHANGED <<autoApply, acceptedCommit, intent, dossier, graphVars>>
  /\ ValidRows(j)'

-----------------------------------------------------------------------------
JobStep(j) ==
  \/ \E auto \in BOOLEAN : CreateJob(j, auto)
  \/ \E s \in JobStates, stop, auto \in BOOLEAN : UpdateJob(j, s, stop, auto)
  \/ RequestStop(j) \/ ClearStop(j)
  \/ RetryFailedTasks(j) \/ PrepareResume(j)
  \/ \E s \in {"pending", "failed", "stopped"}, as \in {"cancelled", "failed"} :
       SettleInflight(j, s, as)

TaskStep(j) ==
  \/ \E new \in SUBSET Tasks : AddTasks(j, new)
  \/ \E t \in Tasks, s \in TaskStates : UpdateTask(j, t, s)
  \/ \E t \in Tasks, n \in Numbers : StartAttempt(j, t, n)
  \/ \E t \in Tasks, n \in Numbers, s \in AttemptStates : FinishAttempt(j, t, n, s)

LedgerStep(j) ==
  \/ \E d \in Dossiers : StageDossier(j, d)
  \/ \E c \in Commits, i \in Intents, d \in Dossiers : PrepareAcceptedJob(j, c, i, d)
  \/ \E c \in Commits : MarkApplyStarted(j, c)
  \/ \E d \in Dossiers, o \in Outcomes : PublishCompletedJob(j, d, o)

Next == RecoverIncomplete \/ \E j \in Jobs : JobStep(j) \/ TaskStep(j) \/ LedgerStep(j)

Spec == Init /\ [][Next]_vars

-----------------------------------------------------------------------------
(* Safety.                                                                 *)

Inflight(j) == \E t \in Tasks : taskState[j][t] \in InflightTaskStates
HasRunning(j) == \E t \in Tasks : HasRunningAttempt(j, t)

\* Work is in flight only while the job is running or stopping.  The validator
\* (state_machine.py:135) says so of queued, stopped and failed jobs but not of
\* planning ones, where only update_task's activation of the job keeps it true.
WorkOnlyWhileActive ==
  \A j \in Jobs : Inflight(j) \/ HasRunning(j) => jobState[j] \in {"running", "stopping"}

\* A task never has two attempts recorded as running (start_attempt, db.py:233),
\* and the task that owns a running attempt is in flight: a crash or a stop then
\* always finds one attempt to close per task.
OneRunningAttempt ==
  \A j \in Jobs, t \in Tasks :
    /\ \A m, n \in Numbers :
         attemptState[j][t][m] = "running" /\ attemptState[j][t][n] = "running" => m = n
    /\ HasRunningAttempt(j, t) => taskState[j][t] \in InflightTaskStates

\* The three records of a completion agree in every state a reader can see: the
\* job is completed exactly when its dossier is published and exactly when an
\* outcome is recorded that answers the intent (publish_completed_job,
\* db_provenance.py:400); the validator knows nothing of the dossier row.
PublicationAgrees ==
  \A j \in Jobs :
    /\ (jobState[j] = "completed") <=> published[j]
    /\ (jobState[j] = "completed") <=> (outcome[j] # NoOutcome)
    /\ phase[j] # "none" => acceptedCommit[j] \in Commits /\ dossier[j] \in Dossiers
    /\ published[j] => (intent[j] = "not-requested" <=> outcome[j] = "not-requested")

\* The rows recover_incomplete would leave pass the validator for every
\* interrupted job, so a daemon can always restart: no reachable state makes
\* the recovery transaction (db_recovery.py:177) refuse, which would refuse the
\* start of the daemon for every other job too.
RecoveryIsTotal ==
  \A j \in Jobs : Incomplete(j) =>
    /\ RecoveryChecks(j)
    /\ SnapshotValid(
         RecoveredState(j),
         {RecoveredTasks(j)[t] : t \in {u \in Tasks : taskState[j][u] # Absent}},
         RecoveredStop(j),
         {RecoveredTasks(j)[t] :
            t \in {u \in Tasks : \E n \in Numbers : RecoveredAttempts(j)[u][n] = "running"}},
         phase[j])

\* After acceptance the candidate is frozen: neither the journaled decision nor
\* any task, attempt or metadata of the job changes again, whatever is called
\* afterwards (db.py:75, db.py:135, db_provenance.py:127).
AcceptanceIsFrozen ==
  [][\A j \in Jobs : phase[j] # "none" =>
       /\ UNCHANGED <<acceptedCommit[j], intent[j], dossier[j], autoApply[j]>>
       /\ UNCHANGED <<taskState[j], attemptState[j]>>
       /\ phase[j] = "published" => UNCHANGED <<jobState[j], stopRequested[j], outcome[j], phase[j]>>]_vars

\* History is append-only: a finished task is never scheduled again and a
\* finished attempt never changes, through any of the bulk updates of settling,
\* retrying, resuming and recovery (db_recovery.py:92, 153, 243).
HistoryIsKept ==
  [][\A j \in Jobs, t \in Tasks :
       /\ taskState[j][t] = "completed" => taskState'[j][t] = "completed"
       /\ \A n \in Numbers : attemptState[j][t][n] \notin {Absent, "running"} =>
            attemptState'[j][t][n] = attemptState[j][t][n]]_vars

-----------------------------------------------------------------------------
(* The journal implements the abstract acceptance ledger.                  *)

Decision == [j \in Jobs |->
  IF phase[j] = "none" THEN NoCommit ELSE <<acceptedCommit[j], intent[j], dossier[j]>>]
Result == [j \in Jobs |-> IF phase[j] = "published" THEN outcome[j] ELSE NoDossier]

Ledger == INSTANCE AcceptanceLedger
            WITH Undecided <- NoCommit, Unpublished <- NoDossier,
                 decision <- Decision, result <- Result

\* The acceptance columns and the dossier row, written by four transactions and
\* passed over by every other one, behave as the write-once ledger.
ImplementsLedger == Ledger!Spec
=============================================================================
