--------------------------- MODULE JobStoreProofs ---------------------------
(* Proofs about the durable store, for any sets of jobs, tasks, attempt     *)
(* numbers, commits and dossiers.                                           *)
EXTENDS JobStore, TLAPS

-----------------------------------------------------------------------------
(* Type correctness.                                                        *)

\* Closing the running attempts of a job writes rows of the right kind.
LEMMA ClosedAttemptsType ==
  TypeOK => \A j \in Jobs, as \in AttemptStates :
    ClosedAttempts(j, as) \in [Tasks -> [Numbers -> AttemptStates \cup {Absent}]]
<1> SUFFICES ASSUME TypeOK, NEW j \in Jobs, NEW as \in AttemptStates
             PROVE  ClosedAttempts(j, as) \in [Tasks -> [Numbers -> AttemptStates \cup {Absent}]]
  OBVIOUS
<1>1. ASSUME NEW t \in Tasks, NEW n \in Numbers
      PROVE  attemptState[j][t][n] \in AttemptStates \cup {Absent}
  BY DEF TypeOK
<1>2. QED BY <1>1 DEF ClosedAttempts

\* Moving the tasks of a job in bulk writes rows of the right kind.
LEMMA MovedTasksType ==
  TypeOK => \A j \in Jobs, to \in TaskStates, from \in SUBSET TaskStates :
    MovedTasks(j, from, to) \in [Tasks -> TaskStates \cup {Absent}]
<1> SUFFICES ASSUME TypeOK, NEW j \in Jobs, NEW to \in TaskStates, NEW from \in SUBSET TaskStates
             PROVE  MovedTasks(j, from, to) \in [Tasks -> TaskStates \cup {Absent}]
  OBVIOUS
<1>1. ASSUME NEW t \in Tasks PROVE taskState[j][t] \in TaskStates \cup {Absent}
  BY DEF TypeOK
<1>2. QED BY <1>1 DEF MovedTasks

\* A step of the store writes only values of the right kind (db_core.py SCHEMA).
LEMMA TypeStep == TypeOK /\ [Next]_vars => TypeOK'
<1> SUFFICES ASSUME TypeOK, [Next]_vars PROVE TypeOK'
  OBVIOUS
<1>a. \A j \in Jobs, as \in AttemptStates :
        ClosedAttempts(j, as) \in [Tasks -> [Numbers -> AttemptStates \cup {Absent}]]
  BY ClosedAttemptsType
<1>b. \A j \in Jobs, s \in TaskStates : \A from \in {InflightTaskStates, Retryable} :
        MovedTasks(j, from, s) \in [Tasks -> TaskStates \cup {Absent}]
  BY MovedTasksType DEF InflightTaskStates, Retryable, TaskStates
<1> USE DEF TypeOK, jobVars, ledgerVars, graphVars, Absent
<1>1. CASE RecoverIncomplete
  <2>1. \A j \in Jobs : /\ RecoveredState(j) \in JobStates \cup {Absent}
                        /\ RecoveredStop(j) \in BOOLEAN
    BY DEF RecoveredState, RecoveredStop, JobStates
  <2>2. \A j \in Jobs : RecoveredTasks(j) \in [Tasks -> TaskStates \cup {Absent}]
    BY <1>b DEF RecoveredTasks, TaskStates
  <2>3. \A j \in Jobs :
          RecoveredAttempts(j) \in [Tasks -> [Numbers -> AttemptStates \cup {Absent}]]
    BY <1>a DEF RecoveredAttempts, AttemptStates
  <2>4. QED BY <1>1, <2>1, <2>2, <2>3 DEF RecoverIncomplete
<1>2. ASSUME NEW j \in Jobs, JobStep(j) PROVE TypeOK'
  <2>1. CASE \E auto \in BOOLEAN : CreateJob(j, auto)
    BY <2>1 DEF CreateJob, JobStates
  <2>2. ASSUME NEW s \in JobStates, NEW stop \in BOOLEAN, NEW auto \in BOOLEAN,
               UpdateJob(j, s, stop, auto)
        PROVE  TypeOK'
    BY <2>2 DEF UpdateJob
  <2>3. CASE RequestStop(j)
    BY <2>2, <2>3 DEF RequestStop, JobStates
  <2>4. CASE ClearStop(j)
    BY <2>2, <2>4 DEF ClearStop, JobStates
  <2>5. CASE RetryFailedTasks(j)
    BY <2>5 DEF RetryFailedTasks, MovedTasks, TaskStates
  <2>6. CASE PrepareResume(j)
    <3>1. MovedTasks(j, Retryable, "pending") \in [Tasks -> TaskStates \cup {Absent}]
      BY <1>b DEF TaskStates
    <3>2. ClosedAttempts(j, "cancelled") \in [Tasks -> [Numbers -> AttemptStates \cup {Absent}]]
      BY <1>a DEF AttemptStates
    <3>3. QED BY <2>6, <3>1, <3>2 DEF PrepareResume, JobStates
  <2>7. ASSUME NEW s \in {"pending", "failed", "stopped"}, NEW as \in {"cancelled", "failed"},
               SettleInflight(j, s, as)
        PROVE  TypeOK'
    <3>1. MovedTasks(j, InflightTaskStates, s) \in [Tasks -> TaskStates \cup {Absent}]
      BY <1>b DEF TaskStates
    <3>2. ClosedAttempts(j, as) \in [Tasks -> [Numbers -> AttemptStates \cup {Absent}]]
      BY <1>a DEF AttemptStates
    <3>3. QED BY <2>7, <3>1, <3>2 DEF SettleInflight
  <2>8. QED BY <1>2, <2>1, <2>2, <2>3, <2>4, <2>5, <2>6, <2>7 DEF JobStep
<1>3. ASSUME NEW j \in Jobs, TaskStep(j) PROVE TypeOK'
  <2>1. ASSUME NEW new \in SUBSET Tasks, AddTasks(j, new) PROVE TypeOK'
    BY <2>1 DEF AddTasks, TaskStates
  <2>2. ASSUME NEW t \in Tasks, NEW s \in TaskStates, UpdateTask(j, t, s) PROVE TypeOK'
    BY <2>2 DEF UpdateTask, ActivatedJobState, JobStates
  <2>3. ASSUME NEW t \in Tasks, NEW n \in Numbers, StartAttempt(j, t, n) PROVE TypeOK'
    BY <2>3 DEF StartAttempt, AttemptStates
  <2>4. ASSUME NEW t \in Tasks, NEW n \in Numbers, NEW s \in AttemptStates,
               FinishAttempt(j, t, n, s)
        PROVE  TypeOK'
    BY <2>4 DEF FinishAttempt
  <2>5. QED BY <1>3, <2>1, <2>2, <2>3, <2>4 DEF TaskStep
<1>4. ASSUME NEW j \in Jobs, LedgerStep(j) PROVE TypeOK'
  <2>1. ASSUME NEW d \in Dossiers, StageDossier(j, d) PROVE TypeOK'
    BY <2>1 DEF StageDossier
  <2>2. ASSUME NEW c \in Commits, NEW i \in Intents, NEW d \in Dossiers,
               PrepareAcceptedJob(j, c, i, d)
        PROVE  TypeOK'
    BY <2>2 DEF PrepareAcceptedJob, AcceptancePhases
  <2>3. ASSUME NEW c \in Commits, MarkApplyStarted(j, c) PROVE TypeOK'
    BY <2>3 DEF MarkApplyStarted, AcceptancePhases
  <2>4. ASSUME NEW d \in Dossiers, NEW o \in Outcomes, PublishCompletedJob(j, d, o)
        PROVE  TypeOK'
    BY <2>4 DEF PublishCompletedJob, PublishedRows, AcceptancePhases, JobStates
  <2>5. QED BY <1>4, <2>1, <2>2, <2>3, <2>4 DEF LedgerStep
<1>5. CASE UNCHANGED vars
  BY <1>5 DEF vars
<1>6. QED BY <1>1, <1>2, <1>3, <1>4, <1>5 DEF Next

\* Every column of the store holds a value of its schema (db_core.py SCHEMA).
THEOREM TypeCorrect == Spec => []TypeOK
<1>1. Init => TypeOK
  BY DEF Init, TypeOK, Absent, AcceptancePhases, Intents, NoOutcome
<1>2. QED BY <1>1, TypeStep, PTL DEF Spec

-----------------------------------------------------------------------------
(* The invariant of one job's rows.  Only the first conjunct is validated   *)
(* by the store itself; the others need it to be inductive.                 *)

Active(j) == jobState[j] \in {"running", "stopping"}

\* What the validator says, read task by task.
RowsOK(j) ==
  /\ jobState[j] = "completed" =>
       ~stopRequested[j] /\ \A t \in Tasks : taskState[j][t] \in {Absent, "completed"}
  /\ jobState[j] \in {"queued", "stopped", "failed"} =>
       \A t \in Tasks : taskState[j][t] \notin InflightTaskStates
  /\ jobState[j] = "stopped" => stopRequested[j]
  /\ \A t \in Tasks : HasRunningAttempt(j, t) =>
       Active(j) /\ taskState[j][t] \in InflightTaskStates
  /\ phase[j] # "none" =>
       \A t \in Tasks : taskState[j][t] \in {Absent, "completed"} /\ ~HasRunningAttempt(j, t)
  /\ phase[j] \in {"accepted", "applying"} => Active(j)
  /\ phase[j] = "published" <=> jobState[j] = "completed"

AttemptsOK(j) ==
  \A t \in Tasks, m, n \in Numbers :
    attemptState[j][t][m] = "running" /\ attemptState[j][t][n] = "running" => m = n

ActiveOK(j) == (\E t \in Tasks : taskState[j][t] \in InflightTaskStates) => Active(j)

PublicationOK(j) ==
  /\ (jobState[j] = "completed") <=> published[j]
  /\ (jobState[j] = "completed") <=> (outcome[j] # NoOutcome)
  /\ phase[j] # "none" => acceptedCommit[j] \in Commits /\ dossier[j] \in Dossiers
  /\ published[j] => (intent[j] = "not-requested" <=> outcome[j] = "not-requested")
  /\ phase[j] = "applying" => intent[j] = "requested"

JobInv(j) == RowsOK(j) /\ AttemptsOK(j) /\ ActiveOK(j) /\ PublicationOK(j)

SameRow(j) ==
  /\ jobState'[j] = jobState[j] /\ stopRequested'[j] = stopRequested[j]
  /\ autoApply'[j] = autoApply[j] /\ phase'[j] = phase[j]
  /\ acceptedCommit'[j] = acceptedCommit[j] /\ intent'[j] = intent[j]
  /\ outcome'[j] = outcome[j] /\ dossier'[j] = dossier[j] /\ published'[j] = published[j]
  /\ taskState'[j] = taskState[j] /\ attemptState'[j] = attemptState[j]

\* The validator's set-level rules say the same as the task-level ones.
LEMMA RowsMeaning == \A j \in Jobs : ValidRows(j) => RowsOK(j)
<1> SUFFICES ASSUME NEW j \in Jobs, ValidRows(j) PROVE RowsOK(j)
  OBVIOUS
<1>1. \A t \in Tasks :
        /\ taskState[j][t] # Absent => taskState[j][t] \in SnapshotTasks(j)
        /\ HasRunningAttempt(j, t) => taskState[j][t] \in RunningOwners(j)
  BY DEF SnapshotTasks, RunningOwners
<1>2. QED BY <1>1 DEF ValidRows, SnapshotValid, RowsOK, Active, Absent, InflightTaskStates

LEMMA RowsMeaningNext == \A j \in Jobs : ValidRows(j)' => RowsOK(j)'
<1> SUFFICES ASSUME NEW j \in Jobs, ValidRows(j)' PROVE RowsOK(j)'
  OBVIOUS
<1>1. \A t \in Tasks :
        /\ taskState'[j][t] # Absent => taskState'[j][t] \in SnapshotTasks(j)'
        /\ HasRunningAttempt(j, t)' => taskState'[j][t] \in RunningOwners(j)'
  BY DEF SnapshotTasks, RunningOwners, HasRunningAttempt
<1>2. QED BY <1>1 DEF ValidRows, SnapshotValid, RowsOK, Active, Absent, InflightTaskStates, HasRunningAttempt

\* The invariant of a job depends on its rows alone.
LEMMA SameRowKeeps == \A j \in Jobs : JobInv(j) /\ SameRow(j) => JobInv(j)'
  BY DEF JobInv, SameRow, RowsOK, AttemptsOK, ActiveOK, PublicationOK, Active,
         HasRunningAttempt

\* A transaction about one job writes no row of another (every UPDATE has a
\* job_id or task_id in its WHERE clause).
LEMMA OthersKept ==
  ASSUME TypeOK, NEW j \in Jobs, NEW k \in Jobs, k # j,
         JobStep(j) \/ TaskStep(j) \/ LedgerStep(j)
  PROVE  SameRow(k)
<1> USE DEF TypeOK, SameRow, jobVars, ledgerVars, graphVars
<1>1. CASE JobStep(j)
  BY <1>1 DEF JobStep, CreateJob, UpdateJob, RequestStop, ClearStop, RetryFailedTasks,
              PrepareResume, SettleInflight
<1>2. CASE TaskStep(j)
  BY <1>2 DEF TaskStep, AddTasks, UpdateTask, StartAttempt, FinishAttempt
<1>3. CASE LedgerStep(j)
  BY <1>3 DEF LedgerStep, StageDossier, PrepareAcceptedJob, MarkApplyStarted,
              PublishCompletedJob, PublishedRows
<1>4. QED BY <1>1, <1>2, <1>3

-----------------------------------------------------------------------------
(* Each group of transactions keeps the invariant of the job it is about.   *)

\* Closing attempts starts none.
LEMMA ClosedAttemptsOK ==
  ASSUME TypeOK, NEW j \in Jobs, NEW as \in AttemptStates \ {"running"}, AttemptsOK(j),
         attemptState'[j] = ClosedAttempts(j, as)
  PROVE  AttemptsOK(j)'
<1>1. ASSUME NEW t \in Tasks, NEW n \in Numbers PROVE attemptState'[j][t][n] # "running"
  <2>1. ClosedAttempts(j, as)[t][n] # "running"
    BY DEF ClosedAttempts
  <2>2. QED BY <2>1
<1>2. QED BY <1>1 DEF AttemptsOK

\* Moving every task in flight away leaves none in flight.
LEMMA MovedTasksInflight ==
  ASSUME TypeOK, NEW j \in Jobs, NEW from \in {InflightTaskStates, Retryable},
         NEW to \in TaskStates \ InflightTaskStates, taskState'[j] = MovedTasks(j, from, to)
  PROVE  ActiveOK(j)'
  BY DEF ActiveOK, MovedTasks, InflightTaskStates, Retryable, TaskStates

\* Only a queued job enters planning.
LEMMA IntoPlanning ==
  \A s \in JobStates : "planning" \in JobTransitions[s] => s \in {"queued", "planning"}
<1>1. JobTransitions["running"] = {"running", "queued", "stopping", "completed", "failed"}
  BY DEF JobTransitions
<1>2. JobTransitions["stopping"] = {"stopping", "stopped", "queued", "completed", "failed"}
  BY DEF JobTransitions
<1>3. JobTransitions["stopped"] = {"stopped", "queued"}
  BY DEF JobTransitions
<1>4. JobTransitions["failed"] = {"failed", "queued"}
  BY DEF JobTransitions
<1>5. JobTransitions["completed"] = {"completed"}
  BY DEF JobTransitions
<1>6. QED BY <1>1, <1>2, <1>3, <1>4, <1>5 DEF JobStates

LEMMA JobStepInv ==
  ASSUME TypeOK, NEW j \in Jobs, JobInv(j), JobStep(j)
  PROVE  JobInv(j)'
<1> USE DEF TypeOK, jobVars, ledgerVars, graphVars
<1>1. ASSUME NEW auto \in BOOLEAN, CreateJob(j, auto) PROVE JobInv(j)'
  <2>1. RowsOK(j)' BY <1>1, RowsMeaningNext DEF CreateJob
  <2>2. AttemptsOK(j)' BY <1>1 DEF CreateJob, JobInv, AttemptsOK
  <2>3. ActiveOK(j)' BY <1>1, <2>1 DEF CreateJob, ActiveOK, RowsOK
  <2>4. PublicationOK(j)'
    BY <1>1 DEF CreateJob, Exists, JobInv, PublicationOK, Absent
  <2>5. QED BY <2>1, <2>2, <2>3, <2>4 DEF JobInv
<1>2. ASSUME NEW s \in JobStates, NEW stop \in BOOLEAN, NEW auto \in BOOLEAN,
             UpdateJob(j, s, stop, auto)
      PROVE  JobInv(j)'
  <2>1. RowsOK(j)' BY <1>2, RowsMeaningNext DEF UpdateJob
  <2>2. AttemptsOK(j)' BY <1>2 DEF UpdateJob, JobInv, AttemptsOK
  <2>3. ActiveOK(j)'
    <3>1. CASE s = "planning"
      <4>1. jobState[j] \in {"queued", "planning"}
        BY <1>2, <3>1, IntoPlanning DEF UpdateJob, Exists
      <4>2. \A t \in Tasks : taskState[j][t] \notin InflightTaskStates
        BY <4>1 DEF JobInv, ActiveOK, RowsOK, Active
      <4>3. QED BY <1>2, <4>2 DEF UpdateJob, ActiveOK
    <3>2. CASE s # "planning"
      BY <1>2, <2>1, <3>2 DEF UpdateJob, ActiveOK, RowsOK, Active, JobStates,
                              InflightTaskStates, Absent
    <3>3. QED BY <3>1, <3>2
  <2>4. jobState[j] = "completed" <=> s = "completed"
    BY <1>2 DEF UpdateJob, JobTransitions
  <2>5. PublicationOK(j)' BY <1>2, <2>4 DEF UpdateJob, JobInv, PublicationOK
  <2>6. QED BY <2>1, <2>2, <2>3, <2>5 DEF JobInv
<1>3. CASE RequestStop(j)
  BY <1>2, <1>3 DEF RequestStop, JobStates
<1>4. CASE ClearStop(j)
  BY <1>2, <1>4 DEF ClearStop, JobStates
<1>5. CASE RetryFailedTasks(j)
  <2>1. RowsOK(j)' BY <1>5, RowsMeaningNext DEF RetryFailedTasks
  <2>2. AttemptsOK(j)' BY <1>5 DEF RetryFailedTasks, JobInv, AttemptsOK
  <2>3. ActiveOK(j)'
    BY <1>5, MovedTasksInflight DEF RetryFailedTasks, TaskStates, InflightTaskStates
  <2>4. PublicationOK(j)' BY <1>5 DEF RetryFailedTasks, JobInv, PublicationOK
  <2>5. QED BY <2>1, <2>2, <2>3, <2>4 DEF JobInv
<1>6. CASE PrepareResume(j)
  <2>1. RowsOK(j)' BY <1>6, RowsMeaningNext DEF PrepareResume
  <2>2. AttemptsOK(j)'
    BY <1>6, ClosedAttemptsOK DEF PrepareResume, JobInv, AttemptStates
  <2>3. ActiveOK(j)'
    BY <1>6, MovedTasksInflight DEF PrepareResume, TaskStates, InflightTaskStates
  <2>4. PublicationOK(j)' BY <1>6 DEF PrepareResume, JobInv, PublicationOK
  <2>5. QED BY <2>1, <2>2, <2>3, <2>4 DEF JobInv
<1>7. ASSUME NEW s \in {"pending", "failed", "stopped"}, NEW as \in {"cancelled", "failed"},
             SettleInflight(j, s, as)
      PROVE  JobInv(j)'
  <2>1. RowsOK(j)' BY <1>7, RowsMeaningNext DEF SettleInflight
  <2>2. AttemptsOK(j)'
    BY <1>7, ClosedAttemptsOK DEF SettleInflight, JobInv, AttemptStates
  <2>3. ActiveOK(j)'
    BY <1>7, MovedTasksInflight DEF SettleInflight, TaskStates, InflightTaskStates
  <2>4. PublicationOK(j)' BY <1>7 DEF SettleInflight, JobInv, PublicationOK
  <2>5. QED BY <2>1, <2>2, <2>3, <2>4 DEF JobInv
<1>8. QED BY <1>1, <1>2, <1>3, <1>4, <1>5, <1>6, <1>7 DEF JobStep

LEMMA TaskStepInv ==
  ASSUME TypeOK, NEW j \in Jobs, JobInv(j), TaskStep(j)
  PROVE  JobInv(j)'
<1> USE DEF TypeOK, jobVars, ledgerVars, graphVars
<1>1. ASSUME NEW new \in SUBSET Tasks, AddTasks(j, new) PROVE JobInv(j)'
  <2>1. RowsOK(j)' BY <1>1, RowsMeaningNext DEF AddTasks
  <2>2. AttemptsOK(j)' BY <1>1 DEF AddTasks, JobInv, AttemptsOK
  <2>3. ActiveOK(j)'
    BY <1>1 DEF AddTasks, JobInv, ActiveOK, Active, InflightTaskStates
  <2>4. PublicationOK(j)' BY <1>1 DEF AddTasks, JobInv, PublicationOK
  <2>5. QED BY <2>1, <2>2, <2>3, <2>4 DEF JobInv
<1>2. ASSUME NEW t \in Tasks, NEW s \in TaskStates, UpdateTask(j, t, s) PROVE JobInv(j)'
  <2>1. RowsOK(j)' BY <1>2, RowsMeaningNext DEF UpdateTask
  <2>2. AttemptsOK(j)' BY <1>2 DEF UpdateTask, JobInv, AttemptsOK
  <2>3. ActiveOK(j)'
    BY <1>2, <2>1 DEF UpdateTask, ActivatedJobState, JobInv, ActiveOK, RowsOK, Active,
                Exists, JobStates, InflightTaskStates, Absent
  <2>4. PublicationOK(j)'
    BY <1>2 DEF UpdateTask, ActivatedJobState, JobInv, PublicationOK
  <2>5. QED BY <2>1, <2>2, <2>3, <2>4 DEF JobInv
<1>3. ASSUME NEW t \in Tasks, NEW n \in Numbers, StartAttempt(j, t, n) PROVE JobInv(j)'
  <2>1. RowsOK(j)' BY <1>3, RowsMeaningNext DEF StartAttempt
  <2>2. AttemptsOK(j)'
    BY <1>3 DEF StartAttempt, MayStart, HasRunningAttempt, JobInv, AttemptsOK
  <2>3. ActiveOK(j)' BY <1>3 DEF StartAttempt, JobInv, ActiveOK, Active
  <2>4. PublicationOK(j)' BY <1>3 DEF StartAttempt, JobInv, PublicationOK
  <2>5. QED BY <2>1, <2>2, <2>3, <2>4 DEF JobInv
<1>4. ASSUME NEW t \in Tasks, NEW n \in Numbers, NEW s \in AttemptStates,
             FinishAttempt(j, t, n, s)
      PROVE  JobInv(j)'
  <2>1. RowsOK(j)' BY <1>4, RowsMeaningNext DEF FinishAttempt
  <2>2. AttemptsOK(j)' BY <1>4 DEF FinishAttempt, JobInv, AttemptsOK
  <2>3. ActiveOK(j)' BY <1>4 DEF FinishAttempt, JobInv, ActiveOK, Active
  <2>4. PublicationOK(j)' BY <1>4 DEF FinishAttempt, JobInv, PublicationOK
  <2>5. QED BY <2>1, <2>2, <2>3, <2>4 DEF JobInv
<1>5. QED BY <1>1, <1>2, <1>3, <1>4 DEF TaskStep

LEMMA LedgerStepInv ==
  ASSUME TypeOK, NEW j \in Jobs, JobInv(j), LedgerStep(j)
  PROVE  JobInv(j)'
<1> USE DEF TypeOK, jobVars, ledgerVars, graphVars
<1>1. ASSUME NEW d \in Dossiers, StageDossier(j, d) PROVE JobInv(j)'
  <2>1. RowsOK(j)'
    BY <1>1 DEF StageDossier, JobInv, RowsOK, Active, HasRunningAttempt
  <2>2. AttemptsOK(j)' BY <1>1 DEF StageDossier, JobInv, AttemptsOK
  <2>3. ActiveOK(j)' BY <1>1 DEF StageDossier, JobInv, ActiveOK, Active
  <2>4. PublicationOK(j)'
    BY <1>1 DEF StageDossier, MayStage, JobInv, PublicationOK
  <2>5. QED BY <2>1, <2>2, <2>3, <2>4 DEF JobInv
<1>2. ASSUME NEW c \in Commits, NEW i \in Intents, NEW d \in Dossiers,
             PrepareAcceptedJob(j, c, i, d)
      PROVE  JobInv(j)'
  <2>1. RowsOK(j)' BY <1>2, RowsMeaningNext DEF PrepareAcceptedJob
  <2>2. AttemptsOK(j)' BY <1>2 DEF PrepareAcceptedJob, JobInv, AttemptsOK
  <2>3. ActiveOK(j)' BY <1>2 DEF PrepareAcceptedJob, JobInv, ActiveOK, Active
  <2>4. PublicationOK(j)'
    BY <1>2 DEF PrepareAcceptedJob, JobInv, PublicationOK
  <2>5. QED BY <2>1, <2>2, <2>3, <2>4 DEF JobInv
<1>3. ASSUME NEW c \in Commits, MarkApplyStarted(j, c) PROVE JobInv(j)'
  <2>1. RowsOK(j)' BY <1>3, RowsMeaningNext DEF MarkApplyStarted
  <2>2. AttemptsOK(j)' BY <1>3 DEF MarkApplyStarted, JobInv, AttemptsOK
  <2>3. ActiveOK(j)' BY <1>3 DEF MarkApplyStarted, JobInv, ActiveOK, Active
  <2>4. PublicationOK(j)'
    BY <1>3 DEF MarkApplyStarted, JobInv, PublicationOK
  <2>5. QED BY <2>1, <2>2, <2>3, <2>4 DEF JobInv
<1>4. ASSUME NEW d \in Dossiers, NEW o \in Outcomes, PublishCompletedJob(j, d, o)
      PROVE  JobInv(j)'
  <2>1. RowsOK(j)' BY <1>4, RowsMeaningNext DEF PublishCompletedJob
  <2>2. AttemptsOK(j)' BY <1>4 DEF PublishCompletedJob, JobInv, AttemptsOK
  <2>3. ActiveOK(j)'
    BY <1>4, <2>1 DEF PublishCompletedJob, ActiveOK, RowsOK, InflightTaskStates, Absent
  <2>4. PublicationOK(j)'
    BY <1>4 DEF PublishCompletedJob, PublishedRows, OutcomeFits, JobInv, PublicationOK,
                RowsOK, Outcomes, NoOutcome
  <2>5. QED BY <2>1, <2>2, <2>3, <2>4 DEF JobInv
<1>5. QED BY <1>1, <1>2, <1>3, <1>4 DEF LedgerStep

\* Recovery validates the interrupted jobs and leaves the others alone.
LEMMA RecoverInv ==
  ASSUME TypeOK, NEW j \in Jobs, JobInv(j), RecoverIncomplete
  PROVE  JobInv(j)'
<1> USE DEF TypeOK, jobVars, ledgerVars, graphVars
<1>1. CASE ~Incomplete(j)
  <2>1. SameRow(j)
    BY <1>1 DEF RecoverIncomplete, RecoveredState, RecoveredStop, RecoveredTasks,
                RecoveredAttempts, RecoversAccepted, RecoversActive, RecoversStopped,
                RecoversOrdinary, SameRow
  <2>2. QED BY <2>1, SameRowKeeps
<1>2. CASE Incomplete(j)
  <2>1. RowsOK(j)' BY <1>2, RowsMeaningNext DEF RecoverIncomplete
  <2>2. AttemptsOK(j)'
    <3>1. attemptState'[j] \in {attemptState[j], ClosedAttempts(j, "cancelled")}
      BY DEF RecoverIncomplete, RecoveredAttempts
    <3>2. QED BY <3>1, ClosedAttemptsOK DEF JobInv, AttemptsOK, AttemptStates
  <2>3. ActiveOK(j)'
    <3>1. CASE RecoversAccepted(j)
      <4>1. jobState'[j] = jobState[j]
        BY <3>1 DEF RecoverIncomplete, RecoveredState, RecoversActive, RecoversStopped,
                    RecoversOrdinary
      <4>2. Active(j)
        BY <3>1 DEF RecoversAccepted, JobInv, RowsOK
      <4>3. QED BY <4>1, <4>2 DEF ActiveOK, Active
    <3>2. CASE ~RecoversAccepted(j)
      <4>1. \E to \in {"pending", "stopped"} :
              taskState'[j] = MovedTasks(j, InflightTaskStates, to)
        BY <1>2, <3>2 DEF RecoverIncomplete, RecoveredTasks, RecoversActive,
                          RecoversStopped, RecoversOrdinary
      <4>2. QED BY <4>1, MovedTasksInflight DEF TaskStates, InflightTaskStates
    <3>3. QED BY <3>1, <3>2
  <2>4. PublicationOK(j)'
    <3>1. jobState[j] # "completed"
      BY <1>2 DEF Incomplete, TerminalJobStates
    <3>2. jobState'[j] # "completed"
      BY <3>1 DEF RecoverIncomplete, RecoveredState
    <3>3. QED BY <3>1, <3>2 DEF RecoverIncomplete, JobInv, PublicationOK
  <2>5. QED BY <2>1, <2>2, <2>3, <2>4 DEF JobInv
<1>3. QED BY <1>1, <1>2

-----------------------------------------------------------------------------
(* The invariant of the store and the safety properties it implies.         *)

StoreInv == TypeOK /\ \A j \in Jobs : JobInv(j)

\* Every transaction, of any job, and every recovery keeps the invariant.
LEMMA StoreInvStep == StoreInv /\ [Next]_vars => StoreInv'
<1> SUFFICES ASSUME StoreInv, [Next]_vars PROVE StoreInv'
  OBVIOUS
<1>1. TypeOK /\ TypeOK'
  BY TypeStep DEF StoreInv
<1>2. ASSUME NEW k \in Jobs PROVE JobInv(k)'
  <2>1. JobInv(k)
    BY DEF StoreInv
  <2>2. CASE RecoverIncomplete
    BY <1>1, <2>1, <2>2, RecoverInv
  <2>3. ASSUME NEW j \in Jobs, JobStep(j) \/ TaskStep(j) \/ LedgerStep(j)
        PROVE  JobInv(k)'
    <3>1. CASE k = j
      BY <1>1, <2>1, <2>3, <3>1, JobStepInv, TaskStepInv, LedgerStepInv
    <3>2. CASE k # j
      BY <1>1, <2>1, <2>3, <3>2, OthersKept, SameRowKeeps
    <3>3. QED BY <3>1, <3>2
  <2>4. CASE UNCHANGED vars
    <3>1. SameRow(k)
      BY <2>4 DEF vars, jobVars, ledgerVars, graphVars, SameRow
    <3>2. QED BY <2>1, <3>1, SameRowKeeps
  <2>5. QED BY <2>2, <2>3, <2>4 DEF Next
<1>3. QED BY <1>1, <1>2 DEF StoreInv

LEMMA StoreInvInit == Init => StoreInv
<1>1. Init => TypeOK
  BY DEF Init, TypeOK, Absent, AcceptancePhases, Intents, NoOutcome
<1>2. Init => \A j \in Jobs : JobInv(j)
  BY DEF Init, JobInv, RowsOK, AttemptsOK, ActiveOK, PublicationOK, Active,
         HasRunningAttempt, InflightTaskStates, Absent, NoOutcome
<1>3. QED BY <1>1, <1>2 DEF StoreInv

LEMMA StoreInvHolds == Spec => []StoreInv
BY StoreInvInit, StoreInvStep, PTL DEF Spec

\* Work is in flight only while the job is running or stopping: the validator
\* plus the activation in update_task (db.py:140) suffice, for any plan.
THEOREM WorkOnlyWhileActiveHolds == Spec => []WorkOnlyWhileActive
<1>1. StoreInv => WorkOnlyWhileActive
  BY DEF StoreInv, JobInv, RowsOK, ActiveOK, Active, WorkOnlyWhileActive, Inflight, HasRunning
<1>2. QED BY <1>1, StoreInvHolds, PTL

\* No task ever has two running attempts, and the owner of one is in flight
\* (start_attempt, db.py:186, and the bulk updates of db_recovery.py).
THEOREM OneRunningAttemptHolds == Spec => []OneRunningAttempt
<1>1. StoreInv => OneRunningAttempt
  BY DEF StoreInv, JobInv, RowsOK, AttemptsOK, OneRunningAttempt
<1>2. QED BY <1>1, StoreInvHolds, PTL

\* Completed, published and outcome always agree (publish_completed_job,
\* db_provenance.py:400).
THEOREM PublicationAgreesHolds == Spec => []PublicationAgrees
<1>1. StoreInv => PublicationAgrees
  BY DEF StoreInv, JobInv, PublicationOK, PublicationAgrees
<1>2. QED BY <1>1, StoreInvHolds, PTL

\* Whatever a crash leaves behind, the recovery transaction succeeds
\* (recover_incomplete, db_recovery.py:177).
THEOREM RecoveryIsTotalHolds == Spec => []RecoveryIsTotal
<1>1. ASSUME StoreInv, NEW j \in Jobs, Incomplete(j)
      PROVE  /\ RecoveryChecks(j)
             /\ SnapshotValid(
                  RecoveredState(j),
                  {RecoveredTasks(j)[t] : t \in {u \in Tasks : taskState[j][u] # Absent}},
                  RecoveredStop(j),
                  {RecoveredTasks(j)[t] :
                     t \in {u \in Tasks : \E n \in Numbers : RecoveredAttempts(j)[u][n] = "running"}},
                  phase[j])
  <2>1. JobInv(j) /\ jobState[j] \in {"queued", "planning", "running", "stopping"}
    BY <1>1 DEF StoreInv, TypeOK, Incomplete, Exists, JobStates, TerminalJobStates
  <2>2. phase[j] \in {"none", "accepted", "applying"}
    BY <1>1, <2>1 DEF StoreInv, TypeOK, AcceptancePhases, JobInv, RowsOK
  <2>3. RecoveryChecks(j)
    <3>1. /\ "queued" \in JobTransitions["queued"] /\ "queued" \in JobTransitions["planning"]
          /\ "queued" \in JobTransitions["running"] /\ "queued" \in JobTransitions["stopping"]
          /\ "stopping" \in JobTransitions["queued"] /\ "stopping" \in JobTransitions["planning"]
          /\ "stopping" \in JobTransitions["running"] /\ "stopped" \in JobTransitions["stopping"]
      BY DEF JobTransitions
    <3>2. QED
      BY <2>1, <3>1 DEF RecoveryChecks, RecoversAccepted, JobInv, RowsOK, Active
  <2>4. CASE RecoversAccepted(j)
    <3>1. /\ RecoveredState(j) = jobState[j] /\ RecoveredTasks(j) = taskState[j]
          /\ RecoveredAttempts(j) = attemptState[j] /\ RecoveredStop(j) = FALSE
      BY <2>4 DEF RecoveredState, RecoveredTasks, RecoveredAttempts, RecoveredStop,
                  RecoversActive, RecoversStopped, RecoversOrdinary
    <3>2. Active(j) /\ \A t \in Tasks : /\ taskState[j][t] \in {Absent, "completed"}
                                        /\ ~HasRunningAttempt(j, t)
      BY <2>1, <2>4 DEF RecoversAccepted, JobInv, RowsOK
    <3>3. QED BY <2>2, <2>3, <2>4, <3>1, <3>2 DEF SnapshotValid, Active, HasRunningAttempt,
                                                RecoversAccepted
  <2>5. CASE ~RecoversAccepted(j)
    <3>1. phase[j] = "none" /\ RecoversOrdinary(j)
      BY <1>1, <2>2, <2>5 DEF RecoversAccepted, RecoversOrdinary
    <3>2. ~ \E t \in Tasks, n \in Numbers : RecoveredAttempts(j)[t][n] = "running"
      BY <3>1 DEF RecoveredAttempts, ClosedAttempts
    <3>3. \A t \in Tasks : RecoveredTasks(j)[t] \notin InflightTaskStates
      BY <3>1 DEF RecoveredTasks, RecoversStopped, MovedTasks, InflightTaskStates
    <3>4. \/ RecoveredState(j) = "queued"
          \/ RecoveredState(j) = "stopped" /\ RecoveredStop(j)
      BY <3>1 DEF RecoveredState, RecoveredStop, RecoversStopped, RecoversAccepted
    <3>5. QED BY <2>3, <3>1, <3>2, <3>3, <3>4 DEF SnapshotValid
  <2>6. QED BY <2>4, <2>5
<1>2. StoreInv => RecoveryIsTotal
  BY <1>1 DEF RecoveryIsTotal
<1>3. QED BY <1>2, StoreInvHolds, PTL

-----------------------------------------------------------------------------
(* Action properties and the refinement of the acceptance ledger.           *)

\* What acceptance freezes of one job.
FrozenRow(k) ==
  /\ acceptedCommit'[k] = acceptedCommit[k] /\ intent'[k] = intent[k]
  /\ dossier'[k] = dossier[k] /\ autoApply'[k] = autoApply[k]
  /\ taskState'[k] = taskState[k] /\ attemptState'[k] = attemptState[k]
  /\ phase[k] = "published" =>
       /\ jobState'[k] = jobState[k] /\ stopRequested'[k] = stopRequested[k]
       /\ outcome'[k] = outcome[k] /\ phase'[k] = phase[k]

\* No step about a job changes what its acceptance froze.
LEMMA FrozenStep ==
  ASSUME TypeOK, TypeOK', NEW k \in Jobs, JobInv(k), JobInv(k)', phase[k] # "none", [Next]_vars
  PROVE  FrozenRow(k)
<1> USE DEF TypeOK, jobVars, ledgerVars, graphVars
<1>1. CASE RecoverIncomplete
  <2>1. ~RecoversOrdinary(k) /\ (Incomplete(k) => RecoversAccepted(k))
    BY DEF RecoversOrdinary, RecoversAccepted, Incomplete, TerminalJobStates, JobInv, RowsOK,
           AcceptancePhases
  <2>2. QED
    BY <1>1, <2>1 DEF RecoverIncomplete, RecoveredState, RecoveredStop, RecoveredTasks,
                RecoveredAttempts, RecoversActive, RecoversStopped, RecoversAccepted,
                FrozenRow
<1>2. ASSUME NEW j \in Jobs, j # k, JobStep(j) \/ TaskStep(j) \/ LedgerStep(j)
      PROVE  FrozenRow(k)
  BY <1>2, OthersKept DEF SameRow, FrozenRow
<1>3. ASSUME NEW s \in JobStates, NEW stop \in BOOLEAN, NEW auto \in BOOLEAN,
             UpdateJob(k, s, stop, auto)
      PROVE  FrozenRow(k)
  <2>1. phase'[k] = phase[k] /\ outcome'[k] = outcome[k]
    BY <1>3 DEF UpdateJob
  <2>2. ASSUME phase[k] = "published"
        PROVE  jobState'[k] = jobState[k] /\ stopRequested'[k] = stopRequested[k]
    <3>1. jobState[k] = "completed" /\ ~stopRequested[k]
      BY <2>2 DEF JobInv, RowsOK
    <3>2. jobState'[k] = "completed" /\ ~stopRequested'[k]
      BY <2>1, <2>2 DEF JobInv, RowsOK
    <3>3. QED BY <3>1, <3>2
  <2>3. QED BY <1>3, <2>1, <2>2 DEF UpdateJob, Frozen, FrozenRow
<1>4. CASE JobStep(k)
  <2>1. ~CreateJob(k, TRUE) /\ ~CreateJob(k, FALSE)
    BY DEF CreateJob, Exists, JobInv, RowsOK, Active, Absent, AcceptancePhases
  <2>2. ASSUME RequestStop(k) \/ ClearStop(k) PROVE FrozenRow(k)
    BY <1>3, <2>2 DEF RequestStop, ClearStop, JobStates
  <2>3. QED BY <1>3, <1>4, <2>1, <2>2 DEF JobStep, RetryFailedTasks, PrepareResume,
                                          SettleInflight
<1>5. CASE TaskStep(k)
  <2>1. ASSUME NEW t \in Tasks, NEW n \in Numbers, NEW s \in AttemptStates,
               FinishAttempt(k, t, n, s)
        PROVE  FALSE
    BY <2>1 DEF FinishAttempt, JobInv, RowsOK, HasRunningAttempt
  <2>2. QED BY <1>5, <2>1 DEF TaskStep, AddTasks, UpdateTask, StartAttempt, MayStart
<1>6. CASE LedgerStep(k)
  <2>1. ASSUME NEW d \in Dossiers, NEW o \in Outcomes, PublishCompletedJob(k, d, o)
        PROVE  FrozenRow(k)
    BY <2>1 DEF PublishCompletedJob, FrozenRow, JobInv, RowsOK
  <2>2. ASSUME NEW c \in Commits, MarkApplyStarted(k, c) PROVE FrozenRow(k)
    BY <2>2 DEF MarkApplyStarted, FrozenRow
  <2>3. QED BY <1>6, <2>1, <2>2 DEF LedgerStep, StageDossier, MayStage, PrepareAcceptedJob
<1>7. CASE UNCHANGED vars
  BY <1>7 DEF vars, FrozenRow
<1>8. QED BY <1>1, <1>2, <1>4, <1>5, <1>6, <1>7 DEF Next

\* Acceptance freezes the decision, the metadata, the tasks and the attempts of a
\* job, and publication everything else (db.py:75, db_provenance.py:127).
THEOREM AcceptanceIsFrozenHolds == Spec => AcceptanceIsFrozen
<1>1. ASSUME StoreInv, StoreInv', [Next]_vars
      PROVE  [\A j \in Jobs : phase[j] # "none" =>
               /\ UNCHANGED <<acceptedCommit[j], intent[j], dossier[j], autoApply[j]>>
               /\ UNCHANGED <<taskState[j], attemptState[j]>>
               /\ phase[j] = "published" =>
                    UNCHANGED <<jobState[j], stopRequested[j], outcome[j], phase[j]>>]_vars
  BY <1>1, FrozenStep DEF StoreInv, FrozenRow
<1>2. QED BY <1>1, StoreInvHolds, PTL DEF Spec, AcceptanceIsFrozen

\* What no step takes back of one task.
KeptTask(k, t) ==
  /\ taskState[k][t] = "completed" => taskState'[k][t] = "completed"
  /\ taskState[k][t] # Absent => taskState'[k][t] # Absent
  /\ \A n \in Numbers : attemptState[k][t][n] \notin {Absent, "running"} =>
       attemptState'[k][t][n] = attemptState[k][t][n]

LEMMA KeptStep ==
  ASSUME TypeOK, NEW k \in Jobs, NEW t \in Tasks, [Next]_vars
  PROVE  KeptTask(k, t)
<1> USE DEF TypeOK, jobVars, ledgerVars, graphVars, KeptTask
<1>a. \A as, n \in Numbers : ClosedAttempts(k, as)[t][n] =
        IF attemptState[k][t][n] = "running" THEN as ELSE attemptState[k][t][n]
  BY DEF ClosedAttempts
<1>b. \A to : \A from \in {InflightTaskStates, Retryable} :
        /\ taskState[k][t] = "completed" => MovedTasks(k, from, to)[t] = "completed"
        /\ taskState[k][t] # Absent /\ to # Absent => MovedTasks(k, from, to)[t] # Absent
  BY DEF MovedTasks, InflightTaskStates, Retryable
<1>1. CASE RecoverIncomplete
  BY <1>1, <1>b DEF RecoverIncomplete, RecoveredTasks, RecoveredAttempts, ClosedAttempts, Absent
<1>2. ASSUME NEW j \in Jobs, j # k, JobStep(j) \/ TaskStep(j) \/ LedgerStep(j)
      PROVE  KeptTask(k, t)
  BY <1>2, OthersKept DEF SameRow
<1>3. CASE JobStep(k)
  <2>1. CASE RetryFailedTasks(k)
    BY <2>1, <1>b DEF RetryFailedTasks, Absent
  <2>2. CASE PrepareResume(k)
    BY <2>2, <1>b DEF PrepareResume, ClosedAttempts, Absent
  <2>3. ASSUME NEW s \in {"pending", "failed", "stopped"}, NEW as, SettleInflight(k, s, as)
        PROVE  KeptTask(k, t)
    BY <2>3, <1>b DEF SettleInflight, ClosedAttempts, Absent
  <2>4. QED BY <1>3, <2>1, <2>2, <2>3 DEF JobStep, CreateJob, UpdateJob, RequestStop, ClearStop
<1>4. CASE TaskStep(k)
  <2>1. ASSUME NEW u \in Tasks, NEW s \in TaskStates, UpdateTask(k, u, s)
        PROVE  KeptTask(k, t)
    <3>1. TaskTransitions["completed"] = {"completed"}
      BY DEF TaskTransitions
    <3>2. QED BY <2>1, <3>1 DEF UpdateTask, TaskStates, Absent
  <2>2. ASSUME NEW new \in SUBSET Tasks, AddTasks(k, new) PROVE KeptTask(k, t)
    BY <2>2 DEF AddTasks, Absent
  <2>3. ASSUME NEW u \in Tasks, NEW n \in Numbers, StartAttempt(k, u, n)
        PROVE  KeptTask(k, t)
    BY <2>3 DEF StartAttempt, MayStart
  <2>4. ASSUME NEW u \in Tasks, NEW n \in Numbers, NEW s \in AttemptStates,
               FinishAttempt(k, u, n, s)
        PROVE  KeptTask(k, t)
    BY <2>4 DEF FinishAttempt
  <2>5. QED BY <1>4, <2>1, <2>2, <2>3, <2>4 DEF TaskStep
<1>5. CASE LedgerStep(k)
  BY <1>5 DEF LedgerStep, StageDossier, PrepareAcceptedJob, MarkApplyStarted,
              PublishCompletedJob
<1>6. CASE UNCHANGED vars
  BY <1>6 DEF vars
<1>7. QED BY <1>1, <1>2, <1>3, <1>4, <1>5, <1>6 DEF Next

\* A job that has been created stays, and so does an acceptance.
KeptJob(k) ==
  /\ jobState[k] # Absent => jobState'[k] # Absent
  /\ phase[k] # "none" => phase'[k] # "none"

LEMMA JobKept ==
  ASSUME TypeOK, NEW k \in Jobs, [Next]_vars
  PROVE  KeptJob(k)
<1> USE DEF TypeOK, jobVars, ledgerVars, graphVars, KeptJob
<1>1. CASE RecoverIncomplete
  BY <1>1 DEF RecoverIncomplete, RecoveredState, Absent
<1>2. ASSUME NEW j \in Jobs, j # k, JobStep(j) \/ TaskStep(j) \/ LedgerStep(j)
      PROVE  KeptJob(k)
  BY <1>2, OthersKept DEF SameRow
<1>3. CASE JobStep(k)
  BY <1>3 DEF JobStep, CreateJob, UpdateJob, RequestStop, ClearStop, SettleInflight, PrepareResume,
              RetryFailedTasks, JobStates, Absent
<1>4. CASE TaskStep(k)
  BY <1>4 DEF TaskStep, AddTasks, UpdateTask, ActivatedJobState, StartAttempt, FinishAttempt, Absent
<1>5. CASE LedgerStep(k)
  BY <1>5 DEF LedgerStep, StageDossier, PrepareAcceptedJob, MarkApplyStarted, PublishCompletedJob, Absent
<1>6. CASE UNCHANGED vars
  BY <1>6 DEF vars
<1>7. QED BY <1>1, <1>2, <1>3, <1>4, <1>5, <1>6 DEF Next

\* Finished tasks and finished attempts stay as they are through every bulk
\* update (db_recovery.py).
THEOREM HistoryIsKeptHolds == Spec => HistoryIsKept
<1>1. ASSUME StoreInv, [Next]_vars
      PROVE  [\A j \in Jobs, t \in Tasks :
                /\ taskState[j][t] = "completed" => taskState'[j][t] = "completed"
                /\ \A n \in Numbers : attemptState[j][t][n] \notin {Absent, "running"} =>
                     attemptState'[j][t][n] = attemptState[j][t][n]]_vars
  BY <1>1, KeptStep DEF StoreInv, KeptTask
<1>2. QED BY <1>1, StoreInvHolds, PTL DEF Spec, HistoryIsKept

-----------------------------------------------------------------------------
\* A job of the ledger, as the journal's columns represent it.
SameEntry(k) ==
  /\ phase'[k] = "none" <=> phase[k] = "none"
  /\ phase'[k] = "published" <=> phase[k] = "published"
  /\ phase[k] # "none" => /\ acceptedCommit'[k] = acceptedCommit[k]
                          /\ intent'[k] = intent[k] /\ dossier'[k] = dossier[k]
  /\ phase[k] = "published" => outcome'[k] = outcome[k]

\* Every transaction but acceptance and publication is a stutter of the ledger.
LEMMA EntryStep ==
  ASSUME TypeOK, NEW j \in Jobs, NEW k \in Jobs,
         \/ k # j /\ (JobStep(j) \/ TaskStep(j) \/ LedgerStep(j))
         \/ k = j /\ (JobStep(j) \/ TaskStep(j))
         \/ k = j /\ \E d \in Dossiers : StageDossier(j, d)
         \/ k = j /\ \E c \in Commits : MarkApplyStarted(j, c)
         \/ RecoverIncomplete
         \/ UNCHANGED vars
  PROVE  SameEntry(k)
<1> USE DEF TypeOK, jobVars, ledgerVars, graphVars, SameEntry
<1>1. CASE k # j /\ (JobStep(j) \/ TaskStep(j) \/ LedgerStep(j))
  BY <1>1, OthersKept DEF SameRow
<1>2. CASE k = j /\ JobStep(j)
  BY <1>2 DEF JobStep, CreateJob, UpdateJob, RequestStop, ClearStop, RetryFailedTasks,
              PrepareResume, SettleInflight
<1>3. CASE k = j /\ TaskStep(j)
  BY <1>3 DEF TaskStep, AddTasks, UpdateTask, StartAttempt, FinishAttempt
<1>4. CASE k = j /\ \E d \in Dossiers : StageDossier(j, d)
  BY <1>4 DEF StageDossier, MayStage
<1>5. CASE k = j /\ \E c \in Commits : MarkApplyStarted(j, c)
  BY <1>5 DEF MarkApplyStarted
<1>6. CASE RecoverIncomplete
  BY <1>6 DEF RecoverIncomplete
<1>7. CASE UNCHANGED vars
  BY <1>7 DEF vars
<1>8. QED BY <1>1, <1>2, <1>3, <1>4, <1>5, <1>6, <1>7

\* A step that keeps every entry keeps the ledger.
LEMMA LedgerStutters ==
  ASSUME \A k \in Jobs : SameEntry(k)
  PROVE  Decision' = Decision /\ Result' = Result
<1>1. \A k \in Jobs :
        /\ (IF phase[k] = "none" THEN NoCommit ELSE <<acceptedCommit[k], intent[k], dossier[k]>>)'
             = (IF phase[k] = "none" THEN NoCommit
                ELSE <<acceptedCommit[k], intent[k], dossier[k]>>)
        /\ (IF phase[k] = "published" THEN outcome[k] ELSE NoDossier)'
             = (IF phase[k] = "published" THEN outcome[k] ELSE NoDossier)
  BY DEF SameEntry
<1>2. QED BY <1>1 DEF Decision, Result

\* Accepting a job is the ledger's decision.
LEMMA AcceptDecides ==
  ASSUME TypeOK, NEW j \in Jobs, NEW c \in Commits, NEW i \in Intents, NEW d \in Dossiers,
         PrepareAcceptedJob(j, c, i, d), \A k \in Jobs \ {j} : SameEntry(k)
  PROVE  Ledger!Decide(j)
<1> USE DEF TypeOK
<1>1. Decision[j] = NoCommit
  BY DEF PrepareAcceptedJob, Decision
<1>2. Decision' = [Decision EXCEPT ![j] = <<c, i, d>>]
  <2>1. \A k \in Jobs :
          (IF phase[k] = "none" THEN NoCommit ELSE <<acceptedCommit[k], intent[k], dossier[k]>>)'
            = IF k = j THEN <<c, i, d>> ELSE Decision[k]
    BY DEF PrepareAcceptedJob, SameEntry, Decision
  <2>2. QED BY <2>1 DEF Decision
<1>3. Result' = Result
  <2>1. \A k \in Jobs :
          (IF phase[k] = "published" THEN outcome[k] ELSE NoDossier)'
            = (IF phase[k] = "published" THEN outcome[k] ELSE NoDossier)
    BY DEF PrepareAcceptedJob, SameEntry
  <2>2. QED BY <2>1 DEF Result
<1>4. QED BY <1>1, <1>2, <1>3 DEF Ledger!Decide, Intents

\* Publishing a job is the ledger's publication, and its outcome answers the intent.
LEMMA PublishPublishes ==
  ASSUME TypeOK, NEW j \in Jobs, JobInv(j), NEW d \in Dossiers, NEW o \in Outcomes,
         PublishCompletedJob(j, d, o), \A k \in Jobs \ {j} : SameEntry(k)
  PROVE  Ledger!Publish(j)
<1> USE DEF TypeOK
<1>1. phase[j] \in {"accepted", "applying"} /\ acceptedCommit[j] \in Commits
      /\ dossier[j] \in Dossiers /\ intent[j] \in Intents
  BY DEF PublishCompletedJob, OutcomeFits, JobInv, PublicationOK
<1>2. Decision[j] = <<acceptedCommit[j], intent[j], dossier[j]>> /\ Decision[j] # NoCommit
  BY <1>1, LedgerAssumption DEF Decision
<1>3. Result[j] = NoDossier
  BY <1>1 DEF Result
<1>4. Ledger!Answers(Decision[j][2], o)
  BY <1>2 DEF PublishCompletedJob, OutcomeFits, Ledger!Answers
<1>5. Result' = [Result EXCEPT ![j] = o]
  <2>1. \A k \in Jobs :
          (IF phase[k] = "published" THEN outcome[k] ELSE NoDossier)'
            = IF k = j THEN o ELSE Result[k]
    BY DEF PublishCompletedJob, SameEntry, Result
  <2>2. QED BY <2>1 DEF Result
<1>6. Decision' = Decision
  <2>1. \A k \in Jobs :
          (IF phase[k] = "none" THEN NoCommit ELSE <<acceptedCommit[k], intent[k], dossier[k]>>)'
            = (IF phase[k] = "none" THEN NoCommit
               ELSE <<acceptedCommit[k], intent[k], dossier[k]>>)
    BY <1>1 DEF PublishCompletedJob, SameEntry
  <2>2. QED BY <2>1 DEF Decision
<1>7. QED BY <1>2, <1>3, <1>4, <1>5, <1>6 DEF Ledger!Publish, Outcomes

\* The store implements the write-once ledger: acceptance is a decision,
\* publication a publication, and everything else, restarts included, a stutter.
THEOREM StoreImplementsLedger == Spec => ImplementsLedger
<1>1. Init => Ledger!Init
  BY DEF Init, Ledger!Init, Decision, Result
<1>2. ASSUME StoreInv, [Next]_vars PROVE [Ledger!Next]_(Ledger!vars)
  <2>0. TypeOK /\ \A j \in Jobs : JobInv(j)
    BY <1>2 DEF StoreInv
  <2>1. CASE RecoverIncomplete \/ UNCHANGED vars
    BY <2>0, <2>1, EntryStep, LedgerStutters DEF Ledger!vars
  <2>2. ASSUME NEW j \in Jobs, JobStep(j) \/ TaskStep(j) \/ LedgerStep(j)
        PROVE  [Ledger!Next]_(Ledger!vars)
    <3>1. \A k \in Jobs \ {j} : SameEntry(k)
      BY <2>0, <2>2, EntryStep
    <3>2. CASE JobStep(j) \/ TaskStep(j)
      BY <2>0, <3>1, <3>2, EntryStep, LedgerStutters DEF Ledger!vars
    <3>3. ASSUME NEW d \in Dossiers, StageDossier(j, d) PROVE [Ledger!Next]_(Ledger!vars)
      BY <2>0, <3>1, <3>3, EntryStep, LedgerStutters DEF Ledger!vars
    <3>4. ASSUME NEW c \in Commits, MarkApplyStarted(j, c)
          PROVE  [Ledger!Next]_(Ledger!vars)
      BY <2>0, <3>1, <3>4, EntryStep, LedgerStutters DEF Ledger!vars
    <3>5. ASSUME NEW c \in Commits, NEW i \in Intents, NEW d \in Dossiers,
                 PrepareAcceptedJob(j, c, i, d)
          PROVE  [Ledger!Next]_(Ledger!vars)
      BY <2>0, <3>1, <3>5, AcceptDecides DEF Ledger!Next
    <3>6. ASSUME NEW d \in Dossiers, NEW o \in Outcomes, PublishCompletedJob(j, d, o)
          PROVE  [Ledger!Next]_(Ledger!vars)
      BY <2>0, <3>1, <3>6, PublishPublishes DEF Ledger!Next
    <3>7. QED BY <2>2, <3>2, <3>3, <3>4, <3>5, <3>6 DEF LedgerStep
  <2>3. QED BY <1>2, <2>1, <2>2 DEF Next
<1>3. QED BY <1>1, <1>2, StoreInvHolds, PTL DEF Spec, ImplementsLedger, Ledger!Spec
=============================================================================
