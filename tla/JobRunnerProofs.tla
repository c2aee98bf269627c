--------------------------- MODULE JobRunnerProofs ---------------------------
(***************************************************************************)
(* Proofs about the life of one job, for any plans, bounds and scenarios.  *)
(*                                                                         *)
(* The rows of the job are those of JobStore, whose transactions and       *)
(* invariant StoreInv are taken from JobStoreProofs through the instance   *)
(* Rows.  Base adds where the daemon, the runner and the coroutines may be *)
(* and how attempt numbers follow the budget; it is inductive by itself    *)
(* and gives the types and that the job is a caller of the store.  Over it *)
(* stand, each inductive over those before it: StopOK (a stop request is   *)
(* durable), DependOK (what has begun has its dependencies), PhaseOK (the  *)
(* runner and the phase of the acceptance), InnerOK (who is within a       *)
(* segment), and, where no stop interrupts the handler of an earlier one,  *)
(* Orderly: what rows and coroutines say of each other, and that nobody    *)
(* outlives the settling or the acceptance of the job.                     *)
(*                                                                         *)
(* The search of PlanValidation is proved exact for every finite graph, so *)
(* that PlanOK, the stored plan can be carried out, holds of every plan.   *)
(* With it HaltedOK, StaleOK and OwnedOK keep the scheduler from stalling, *)
(* whatever clients do.  Over both invariants, FinalOK and CloseOK give    *)
(* the exact condition of every call of the store where it is made.        *)
(***************************************************************************)
EXTENDS JobRunner, FiniteSetTheorems, WellFoundedInduction, TLAPS

Rows == INSTANCE JobStoreProofs WITH
          Jobs <- {Job}, Commits <- {"candidate"}, Dossiers <- {"dossier"},
          NoCommit <- None, NoDossier <- None

-----------------------------------------------------------------------------
(* The store of module JobRunner is the store the proofs of JobStore are    *)
(* about: each transaction is the same formula in both instances.           *)

\* The assumptions of JobStore hold of the values this module gives its constants.
LEMMA StoreAssumptions == Rows!NoneAssumption /\ Rows!LedgerAssumption
BY NoneAssumption DEF Rows!NoneAssumption, Rows!LedgerAssumption, Rows!Intents, Store!Intents,
  Rows!Outcomes, Store!Outcomes

\* The state machine's tables are the same in all three places.
LEMMA SameTables ==
  /\ Store!Absent = Absent /\ Rows!Absent = Absent
  /\ Store!JobStates = JobStates /\ Rows!JobStates = JobStates
  /\ Store!TaskStates = TaskStates /\ Rows!TaskStates = TaskStates
  /\ Store!AttemptStates = AttemptStates /\ Rows!AttemptStates = AttemptStates
  /\ Store!InflightTaskStates = InflightTaskStates /\ Rows!InflightTaskStates = InflightTaskStates
  /\ Store!TerminalJobStates = TerminalJobStates /\ Rows!TerminalJobStates = TerminalJobStates
  /\ Store!AcceptancePhases = AcceptancePhases /\ Rows!AcceptancePhases = AcceptancePhases
  /\ Store!JobTransitions = JobTransitions /\ Rows!JobTransitions = JobTransitions
  /\ Store!TaskTransitions = TaskTransitions /\ Rows!TaskTransitions = TaskTransitions
  /\ Store!AttemptTransitions = AttemptTransitions /\ Rows!AttemptTransitions = AttemptTransitions
  /\ Store!Intents = Rows!Intents /\ Store!Outcomes = Rows!Outcomes
  /\ Store!NoOutcome = Rows!NoOutcome
BY DEF Store!Absent, Rows!Absent, Absent, Store!JobStates, Rows!JobStates, JobStates,
  Store!TaskStates, Rows!TaskStates, TaskStates,
  Store!AttemptStates, Rows!AttemptStates, AttemptStates,
  Store!InflightTaskStates, Rows!InflightTaskStates, InflightTaskStates,
  Store!TerminalJobStates, Rows!TerminalJobStates, TerminalJobStates,
  Store!AcceptancePhases, Rows!AcceptancePhases, AcceptancePhases,
  Store!JobTransitions, Rows!JobTransitions, JobTransitions,
  Store!TaskTransitions, Rows!TaskTransitions, TaskTransitions,
  Store!AttemptTransitions, Rows!AttemptTransitions, AttemptTransitions,
  Store!Intents, Rows!Intents, Store!Outcomes, Rows!Outcomes, Store!NoOutcome, Rows!NoOutcome

\* The validator and the operators of the rows agree as well.
LEMMA SameValidator ==
  /\ \A a, b, c, d, e : Store!SnapshotValid(a, b, c, d, e) <=> Rows!SnapshotValid(a, b, c, d, e)
  /\ \A j : Store!SnapshotTasks(j) = Rows!SnapshotTasks(j)
  /\ \A j : Store!RunningOwners(j) = Rows!RunningOwners(j)
  /\ \A j : Store!ValidRows(j) <=> Rows!ValidRows(j)
  /\ \A j : Store!ValidRows(j)' <=> Rows!ValidRows(j)'
  /\ \A j, t : Store!HasRunningAttempt(j, t) <=> Rows!HasRunningAttempt(j, t)
<1>1. \A a, b, c, d, e : Store!SnapshotValid(a, b, c, d, e) <=> Rows!SnapshotValid(a, b, c, d, e)
  BY SameTables DEF Store!SnapshotValid, Rows!SnapshotValid
<1>2. \A j, t : Store!HasRunningAttempt(j, t) <=> Rows!HasRunningAttempt(j, t)
  BY DEF Store!HasRunningAttempt, Rows!HasRunningAttempt
<1>3. \A j : Store!SnapshotTasks(j) = Rows!SnapshotTasks(j)
  BY SameTables DEF Store!SnapshotTasks, Rows!SnapshotTasks
<1>4. \A j : Store!RunningOwners(j) = Rows!RunningOwners(j)
  BY <1>2 DEF Store!RunningOwners, Rows!RunningOwners
<1>5. \A j : Store!ValidRows(j) <=> Rows!ValidRows(j)
  BY <1>1, <1>3, <1>4 DEF Store!ValidRows, Rows!ValidRows
<1>6. \A j : Store!ValidRows(j)' <=> Rows!ValidRows(j)'
  BY SameTables DEF Store!ValidRows, Rows!ValidRows, Store!SnapshotValid, Rows!SnapshotValid,
    Store!SnapshotTasks, Rows!SnapshotTasks, Store!RunningOwners, Rows!RunningOwners,
    Store!HasRunningAttempt, Rows!HasRunningAttempt
<1> QED BY <1>1, <1>2, <1>3, <1>4, <1>5, <1>6

\* Bulk updates of one job's rows.
LEMMA SameBulk ==
  /\ \A j, as : Store!ClosedAttempts(j, as) = Rows!ClosedAttempts(j, as)
  /\ \A j, from, to : Store!MovedTasks(j, from, to) = Rows!MovedTasks(j, from, to)
  /\ Store!Retryable = Rows!Retryable
BY SameTables DEF Store!ClosedAttempts, Rows!ClosedAttempts, Store!MovedTasks, Rows!MovedTasks,
  Store!Retryable, Rows!Retryable

\* What recovery would write.
LEMMA SameRecovery ==
  \A j : /\ Store!Incomplete(j) <=> Rows!Incomplete(j)
         /\ Store!RecoversAccepted(j) <=> Rows!RecoversAccepted(j)
         /\ Store!RecoversActive(j) <=> Rows!RecoversActive(j)
         /\ Store!RecoversStopped(j) <=> Rows!RecoversStopped(j)
         /\ Store!RecoveredAttempts(j) = Rows!RecoveredAttempts(j)
         /\ Store!RecoveredTasks(j) = Rows!RecoveredTasks(j)
         /\ Store!RecoveredState(j) = Rows!RecoveredState(j)
         /\ Store!RecoveredStop(j) = Rows!RecoveredStop(j)
         /\ Store!RecoveryChecks(j) <=> Rows!RecoveryChecks(j)
<1> SUFFICES ASSUME NEW j
    PROVE /\ Store!Incomplete(j) <=> Rows!Incomplete(j)
          /\ Store!RecoversAccepted(j) <=> Rows!RecoversAccepted(j)
          /\ Store!RecoversActive(j) <=> Rows!RecoversActive(j)
          /\ Store!RecoversStopped(j) <=> Rows!RecoversStopped(j)
          /\ Store!RecoveredAttempts(j) = Rows!RecoveredAttempts(j)
          /\ Store!RecoveredTasks(j) = Rows!RecoveredTasks(j)
          /\ Store!RecoveredState(j) = Rows!RecoveredState(j)
          /\ Store!RecoveredStop(j) = Rows!RecoveredStop(j)
          /\ Store!RecoveryChecks(j) <=> Rows!RecoveryChecks(j)
  OBVIOUS
<1>1. Store!Incomplete(j) <=> Rows!Incomplete(j)
  BY SameTables DEF Store!Incomplete, Rows!Incomplete, Store!Exists, Rows!Exists
<1>2. Store!RecoversAccepted(j) <=> Rows!RecoversAccepted(j)
  BY <1>1 DEF Store!RecoversAccepted, Rows!RecoversAccepted
<1>3. Store!RecoversOrdinary(j) <=> Rows!RecoversOrdinary(j)
  BY <1>1, <1>2 DEF Store!RecoversOrdinary, Rows!RecoversOrdinary
<1>4. Store!RecoversActive(j) <=> Rows!RecoversActive(j)
  BY <1>3 DEF Store!RecoversActive, Rows!RecoversActive
<1>5. Store!RecoversStopped(j) <=> Rows!RecoversStopped(j)
  BY <1>3, <1>4 DEF Store!RecoversStopped, Rows!RecoversStopped
<1>6. Store!RecoveredAttempts(j) = Rows!RecoveredAttempts(j)
  BY <1>3, SameBulk DEF Store!RecoveredAttempts, Rows!RecoveredAttempts
<1>7. Store!RecoveredTasks(j) = Rows!RecoveredTasks(j)
  BY <1>4, <1>5, SameBulk, SameTables DEF Store!RecoveredTasks, Rows!RecoveredTasks
<1>8. Store!RecoveredState(j) = Rows!RecoveredState(j)
  BY <1>4, <1>5 DEF Store!RecoveredState, Rows!RecoveredState
<1>9. Store!RecoveredStop(j) = Rows!RecoveredStop(j)
  BY <1>2, <1>4, <1>5 DEF Store!RecoveredStop, Rows!RecoveredStop
<1>10. Store!RecoveryChecks(j) <=> Rows!RecoveryChecks(j)
  BY <1>2, <1>4, <1>5, SameTables DEF Store!RecoveryChecks, Rows!RecoveryChecks
<1> QED BY <1>1, <1>2, <1>4, <1>5, <1>6, <1>7, <1>8, <1>9, <1>10

\* The transactions that the daemon, the runner and the workers call.
LEMMA SameJobCalls ==
  ASSUME NEW j
  PROVE  /\ \A auto : Store!CreateJob(j, auto) <=> Rows!CreateJob(j, auto)
         /\ \A s, stop, auto : Store!UpdateJob(j, s, stop, auto) <=> Rows!UpdateJob(j, s, stop, auto)
         /\ Store!RequestStop(j) <=> Rows!RequestStop(j)
         /\ Store!PrepareResume(j) <=> Rows!PrepareResume(j)
         /\ \A s, as : Store!SettleInflight(j, s, as) <=> Rows!SettleInflight(j, s, as)
<1> USE SameTables, SameValidator, SameBulk
<1> USE DEF Store!jobVars, Rows!jobVars, Store!ledgerVars, Rows!ledgerVars, Store!graphVars, Rows!graphVars,
            Store!Exists, Rows!Exists, Store!Frozen, Rows!Frozen
<1>1. \A auto : Store!CreateJob(j, auto) <=> Rows!CreateJob(j, auto)
  BY DEF Store!CreateJob, Rows!CreateJob
<1>2. \A s, stop, auto : Store!UpdateJob(j, s, stop, auto) <=> Rows!UpdateJob(j, s, stop, auto)
  BY DEF Store!UpdateJob, Rows!UpdateJob
<1>3. Store!RequestStop(j) <=> Rows!RequestStop(j)
  BY <1>2 DEF Store!RequestStop, Rows!RequestStop
<1>4. Store!PrepareResume(j) <=> Rows!PrepareResume(j)
  BY DEF Store!PrepareResume, Rows!PrepareResume
<1>5. \A s, as : Store!SettleInflight(j, s, as) <=> Rows!SettleInflight(j, s, as)
  BY DEF Store!SettleInflight, Rows!SettleInflight
<1> QED BY <1>1, <1>2, <1>3, <1>4, <1>5

LEMMA SameTaskCalls ==
  ASSUME NEW j
  PROVE  /\ \A new : Store!AddTasks(j, new) <=> Rows!AddTasks(j, new)
         /\ \A t, s : Store!UpdateTask(j, t, s) <=> Rows!UpdateTask(j, t, s)
         /\ \A t, n : Store!MayStart(j, t, n) <=> Rows!MayStart(j, t, n)
         /\ \A t, n : Store!StartAttempt(j, t, n) <=> Rows!StartAttempt(j, t, n)
         /\ \A t, n, s : Store!FinishAttempt(j, t, n, s) <=> Rows!FinishAttempt(j, t, n, s)
<1> USE SameTables, SameValidator
<1> USE DEF Store!jobVars, Rows!jobVars, Store!ledgerVars, Rows!ledgerVars, Store!graphVars, Rows!graphVars,
            Store!Exists, Rows!Exists
<1>1. \A new : Store!AddTasks(j, new) <=> Rows!AddTasks(j, new)
  BY DEF Store!AddTasks, Rows!AddTasks
<1>2. \A t, s : Store!UpdateTask(j, t, s) <=> Rows!UpdateTask(j, t, s)
  BY DEF Store!UpdateTask, Rows!UpdateTask, Store!ActivatedJobState, Rows!ActivatedJobState
<1>3. \A t, n : Store!MayStart(j, t, n) <=> Rows!MayStart(j, t, n)
  BY DEF Store!MayStart, Rows!MayStart
<1>4. \A t, n : Store!StartAttempt(j, t, n) <=> Rows!StartAttempt(j, t, n)
  BY <1>3 DEF Store!StartAttempt, Rows!StartAttempt
<1>5. \A t, n, s : Store!FinishAttempt(j, t, n, s) <=> Rows!FinishAttempt(j, t, n, s)
  BY DEF Store!FinishAttempt, Rows!FinishAttempt
<1> QED BY <1>1, <1>2, <1>3, <1>4, <1>5

LEMMA SameLedgerCalls ==
  ASSUME NEW j
  PROVE  /\ \A c, i, d : Store!PrepareAcceptedJob(j, c, i, d) <=> Rows!PrepareAcceptedJob(j, c, i, d)
         /\ \A c : Store!MarkApplyStarted(j, c) <=> Rows!MarkApplyStarted(j, c)
         /\ \A d, o : Store!PublishCompletedJob(j, d, o) <=> Rows!PublishCompletedJob(j, d, o)
<1> USE SameTables, SameValidator
<1> USE DEF Store!jobVars, Rows!jobVars, Store!ledgerVars, Rows!ledgerVars, Store!graphVars, Rows!graphVars,
            Store!Exists, Rows!Exists
<1>1. \A c, i, d : Store!PrepareAcceptedJob(j, c, i, d) <=> Rows!PrepareAcceptedJob(j, c, i, d)
  BY DEF Store!PrepareAcceptedJob, Rows!PrepareAcceptedJob
<1>2. \A c : Store!MarkApplyStarted(j, c) <=> Rows!MarkApplyStarted(j, c)
  BY DEF Store!MarkApplyStarted, Rows!MarkApplyStarted
<1>3. \A d, o : Store!PublishCompletedJob(j, d, o) <=> Rows!PublishCompletedJob(j, d, o)
  BY DEF Store!PublishCompletedJob, Rows!PublishCompletedJob, Store!OutcomeFits, Rows!OutcomeFits,
    Store!PublishedRows, Rows!PublishedRows
<1> QED BY <1>1, <1>2, <1>3

\* The transactions that this module never calls; JobStore has them for the others.
LEMMA SameOtherCalls ==
  ASSUME NEW j
  PROVE  /\ Store!ClearStop(j) <=> Rows!ClearStop(j)
         /\ Store!RetryFailedTasks(j) <=> Rows!RetryFailedTasks(j)
         /\ \A d : Store!StageDossier(j, d) <=> Rows!StageDossier(j, d)
<1> USE SameTables, SameValidator, SameBulk, SameJobCalls
<1> USE DEF Store!jobVars, Rows!jobVars, Store!ledgerVars, Rows!ledgerVars, Store!graphVars, Rows!graphVars,
            Store!Exists, Rows!Exists, Store!Frozen, Rows!Frozen
<1>1. Store!ClearStop(j) <=> Rows!ClearStop(j)
  BY DEF Store!ClearStop, Rows!ClearStop
<1>2. Store!RetryFailedTasks(j) <=> Rows!RetryFailedTasks(j)
  BY DEF Store!RetryFailedTasks, Rows!RetryFailedTasks
<1>3. \A d : Store!StageDossier(j, d) <=> Rows!StageDossier(j, d)
  BY DEF Store!StageDossier, Rows!StageDossier, Store!MayStage, Rows!MayStage
<1> QED BY <1>1, <1>2, <1>3

LEMMA SameRestart == Store!RecoverIncomplete <=> Rows!RecoverIncomplete
BY SameRecovery, SameValidator DEF Store!RecoverIncomplete, Rows!RecoverIncomplete,
  Store!ledgerVars, Rows!ledgerVars

LEMMA SameNext == Store!Next <=> Rows!Next
<1>1. Store!JobStep(Job) <=> Rows!JobStep(Job)
  BY SameJobCalls, SameOtherCalls, SameTables DEF Store!JobStep, Rows!JobStep
<1>2. Store!TaskStep(Job) <=> Rows!TaskStep(Job)
  BY SameTaskCalls, SameTables DEF Store!TaskStep, Rows!TaskStep
<1>3. Store!LedgerStep(Job) <=> Rows!LedgerStep(Job)
  BY SameLedgerCalls, SameOtherCalls, SameTables DEF Store!LedgerStep, Rows!LedgerStep
<1> QED BY <1>1, <1>2, <1>3, SameRestart DEF Store!Next, Rows!Next

LEMMA SameTypes == Store!TypeOK <=> Rows!TypeOK
BY SameTables DEF Store!TypeOK, Rows!TypeOK

LEMMA SameInit == Store!Init <=> Rows!Init
BY SameTables DEF Store!Init, Rows!Init

LEMMA SameRows ==
  /\ UNCHANGED rows <=> UNCHANGED Rows!vars
  /\ UNCHANGED rows <=> UNCHANGED Store!vars
BY DEF rows, Rows!vars, Rows!jobVars, Rows!ledgerVars, Rows!graphVars,
  Store!vars, Store!jobVars, Store!ledgerVars, Store!graphVars

-----------------------------------------------------------------------------
(* What each call does to the job's rows.                                   *)

SameGraph  == taskState'[Job] = taskState[Job] /\ attemptState'[Job] = attemptState[Job]
SamePhase  == phase'[Job] = phase[Job]
SameStop   == stopRequested'[Job] = stopRequested[Job]
SameState  == jobState'[Job] = jobState[Job]

\* The values of the job's columns.
LEMMA JobTypes ==
  ASSUME Rows!TypeOK
  PROVE  /\ State \in JobStates \cup {Absent}
         /\ stopRequested[Job] \in BOOLEAN
         /\ autoApply[Job] \in BOOLEAN
         /\ phase[Job] \in AcceptancePhases
         /\ \A t \in Tasks : taskState[Job][t] \in TaskStates \cup {Absent}
         /\ \A t \in Tasks, n \in Numbers : attemptState[Job][t][n] \in AttemptStates \cup {Absent}
BY SameTables DEF Rows!TypeOK, State

LEMMA CreateJobDoes ==
  ASSUME Rows!TypeOK, Store!CreateJob(Job, AutoApply)
  PROVE  /\ State = Absent /\ State' = "queued"
         /\ SameStop /\ SamePhase /\ SameGraph
         /\ Rows!Next
<1>1. Rows!CreateJob(Job, AutoApply)
  BY SameJobCalls
<1>2. Rows!Next
  BY <1>1, BoundsAssumption DEF Rows!Next, Rows!JobStep
<1>3. State = Absent /\ State' = "queued" /\ SameStop /\ SamePhase /\ SameGraph
  BY <1>1, SameTables DEF Rows!CreateJob, Rows!Exists, Rows!TypeOK, State, SameStop, SamePhase, SameGraph,
    Rows!ledgerVars, Rows!graphVars
<1> QED BY <1>2, <1>3

\* update_job with the fields the runner and the stop request leave out.
LEMMA UpdateJobDoes ==
  ASSUME Rows!TypeOK, NEW s \in JobStates, NEW stop \in BOOLEAN,
         Store!UpdateJob(Job, s, stop, autoApply[Job])
  PROVE  /\ State # Absent /\ s \in JobTransitions[State] /\ State' = s
         /\ stopRequested'[Job] = stop /\ SamePhase /\ SameGraph
         /\ Rows!Next
<1>1. Rows!UpdateJob(Job, s, stop, autoApply[Job])
  BY SameJobCalls
<1>2. Rows!Next
  BY <1>1, JobTypes, SameTables DEF Rows!Next, Rows!JobStep
<1>3. /\ State # Absent /\ s \in JobTransitions[State] /\ State' = s
      /\ stopRequested'[Job] = stop /\ SamePhase /\ SameGraph
  BY <1>1, SameTables DEF Rows!UpdateJob, Rows!Exists, Rows!TypeOK, State, SameStop, SamePhase, SameGraph,
    Rows!ledgerVars, Rows!graphVars
<1> QED BY <1>2, <1>3

LEMMA RequestStopDoes ==
  ASSUME Rows!TypeOK, Store!RequestStop(Job)
  PROVE  /\ State # Absent /\ "stopping" \in JobTransitions[State] /\ State' = "stopping"
         /\ stopRequested'[Job] = TRUE /\ SamePhase /\ SameGraph
         /\ Rows!Next
<1>1. Store!UpdateJob(Job, "stopping", TRUE, autoApply[Job])
  BY DEF Store!RequestStop
<1>2. "stopping" \in JobStates
  BY DEF JobStates
<1> QED BY <1>1, <1>2, UpdateJobDoes

\* Bulk moves of tasks: what is in `from` goes to `to`, the rest stays.
Bulk(from, to) ==
  \A t \in Tasks : taskState'[Job][t] = IF taskState[Job][t] \in from THEN to ELSE taskState[Job][t]
Closes(as) ==
  \A t \in Tasks, n \in Numbers :
    attemptState'[Job][t][n] = IF attemptState[Job][t][n] = "running" THEN as ELSE attemptState[Job][t][n]

LEMMA SettleInflightDoes ==
  ASSUME Rows!TypeOK, NEW s \in {"pending", "failed", "stopped"}, NEW as \in {"cancelled", "failed"},
         Store!SettleInflight(Job, s, as)
  PROVE  /\ State # Absent /\ phase[Job] = "none"
         /\ SameState /\ SameStop /\ SamePhase
         /\ Bulk(InflightTaskStates, s) /\ Closes(as)
         /\ Rows!Next
<1>1. Rows!SettleInflight(Job, s, as)
  BY SameJobCalls
<1>2. Rows!Next
  BY <1>1 DEF Rows!Next, Rows!JobStep
<1>3. taskState'[Job] = Rows!MovedTasks(Job, Rows!InflightTaskStates, s)
  BY <1>1 DEF Rows!SettleInflight, Rows!TypeOK
<1>4. attemptState'[Job] = Rows!ClosedAttempts(Job, as)
  BY <1>1 DEF Rows!SettleInflight, Rows!TypeOK
<1>5. Bulk(InflightTaskStates, s)
  BY <1>3, SameTables DEF Rows!MovedTasks, Bulk
<1>6. Closes(as)
  BY <1>4 DEF Rows!ClosedAttempts, Closes
<1>7. /\ State # Absent /\ phase[Job] = "none" /\ SameState /\ SameStop /\ SamePhase
  BY <1>1, SameTables DEF Rows!SettleInflight, Rows!Exists, State, SameState, SameStop, SamePhase,
    Rows!ledgerVars, Rows!jobVars
<1> QED BY <1>2, <1>5, <1>6, <1>7

LEMMA PrepareResumeDoes ==
  ASSUME Rows!TypeOK, Store!PrepareResume(Job)
  PROVE  /\ State \in {"stopped", "failed"} /\ phase[Job] = "none"
         /\ State' = "queued" /\ stopRequested'[Job] = FALSE /\ SamePhase
         /\ Bulk(TaskStates \ {"completed"}, "pending") /\ Closes("cancelled")
         /\ Rows!Next
<1>1. Rows!PrepareResume(Job)
  BY SameJobCalls
<1>2. Rows!Next
  BY <1>1 DEF Rows!Next, Rows!JobStep
<1>3. taskState'[Job] = Rows!MovedTasks(Job, Rows!Retryable, "pending")
  BY <1>1 DEF Rows!PrepareResume, Rows!TypeOK
<1>4. attemptState'[Job] = Rows!ClosedAttempts(Job, "cancelled")
  BY <1>1 DEF Rows!PrepareResume, Rows!TypeOK
<1>5. Bulk(TaskStates \ {"completed"}, "pending")
  BY <1>3, SameTables DEF Rows!MovedTasks, Rows!Retryable, Bulk
<1>6. Closes("cancelled")
  BY <1>4 DEF Rows!ClosedAttempts, Closes
<1>7. /\ State \in {"stopped", "failed"} /\ phase[Job] = "none"
      /\ State' = "queued" /\ stopRequested'[Job] = FALSE /\ SamePhase
  BY <1>1 DEF Rows!PrepareResume, State, SamePhase, Rows!ledgerVars, Rows!TypeOK
<1> QED BY <1>2, <1>5, <1>6, <1>7

LEMMA AddTasksDoes ==
  ASSUME Rows!TypeOK, NEW new \in SUBSET Tasks, Store!AddTasks(Job, new)
  PROVE  /\ State \in {"queued", "planning"} /\ phase[Job] = "none"
         /\ SameState /\ SameStop /\ SamePhase
         /\ \A t \in Tasks : taskState'[Job][t] = IF t \in new THEN "pending" ELSE taskState[Job][t]
         /\ \A t \in new : taskState[Job][t] = Absent
         /\ attemptState'[Job] = attemptState[Job]
         /\ Rows!Next
<1>1. Rows!AddTasks(Job, new)
  BY SameTaskCalls
<1>2. Rows!Next
  BY <1>1 DEF Rows!Next, Rows!TaskStep
<1>3. /\ State \in {"queued", "planning"} /\ phase[Job] = "none"
      /\ SameState /\ SameStop /\ SamePhase /\ attemptState'[Job] = attemptState[Job]
      /\ \A t \in new : taskState[Job][t] = Absent
  BY <1>1, SameTables DEF Rows!AddTasks, State, SameState, SameStop, SamePhase, Rows!ledgerVars, Rows!jobVars
<1>4. \A t \in Tasks : taskState'[Job][t] = IF t \in new THEN "pending" ELSE taskState[Job][t]
  BY <1>1 DEF Rows!AddTasks, Rows!TypeOK
<1> QED BY <1>2, <1>3, <1>4

\* A task that goes in flight carries a queued or planning job to running.
LEMMA UpdateTaskDoes ==
  ASSUME Rows!TypeOK, NEW t \in Tasks, NEW s \in TaskStates, Store!UpdateTask(Job, t, s)
  PROVE  /\ State # Absent /\ taskState[Job][t] # Absent /\ phase[Job] = "none"
         /\ s \in TaskTransitions[taskState[Job][t]]
         /\ State' = IF s \in InflightTaskStates /\ State \in {"queued", "planning"}
                       THEN "running" ELSE State
         /\ SameStop /\ SamePhase
         /\ taskState'[Job][t] = s
         /\ \A u \in Tasks : u # t => taskState'[Job][u] = taskState[Job][u]
         /\ attemptState'[Job] = attemptState[Job]
         /\ Rows!Next
<1>1. Rows!UpdateTask(Job, t, s)
  BY SameTaskCalls
<1>2. Rows!Next
  BY <1>1, SameTables DEF Rows!Next, Rows!TaskStep
<1>3. /\ State # Absent /\ taskState[Job][t] # Absent /\ phase[Job] = "none"
      /\ s \in TaskTransitions[taskState[Job][t]]
      /\ SameStop /\ SamePhase /\ attemptState'[Job] = attemptState[Job]
  BY <1>1, SameTables DEF Rows!UpdateTask, Rows!Exists, State, SameStop, SamePhase, Rows!ledgerVars
<1>4. /\ taskState'[Job][t] = s
      /\ \A u \in Tasks : u # t => taskState'[Job][u] = taskState[Job][u]
  BY <1>1 DEF Rows!UpdateTask, Rows!TypeOK
<1>5. State' = IF s \in InflightTaskStates /\ State \in {"queued", "planning"} THEN "running" ELSE State
  BY <1>1, SameTables DEF Rows!UpdateTask, Rows!TypeOK, Rows!ActivatedJobState, State
<1> QED BY <1>2, <1>3, <1>4, <1>5

\* One attempt row gets the state as; the other rows stay.
Writes(t, n, as) ==
  /\ attemptState'[Job][t][n] = as
  /\ \A u \in Tasks, m \in Numbers : u # t \/ m # n =>
       attemptState'[Job][u][m] = attemptState[Job][u][m]

LEMMA StartAttemptDoes ==
  ASSUME Rows!TypeOK, NEW t \in Tasks, NEW n \in Numbers, Store!StartAttempt(Job, t, n)
  PROVE  /\ Store!MayStart(Job, t, n)
         /\ SameState /\ SameStop /\ SamePhase /\ taskState'[Job] = taskState[Job]
         /\ Writes(t, n, "running")
         /\ Rows!Next
<1>1. Rows!StartAttempt(Job, t, n)
  BY SameTaskCalls
<1>2. Rows!Next
  BY <1>1 DEF Rows!Next, Rows!TaskStep
<1>3. SameState /\ SameStop /\ SamePhase /\ taskState'[Job] = taskState[Job]
  BY <1>1 DEF Rows!StartAttempt, SameState, SameStop, SamePhase, Rows!ledgerVars, Rows!jobVars
<1>4. Writes(t, n, "running")
  BY <1>1 DEF Rows!StartAttempt, Rows!TypeOK, Writes
<1>5. Store!MayStart(Job, t, n)
  BY DEF Store!StartAttempt
<1> QED BY <1>2, <1>3, <1>4, <1>5

LEMMA FinishAttemptDoes ==
  ASSUME Rows!TypeOK, NEW t \in Tasks, NEW n \in Numbers, NEW as \in {"passed", "failed", "cancelled"},
         Store!FinishAttempt(Job, t, n, as)
  PROVE  /\ attemptState[Job][t][n] = "running"
         /\ SameState /\ SameStop /\ SamePhase /\ taskState'[Job] = taskState[Job]
         /\ Writes(t, n, as)
         /\ Rows!Next
<1>1. Rows!FinishAttempt(Job, t, n, as)
  BY SameTaskCalls
<1>2. Rows!Next
  BY <1>1 DEF Rows!Next, Rows!TaskStep, Rows!AttemptStates
<1>3. SameState /\ SameStop /\ SamePhase /\ taskState'[Job] = taskState[Job]
  BY <1>1 DEF Rows!FinishAttempt, SameState, SameStop, SamePhase, Rows!ledgerVars, Rows!jobVars
<1>4. attemptState[Job][t][n] = "running" /\ Writes(t, n, as)
  BY <1>1 DEF Rows!FinishAttempt, Rows!TypeOK, Writes
<1> QED BY <1>2, <1>3, <1>4

LEMMA PrepareAcceptedDoes ==
  ASSUME Rows!TypeOK, NEW i \in Rows!Intents,
         Store!PrepareAcceptedJob(Job, "candidate", i, "dossier")
  PROVE  /\ phase[Job] = "none" /\ phase'[Job] = "accepted"
         /\ State \in {"running", "stopping"}
         /\ SameState /\ stopRequested'[Job] = FALSE /\ SameGraph
         /\ Rows!Next
<1>1. Rows!PrepareAcceptedJob(Job, "candidate", i, "dossier")
  BY SameLedgerCalls
<1>2. Rows!Next
  BY <1>1 DEF Rows!Next, Rows!LedgerStep
<1>3. /\ phase[Job] = "none" /\ phase'[Job] = "accepted" /\ State \in {"running", "stopping"}
      /\ SameState /\ stopRequested'[Job] = FALSE /\ SameGraph
  BY <1>1 DEF Rows!PrepareAcceptedJob, Rows!TypeOK, State, SameState, SameGraph, Rows!graphVars
<1> QED BY <1>2, <1>3

LEMMA MarkApplyStartedDoes ==
  ASSUME Rows!TypeOK, Store!MarkApplyStarted(Job, "candidate")
  PROVE  /\ phase[Job] = "accepted" /\ phase'[Job] = "applying"
         /\ SameState /\ SameStop /\ SameGraph
         /\ Rows!Next
<1>1. Rows!MarkApplyStarted(Job, "candidate")
  BY SameLedgerCalls
<1>2. Rows!Next
  BY <1>1 DEF Rows!Next, Rows!LedgerStep
<1>3. phase[Job] = "accepted" /\ phase'[Job] = "applying" /\ SameState /\ SameStop /\ SameGraph
  BY <1>1 DEF Rows!MarkApplyStarted, Rows!TypeOK, SameState, SameStop, SameGraph, Rows!graphVars, Rows!jobVars
<1> QED BY <1>2, <1>3

LEMMA PublishDoes ==
  ASSUME Rows!TypeOK, NEW o \in Rows!Outcomes, Store!PublishCompletedJob(Job, "dossier", o)
  PROVE  /\ phase[Job] \in {"accepted", "applying"} /\ phase'[Job] = "published"
         /\ State' = "completed" /\ stopRequested'[Job] = FALSE /\ SameGraph
         /\ Rows!Next
<1>1. Rows!PublishCompletedJob(Job, "dossier", o)
  BY SameLedgerCalls
<1>2. Rows!Next
  BY <1>1 DEF Rows!Next, Rows!LedgerStep
<1>3. /\ phase[Job] \in {"accepted", "applying"} /\ phase'[Job] = "published"
      /\ State' = "completed" /\ stopRequested'[Job] = FALSE /\ SameGraph
  BY <1>1 DEF Rows!PublishCompletedJob, Rows!OutcomeFits, Rows!TypeOK, State, SameGraph, Rows!graphVars
<1> QED BY <1>2, <1>3

\* Recovery: accepted work keeps its state and loses a stop request, stopped work is
\* settled, other interrupted work goes back to the queue, the rest is left alone.
LEMMA RecoverDoes ==
  ASSUME Rows!TypeOK, Store!RecoverIncomplete
  PROVE  /\ State' = Store!RecoveredState(Job) /\ stopRequested'[Job] = Store!RecoveredStop(Job)
         /\ SamePhase
         /\ taskState'[Job] = Store!RecoveredTasks(Job)
         /\ attemptState'[Job] = Store!RecoveredAttempts(Job)
         /\ Rows!Next
<1>1. Rows!Next
  BY SameRestart DEF Rows!Next
<1>2. /\ State' = Store!RecoveredState(Job) /\ stopRequested'[Job] = Store!RecoveredStop(Job)
      /\ SamePhase
      /\ taskState'[Job] = Store!RecoveredTasks(Job)
      /\ attemptState'[Job] = Store!RecoveredAttempts(Job)
  BY DEF Store!RecoverIncomplete, Store!ledgerVars, State, SamePhase
<1> QED BY <1>1, <1>2

-----------------------------------------------------------------------------
(* The event loop and the coroutines.                                       *)

\* Whoever is inside a segment is one of these, and nobody else.
LEMMA LoopNames ==
  /\ Free # InRunner /\ Free # InStop /\ Free # InClose
  /\ InRunner # InStop /\ InRunner # InClose /\ InStop # InClose
  /\ \A r \in Runs, t \in Tasks :
       InWorker(r, t) # Free /\ InWorker(r, t) # InRunner /\ InWorker(r, t) # InStop /\ InWorker(r, t) # InClose
  /\ \A q, r \in Runs, t, u \in Tasks : InWorker(q, u) = InWorker(r, t) => q = r /\ u = t
<1>1. Free[1] = "free" /\ InRunner[1] = "runner" /\ InStop[1] = "stop" /\ InClose[1] = "close"
  BY DEF Free, InRunner, InStop, InClose
<1>2. \A r \in Runs, t \in Tasks : InWorker(r, t)[1] = "worker" /\ InWorker(r, t)[2] = r /\ InWorker(r, t)[3] = t
  BY DEF InWorker
<1> QED BY <1>1, <1>2

Record == [pc : WorkerSteps, n : Nat, left : 0..MaxAttempts, hit : BOOLEAN,
           result : {"none", "done", "failed", "error", "cancelled"}]
Workers == [Runs -> [Tasks -> Record]]

OthersKept(r, t) ==
  \A q \in Runs, u \in Tasks : q # r \/ u # t => worker'[q][u] = worker[q][u]

\* One coroutine becomes w, the others stay.
Becomes(r, t, w) == worker' \in Workers /\ worker'[r][t] = w /\ OthersKept(r, t)

\* It only changes its place and, at its end, its result.
Moves(r, t, pc, result) ==
  /\ worker' \in Workers /\ OthersKept(r, t)
  /\ worker'[r][t].pc = pc /\ worker'[r][t].result = result
  /\ worker'[r][t].n = worker[r][t].n /\ worker'[r][t].left = worker[r][t].left
  /\ worker'[r][t].hit = worker[r][t].hit

\* It begins its next attempt.
Recounts(r, t) ==
  /\ worker' \in Workers /\ OthersKept(r, t)
  /\ worker'[r][t].pc = "head" /\ worker'[r][t].result = worker[r][t].result
  /\ worker'[r][t].n = worker[r][t].n + 1 /\ worker'[r][t].left = worker[r][t].left - 1
  /\ worker'[r][t].hit = worker[r][t].hit

LEMMA RecordUpdates ==
  ASSUME NEW w \in Record
  PROVE  /\ \A pc \in WorkerSteps : [w EXCEPT !.pc = pc] \in Record
         /\ \A pc \in WorkerSteps, how \in {"none", "done", "failed", "error", "cancelled"} :
              [w EXCEPT !.pc = pc, !.result = how] \in Record
         /\ \A b \in BOOLEAN : [w EXCEPT !.hit = b] \in Record
         /\ \A pc \in WorkerSteps, n \in Nat, left \in 0..MaxAttempts :
              [w EXCEPT !.pc = pc, !.n = n, !.left = left] \in Record
BY DEF Record

LEMMA BecomesIs ==
  ASSUME worker \in Workers, NEW r \in Runs, NEW t \in Tasks, NEW w \in Record,
         worker' = [worker EXCEPT ![r] = [worker[r] EXCEPT ![t] = w]]
  PROVE  Becomes(r, t, w)
<1>1. worker[r] \in [Tasks -> Record]
  BY DEF Workers
<1>2. [worker[r] EXCEPT ![t] = w] \in [Tasks -> Record]
  BY <1>1
<1>3. worker' \in Workers
  BY <1>2 DEF Workers
<1>4. worker'[r][t] = w
  BY <1>1 DEF Workers
<1>5. OthersKept(r, t)
  BY <1>1 DEF OthersKept, Workers
<1> QED BY <1>3, <1>4, <1>5 DEF Becomes

LEMMA GotoDoes ==
  ASSUME worker \in Workers, NEW r \in Runs, NEW t \in Tasks, NEW pc \in WorkerSteps, Goto(r, t, pc)
  PROVE  /\ Moves(r, t, pc, worker[r][t].result)
         /\ loop' = IF pc \in {"head", "starting", "again", "passed"} THEN InWorker(r, t) ELSE Free
<1> DEFINE w == [worker[r][t] EXCEPT !.pc = pc]
<1>1. worker' = [worker EXCEPT ![r] = [worker[r] EXCEPT ![t] = w]]
  BY DEF Goto
<1>2. worker[r][t] \in Record
  BY DEF Workers
<1>3. w \in Record
  BY <1>2, RecordUpdates
<1>4. Becomes(r, t, w)
  BY <1>1, <1>3, BecomesIs
<1>5. Moves(r, t, pc, worker[r][t].result)
  BY <1>2, <1>4 DEF Becomes, Moves, Record
<1> QED BY <1>5 DEF Goto

LEMMA ExitDoes ==
  ASSUME worker \in Workers, NEW r \in Runs, NEW t \in Tasks,
         NEW how \in {"done", "failed", "error", "cancelled"}, Exit(r, t, how)
  PROVE  Moves(r, t, "exited", how) /\ loop' = Free
<1> DEFINE w == [worker[r][t] EXCEPT !.pc = "exited", !.result = how]
<1>1. worker' = [worker EXCEPT ![r] = [worker[r] EXCEPT ![t] = w]]
  BY DEF Exit, Workers
<1>2. worker[r][t] \in Record /\ "exited" \in WorkerSteps
  BY DEF Workers, WorkerSteps
<1>3. w \in Record
  BY <1>2, RecordUpdates
<1>4. Becomes(r, t, w)
  BY <1>1, <1>3, BecomesIs
<1>5. Moves(r, t, "exited", how)
  BY <1>2, <1>4 DEF Becomes, Moves, Record
<1> QED BY <1>5 DEF Exit

LEMMA InterruptDoes ==
  ASSUME worker \in Workers, NEW r \in Runs, NEW t \in Tasks, WorkerInterrupted(r, t)
  PROVE  \E how \in {"error", "cancelled"} : Moves(r, t, "rollback", how)
<1>0. PICK how \in {"error", "cancelled"} :
        worker' = [worker EXCEPT ![r][t].pc = "rollback", ![r][t].result = how]
  BY DEF WorkerInterrupted
<1> DEFINE w == [worker[r][t] EXCEPT !.pc = "rollback", !.result = how]
<1>1. worker' = [worker EXCEPT ![r] = [worker[r] EXCEPT ![t] = w]]
  BY <1>0 DEF Workers
<1>2. worker[r][t] \in Record /\ "rollback" \in WorkerSteps
  BY DEF Workers, WorkerSteps
<1>3. w \in Record
  BY <1>2, RecordUpdates
<1>4. Becomes(r, t, w)
  BY <1>1, <1>3, BecomesIs
<1>5. Moves(r, t, "rollback", how)
  BY <1>2, <1>4 DEF Becomes, Moves, Record
<1> QED BY <1>2, <1>5

LEMMA TryAgainDoes ==
  ASSUME worker \in Workers, NEW r \in Runs, NEW t \in Tasks, worker[r][t].left >= 1,
         WorkerTriesAgain(r, t)
  PROVE  Recounts(r, t)
<1> DEFINE w == [worker[r][t] EXCEPT !.pc = "head", !.n = worker[r][t].n + 1, !.left = worker[r][t].left - 1]
<1>1. worker' = [worker EXCEPT ![r] = [worker[r] EXCEPT ![t] = w]]
  BY DEF WorkerTriesAgain, Workers
<1>2. worker[r][t] \in Record /\ "head" \in WorkerSteps
  BY DEF Workers, WorkerSteps
<1>3. worker[r][t].n + 1 \in Nat /\ worker[r][t].left - 1 \in 0..MaxAttempts
  BY <1>2, BoundsAssumption DEF Record
<1>4. w \in Record
  BY <1>2, <1>3, RecordUpdates
<1>5. Becomes(r, t, w)
  BY <1>1, <1>4, BecomesIs
<1>6. Recounts(r, t)
  BY <1>2, <1>5 DEF Becomes, Recounts, Record
<1> QED BY <1>6

LEMMA UnwindDoes ==
  ASSUME worker \in Workers, run \in Runs, NEW kind, Unwind(kind)
  PROVE  /\ worker' \in Workers
         /\ \A r \in Runs, t \in Tasks : r # run => worker'[r][t] = worker[r][t]
         /\ \A t \in Tasks : worker'[run][t] =
              Told(run, t)
         /\ runner' = kind /\ cancelled' = FALSE
         /\ loop' = IF Quiet(run) THEN InRunner ELSE Free
<1>1. worker' = [worker EXCEPT ![run] = [t \in Tasks |-> Told(run, t)]]
  BY DEF Unwind
<1>2. \A t \in Tasks : Told(run, t) \in Record
  <2> TAKE t \in Tasks
  <2>1. worker[run][t] \in Record
    BY DEF Workers
  <2>2. (worker[run][t].hit \/ Live(run, t)) \in BOOLEAN
    BY <2>1, Zenon DEF Record
  <2> QED BY <2>1, <2>2, RecordUpdates DEF Told
<1>3. [t \in Tasks |-> Told(run, t)] \in [Tasks -> Record]
  BY <1>2
<1>4. worker' \in Workers
  BY <1>1, <1>3 DEF Workers
<1>5. /\ \A r \in Runs, t \in Tasks : r # run => worker'[r][t] = worker[r][t]
      /\ \A t \in Tasks : worker'[run][t] = Told(run, t)
  BY <1>1 DEF Workers
<1> QED BY <1>4, <1>5 DEF Unwind

-----------------------------------------------------------------------------
(* The invariant of the control variables: who may be inside a segment, and *)
(* how the attempt numbers of the coroutines are bounded.                   *)

\* The runner does not wait in these states: it goes straight on.
GoesOn == {"answered", "planned", "dag", "accepted", "stopped", "queued", "failed"}

LoopOK ==
  /\ runner \in GoesOn => loop = InRunner
  /\ loop = InRunner => runner \in GoesOn \cup {"cancelling", "failing"}
  /\ loop \in {InStop, InClose} => runner = "none" /\ daemon = "up"
  /\ daemon = "down" => runner = "none" /\ loop = Free
  /\ runner # "none" => run \in Runs
  /\ daemon # "up" => restarts < scenario.restarts

\* The runner has not scheduled anything yet.
Fresh == {"spawned", "preparing", "planning", "answered", "planned"}

\* The attempt numbers of the first r runs of a task.
Budget(r) == MaxAttempts * r

Number(r, t) == worker[r][t].n
Left(r, t)   == worker[r][t].left

Unborn    == \A r \in Runs, t \in Tasks : r > run => worker[r][t] = Idle
Counted   == \A r \in Runs, t \in Tasks : Live(r, t) =>
               Number(r, t) >= 1 /\ Number(r, t) + Left(r, t) <= Budget(r) + 1
Started   == \A r \in Runs, t \in Tasks :
               Pc(r, t) \notin {"none", "exited", "preparing", "head"} => Left(r, t) >= 1
Finished  == \A r \in Runs, t \in Tasks :
               Pc(r, t) = "cleanup" \/ (Pc(r, t) = "exited" /\ worker[r][t].result = "done") =>
                 taskState[Job][t] = "completed"
Spent     == \A t \in Tasks : attempts[t] <= Budget(run)
Untried   == runner # "none" => \A t \in Tasks : Pc(run, t) = "none" =>
               taskState[Job][t] = "completed" \/ attempts[t] <= Budget(run - 1)
Untouched == runner \in Fresh => \A t \in Tasks : worker[run][t] = Idle
Collected == runner = "dag" => \A t \in Tasks : Pc(run, t) # "exited"

BudgetOK == Unborn /\ Counted /\ Started /\ Finished /\ Spent /\ Untried /\ Untouched /\ Collected

Base == TypeOK /\ Rows!StoreInv /\ LoopOK /\ BudgetOK

LEMMA BudgetGrows ==
  /\ \A r \in Nat : Budget(r) \in Nat /\ Budget(r + 1) = Budget(r) + MaxAttempts
  /\ \A q, r \in Nat : q <= r => Budget(q) <= Budget(r)
  /\ Budget(0) = 0
<1>1. \A r \in Nat : Budget(r) \in Nat /\ Budget(r + 1) = Budget(r) + MaxAttempts
  BY BoundsAssumption DEF Budget
<1>2. ASSUME NEW q \in Nat, NEW r \in Nat, q <= r PROVE Budget(q) <= Budget(r)
  <2>1. PICK d \in Nat : r = q + d
    <3>1. r - q \in Nat /\ r = q + (r - q)
      BY <1>2
    <3> QED BY <3>1
  <2>2. MaxAttempts * (q + d) = MaxAttempts * q + MaxAttempts * d /\ MaxAttempts * d >= 0
         /\ MaxAttempts * q \in Nat /\ MaxAttempts * d \in Nat
    BY BoundsAssumption
  <2> QED BY <2>1, <2>2 DEF Budget
<1>3. Budget(0) = 0
  BY BoundsAssumption DEF Budget
<1> QED BY <1>1, <1>2, <1>3

LEMMA TypeParts ==
  ASSUME TypeOK
  PROVE  /\ Rows!TypeOK
         /\ worker \in Workers /\ run \in Nat /\ run \in Runs \cup {0}
         /\ attempts \in [Tasks -> Nat]
BY SameTypes DEF TypeOK, Workers, Record, Numbers, Runs

\* An attempt that has begun has a number of its run's budget.
LEMMA NumbersFit ==
  ASSUME Base, NEW r \in Runs, NEW t \in Tasks,
         Pc(r, t) \notin {"none", "exited", "preparing", "head"}
  PROVE  Number(r, t) \in Numbers /\ Number(r, t) <= Budget(r) /\ MyNumber(r, t) = Number(r, t)
<1>1. worker[r][t] \in Record
  BY TypeParts DEF Base, Workers
<1>2. Number(r, t) \in Nat /\ Left(r, t) \in Nat
  BY <1>1, BoundsAssumption DEF Record, Number, Left
<1>3. /\ Number(r, t) >= 1 /\ Number(r, t) + Left(r, t) <= Budget(r) + 1 /\ Left(r, t) >= 1
  BY DEF Base, BudgetOK, Counted, Started, Live
<1>a. r \in Nat /\ MaxRuns \in Nat /\ r <= MaxRuns
  BY BoundsAssumption DEF Runs
<1>4. Budget(r) \in Nat /\ Budget(MaxRuns) \in Nat /\ Budget(r) <= Budget(MaxRuns)
  BY <1>a, BudgetGrows
<1>5. Number(r, t) <= Budget(r) /\ Number(r, t) \in 1..Budget(MaxRuns)
  BY <1>2, <1>3, <1>4
<1> QED BY <1>5 DEF Numbers, Budget, MyNumber, Number

-----------------------------------------------------------------------------
(* Every step of the job is a step of the store, or leaves its rows alone.  *)

RowsStep == Rows!Next \/ UNCHANGED rows

LEMMA DaemonRows ==
  ASSUME Base, Client \/ Request \/ Shutdown \/ Crash \/ Daemon
  PROVE  RowsStep
<1>0. Rows!TypeOK
  BY TypeParts DEF Base
<1>1. CASE Submit
  BY <1>0, <1>1, CreateJobDoes DEF Submit, RowsStep
<1>2. CASE Stop
  BY <1>0, <1>2, RequestStopDoes DEF Stop, RowsStep
<1>a. ASSUME ResumeNow PROVE RowsStep
  BY <1>0, <1>a, PrepareResumeDoes DEF ResumeNow, RowsStep
<1>3. CASE Resume
  BY <1>3, <1>a DEF Resume, RowsStep, rows
<1>4. CASE ResumeTimesOut
  BY <1>4 DEF ResumeTimesOut, RowsStep
<1>5. CASE StopSettles
  BY <1>0, <1>5, SettleInflightDoes DEF StopSettles, RowsStep
<1>6. CASE StopCloses
  BY <1>0, <1>6, UpdateJobDoes, JobTypes DEF StopCloses, RowsStep, JobStates
<1>7. CASE ResumeWakes
  BY <1>7, <1>a DEF ResumeWakes, RowsStep
<1>8. CASE Shutdown
  BY <1>8 DEF Shutdown, RowsStep
<1>9. CASE Crash \/ ShutdownEnds
  BY <1>9 DEF Crash, ShutdownEnds, Gone, RowsStep
<1>10. CASE Start
  BY <1>0, <1>10, RecoverDoes DEF Start, RowsStep
<1> QED BY <1>1, <1>2, <1>3, <1>4, <1>5, <1>6, <1>7, <1>8, <1>9, <1>10 DEF Client, Request, Daemon

LEMMA RunnerRows ==
  ASSUME Base, RunnerStep
  PROVE  RowsStep
<1>0. Rows!TypeOK
  BY TypeParts DEF Base
<1>1. CASE \/ RunnerStarts \/ RunnerPlans \/ RunnerFails \/ RunnerSchedules \/ RunnerLeavesGraph
           \/ RunnerCollects \/ RunnerFinalizes \/ RunnerCannotBuild \/ RunnerCannotReconcile
           \/ RunnerEnds \/ RunnerCancelled \/ RunnerEscapes
  BY <1>1 DEF RunnerStarts, RunnerPlans, RunnerFails, RunnerSchedules, RunnerLeavesGraph,
    RunnerCollects, RunnerFinalizes, RunnerCannotBuild, RunnerCannotReconcile, RunnerEnds,
    RunnerCancelled, RunnerEscapes, RowsStep
<1>2. CASE RunnerPrepared \/ RunnerHasPlan
  BY <1>0, <1>2, UpdateJobDoes, JobTypes DEF RunnerPrepared, RunnerHasPlan, RowsStep, JobStates
<1>3. CASE RunnerStoresPlan
  <2>1. answer # None => answer.tasks \in SUBSET Tasks
    BY PlansAssumption DEF Base, TypeOK
  <2>2. {Fallback} \in SUBSET Tasks
    BY PlansAssumption
  <2> QED BY <1>0, <1>3, <2>1, <2>2, AddTasksDoes DEF RunnerStoresPlan, RowsStep
<1>4. CASE RunnerAccepts
  <2>1. "requested" \in Rows!Intents /\ "not-requested" \in Rows!Intents
    BY DEF Rows!Intents
  <2> QED BY <1>0, <1>4, <2>1, PrepareAcceptedDoes DEF RunnerAccepts, RowsStep
<1>5. CASE RunnerResumesAccepted \/ RunnerReconciles
  <2>1. {"applied", "skipped", "not-requested"} \subseteq Rows!Outcomes
    BY DEF Rows!Outcomes
  <2> QED BY <1>0, <1>5, <2>1, PublishDoes, MarkApplyStartedDoes DEF RunnerResumesAccepted,
        RunnerReconciles, RowsStep
<1>6. CASE RunnerSettles
  BY <1>0, <1>6, SettleInflightDoes DEF RunnerSettles, RowsStep
<1>7. CASE RunnerCloses
  BY <1>0, <1>7, UpdateJobDoes, JobTypes DEF RunnerCloses, RowsStep, JobStates
<1> QED BY <1>1, <1>2, <1>3, <1>4, <1>5, <1>6, <1>7 DEF RunnerStep

LEMMA WorkerRows ==
  ASSUME Base, NEW r \in Runs, NEW t \in Tasks, WorkerStep(r, t)
  PROVE  RowsStep
<1>0. Rows!TypeOK
  BY TypeParts DEF Base
<1>1. CASE \/ WorkerPrepared(r, t) \/ WorkerSeesStop(r, t) \/ WorkerAgentDone(r, t)
           \/ WorkerReviewPasses(r, t) \/ WorkerCleansUp(r, t) \/ WorkerRaises(r, t)
           \/ WorkerInterrupted(r, t) \/ WorkerRolledBack(r, t)
  BY <1>1 DEF WorkerPrepared, WorkerSeesStop, WorkerAgentDone, WorkerReviewPasses, WorkerCleansUp,
    WorkerRaises, WorkerInterrupted, WorkerRolledBack, RowsStep
<1>2. CASE \/ WorkerBegins(r, t) \/ WorkerExhausted(r, t) \/ WorkerTriesAgain(r, t)
           \/ WorkerGatesPass(r, t) \/ WorkerMerges(r, t) \/ WorkerCompletes(r, t)
  BY <1>0, <1>2, UpdateTaskDoes DEF WorkerBegins, WorkerExhausted, WorkerTriesAgain, WorkerGatesPass,
    WorkerMerges, WorkerCompletes, RowsStep, TaskStates
<1>3. CASE WorkerStartsAttempt(r, t)
  BY <1>0, <1>3, NumbersFit, StartAttemptDoes DEF WorkerStartsAttempt, RowsStep, Inside
<1>4. CASE WorkerRejected(r, t) \/ WorkerMerged(r, t)
  BY <1>0, <1>4, NumbersFit, FinishAttemptDoes DEF WorkerRejected, WorkerMerged, FinishAs, RowsStep, At
<1>5. CASE WorkerCancelled(r, t)
  BY <1>0, <1>5, NumbersFit, FinishAttemptDoes DEF WorkerCancelled, FinishAs, RowsStep
<1> QED BY <1>1, <1>2, <1>3, <1>4, <1>5 DEF WorkerStep

LEMMA EveryRowsStep == Base /\ [Next]_vars => RowsStep
BY DaemonRows, RunnerRows, WorkerRows DEF Next, vars, RowsStep

LEMMA StoreInvKept == Base /\ [Next]_vars => Rows!StoreInv'
BY EveryRowsStep, SameRows, StoreAssumptions, Rows!StoreInvStep DEF Base, RowsStep

-----------------------------------------------------------------------------
(* The control variables.                                                   *)

LEMMA LoopKept == Base /\ [Next]_vars => LoopOK'
<1> SUFFICES ASSUME Base, [Next]_vars PROVE LoopOK'
  OBVIOUS
<1> USE LoopNames DEF Base, LoopOK, GoesOn, Wake, Within, RunnerOnly, WorkerOnly, planned, budgets
<1>0. worker \in Workers /\ run \in Nat /\ run \in Runs \cup {0}
  BY TypeParts
<1>1. CASE Client
  BY <1>1 DEF Client, Submit, Stop, Resume, ResumeTimesOut, ResumeNow, Resumable, Waiting, Spawn, StopCancels
<1>2. CASE Request
  BY <1>2 DEF Request, StopSettles, StopCloses, ResumeWakes, ResumeNow, Resumable, Waiting, Spawn
<1>3. CASE Shutdown
  BY <1>3 DEF Shutdown
<1>4. CASE Crash \/ ShutdownEnds
  BY <1>4 DEF Crash, ShutdownEnds, Gone
<1>5. CASE Start
  BY <1>5 DEF Start, Spawn
<1>6. CASE RunnerStep
  <2>1. CASE \/ RunnerStarts \/ RunnerPrepared \/ RunnerPlans \/ RunnerStoresPlan \/ RunnerHasPlan
             \/ RunnerSchedules \/ RunnerFinalizes \/ RunnerAccepts \/ RunnerResumesAccepted
             \/ RunnerReconciles \/ RunnerCannotReconcile \/ RunnerEnds \/ RunnerEscapes \/ RunnerCloses
    BY <2>1 DEF RunnerStarts, RunnerPrepared, RunnerPlans, RunnerStoresPlan, RunnerHasPlan,
      RunnerSchedules, RunnerFinalizes, RunnerAccepts, RunnerResumesAccepted,
      RunnerReconciles, RunnerCannotReconcile, RunnerEnds, RunnerEscapes, RunnerCloses, Unwinding
  <2>2. CASE RunnerFails \/ RunnerCannotBuild \/ RunnerCancelled \/ RunnerLeavesGraph \/ RunnerCollects
    BY <2>2 DEF RunnerFails, RunnerCannotBuild, RunnerCancelled, RunnerLeavesGraph, RunnerCollects, Unwind
  <2>3. CASE RunnerSettles
    BY <2>3 DEF RunnerSettles, Unwinding, HandlerResumes
  <2> QED BY <1>6, <2>1, <2>2, <2>3 DEF RunnerStep
<1>7. ASSUME NEW r \in Runs, NEW t \in Tasks, WorkerStep(r, t) PROVE LoopOK'
  <2>1. /\ UNCHANGED <<daemon, runner, run, restarts, scenario>> /\ daemon # "down"
        /\ loop \in {Free, InWorker(r, t)}
    BY <1>7 DEF WorkerStep, WorkerPrepared, WorkerBegins, WorkerSeesStop, WorkerExhausted,
      WorkerStartsAttempt, WorkerRejected, WorkerTriesAgain, WorkerAgentDone, WorkerGatesPass,
      WorkerReviewPasses, WorkerMerges, WorkerMerged, WorkerCompletes, WorkerCleansUp, WorkerRaises,
      WorkerCancelled, WorkerInterrupted, WorkerRolledBack, At, Inside
  <2>2. loop' \in {Free, InWorker(r, t)}
    BY <1>7, <2>1 DEF WorkerStep, WorkerPrepared, WorkerBegins, WorkerSeesStop, WorkerExhausted,
      WorkerStartsAttempt, WorkerRejected, WorkerTriesAgain, WorkerAgentDone, WorkerGatesPass,
      WorkerReviewPasses, WorkerMerges, WorkerMerged, WorkerCompletes, WorkerCleansUp, WorkerRaises,
      WorkerCancelled, WorkerInterrupted, WorkerRolledBack, Goto, Exit
  <2> QED BY <2>1, <2>2
<1>8. CASE UNCHANGED vars
  BY <1>8 DEF vars
<1> QED BY <1>1, <1>2, <1>3, <1>4, <1>5, <1>6, <1>7, <1>8 DEF Next, Daemon

-----------------------------------------------------------------------------
(* The coroutines and their attempt numbers.                                *)

\* A live coroutine goes on; it may count an attempt that its budget still has.
Progress(r, t) ==
  /\ worker' \in Workers /\ OthersKept(r, t) /\ Live(r, t)
  /\ run' = run /\ runner' = runner /\ runner # "dag"
  /\ worker'[r][t].n >= Number(r, t)
  /\ worker'[r][t].n + worker'[r][t].left = Number(r, t) + Left(r, t)
  /\ worker'[r][t].pc # "none"
  /\ worker'[r][t].pc \notin {"exited", "preparing", "head"} => worker'[r][t].left >= 1
  /\ worker'[r][t].pc = "cleanup" \/ (worker'[r][t].pc = "exited" /\ worker'[r][t].result = "done") =>
       taskState'[Job][t] = "completed"
  /\ attempts' = attempts \/ (attempts' = [attempts EXCEPT ![t] = Number(r, t)] /\ Left(r, t) >= 1)

LEMMA WorkerProgress ==
  ASSUME Base, NEW r \in Runs, NEW t \in Tasks, WorkerStep(r, t)
  PROVE  Progress(r, t)
<1>0. worker \in Workers /\ Rows!TypeOK
  BY TypeParts DEF Base
<1>1. worker[r][t] \in Record
  BY <1>0 DEF Workers
<1>2. Number(r, t) \in Nat /\ Left(r, t) \in Nat
  BY <1>1, BoundsAssumption DEF Record, Number, Left
<1>3. runner = "dag" => loop = InRunner
  BY DEF Base, LoopOK, GoesOn
<1>4. Pc(r, t) \notin {"none", "exited", "preparing", "head"} => Left(r, t) >= 1
  BY DEF Base, BudgetOK, Started
<1>5. Pc(r, t) = "cleanup" => taskState[Job][t] = "completed"
  BY DEF Base, BudgetOK, Finished
<1>6. ASSUME NEW pc \in WorkerSteps, pc \notin {"none", "exited"}, Moves(r, t, pc, worker[r][t].result),
             Live(r, t), run' = run, runner' = runner, runner # "dag",
             attempts' = attempts \/ (attempts' = [attempts EXCEPT ![t] = Number(r, t)] /\ Left(r, t) >= 1),
             pc \notin {"preparing", "head"} => Left(r, t) >= 1,
             pc = "cleanup" => taskState'[Job][t] = "completed"
      PROVE  Progress(r, t)
  BY <1>6, <1>2 DEF Moves, Progress, Number, Left
<1>7. ASSUME NEW how \in {"done", "failed", "error", "cancelled"}, Moves(r, t, "exited", how),
             Live(r, t), run' = run, runner' = runner, runner # "dag", attempts' = attempts,
             how = "done" => taskState'[Job][t] = "completed"
      PROVE  Progress(r, t)
  BY <1>7, <1>2 DEF Moves, Progress, Number, Left
<1> USE DEF Live, WorkerOnly
<1>8. CASE \/ WorkerPrepared(r, t) \/ WorkerBegins(r, t) \/ WorkerStartsAttempt(r, t)
           \/ WorkerRejected(r, t) \/ WorkerAgentDone(r, t) \/ WorkerGatesPass(r, t)
           \/ WorkerReviewPasses(r, t) \/ WorkerMerges(r, t) \/ WorkerMerged(r, t)
  <2>1. \E pc \in {"head", "starting", "agent", "again", "gates", "reviewing", "waiting", "merging", "passed"} :
          Goto(r, t, pc) /\ (pc \notin {"preparing", "head"} => Left(r, t) >= 1)
    BY <1>8, <1>2, <1>4 DEF WorkerPrepared, WorkerBegins, WorkerStartsAttempt, WorkerRejected, WorkerAgentDone,
      WorkerGatesPass, WorkerReviewPasses, WorkerMerges, WorkerMerged, At, Inside, Left
  <2>2. /\ attempts' = attempts \/ (attempts' = [attempts EXCEPT ![t] = Number(r, t)] /\ Left(r, t) >= 1)
        /\ run' = run /\ runner' = runner /\ Live(r, t)
    BY <1>8, <1>2 DEF WorkerPrepared, WorkerBegins, WorkerStartsAttempt, WorkerRejected, WorkerAgentDone,
      WorkerGatesPass, WorkerReviewPasses, WorkerMerges, WorkerMerged, At, Inside, Left, Number, MyNumber
  <2>3. runner # "dag"
    BY <1>3, <1>8, LoopNames DEF WorkerPrepared, WorkerBegins, WorkerStartsAttempt, WorkerRejected, WorkerAgentDone,
      WorkerGatesPass, WorkerReviewPasses, WorkerMerges, WorkerMerged, At, Inside, Wake, Within
  <2>4. PICK pc \in {"head", "starting", "agent", "again", "gates", "reviewing", "waiting", "merging", "passed"} :
          Goto(r, t, pc) /\ (pc \notin {"preparing", "head"} => Left(r, t) >= 1)
    BY <2>1
  <2>5. pc \in WorkerSteps
    BY DEF WorkerSteps
  <2>6. Moves(r, t, pc, worker[r][t].result)
    BY <1>0, <2>4, <2>5, GotoDoes
  <2> QED BY <2>2, <2>3, <2>4, <2>5, <2>6, <1>6
<1>9. CASE WorkerCompletes(r, t)
  <2>1. Goto(r, t, "cleanup") /\ Pc(r, t) = "passed" /\ taskState'[Job][t] = "completed"
    BY <1>0, <1>9, UpdateTaskDoes DEF WorkerCompletes, Inside, TaskStates
  <2>2. runner # "dag" /\ attempts' = attempts /\ run' = run /\ runner' = runner
    BY <1>3, <1>9, LoopNames DEF WorkerCompletes, Inside, Within
  <2>3. "cleanup" \in WorkerSteps
    BY DEF WorkerSteps
  <2> QED BY <1>0, <1>4, <1>6, <2>1, <2>2, <2>3, GotoDoes
<1>10. CASE \/ WorkerSeesStop(r, t) \/ WorkerExhausted(r, t) \/ WorkerCleansUp(r, t)
            \/ WorkerRaises(r, t) \/ WorkerCancelled(r, t) \/ WorkerRolledBack(r, t)
  <2>1. Live(r, t) /\ attempts' = attempts /\ run' = run /\ runner' = runner
    BY <1>10 DEF WorkerSeesStop, WorkerExhausted, WorkerCleansUp, WorkerRaises, WorkerCancelled,
      WorkerRolledBack, At, Inside
  <2>2. runner # "dag"
    BY <1>3, <1>10, LoopNames DEF WorkerSeesStop, WorkerExhausted, WorkerCleansUp, WorkerRaises, WorkerCancelled,
      WorkerRolledBack, At, Inside, Wake, Within
  <2>3. \E how \in {"done", "failed", "error", "cancelled"} :
          Exit(r, t, how) /\ (how = "done" => taskState'[Job][t] = "completed")
    BY <1>5, <1>10 DEF WorkerSeesStop, WorkerExhausted, WorkerCleansUp, WorkerRaises, WorkerCancelled,
      WorkerRolledBack, At, Inside, rows
  <2> QED BY <1>0, <1>7, <2>1, <2>2, <2>3, ExitDoes
<1>11. CASE WorkerTriesAgain(r, t)
  <2>1. Live(r, t) /\ attempts' = attempts /\ run' = run /\ runner' = runner /\ runner # "dag" /\ Left(r, t) >= 1
    BY <1>3, <1>4, <1>11, LoopNames DEF WorkerTriesAgain, Inside, Within
  <2>2. Recounts(r, t)
    BY <1>0, <1>11, <2>1, TryAgainDoes DEF Left
  <2> QED BY <1>2, <2>1, <2>2 DEF Recounts, Progress, Number, Left
<1>12. CASE WorkerInterrupted(r, t)
  <2>1. Live(r, t) /\ attempts' = attempts /\ run' = run /\ runner' = runner /\ runner # "dag" /\ Left(r, t) >= 1
    BY <1>3, <1>4, <1>12, LoopNames DEF WorkerInterrupted, Wake
  <2>2. PICK how \in {"error", "cancelled"} : Moves(r, t, "rollback", how)
    BY <1>0, <1>12, InterruptDoes
  <2> QED BY <1>2, <2>1, <2>2 DEF Moves, Progress, Number, Left
<1> QED BY <1>8, <1>9, <1>10, <1>11, <1>12 DEF WorkerStep

\* Tasks are never deleted, and never taken back once they are completed.
LEMMA TasksKept ==
  ASSUME Base, [Next]_vars, NEW t \in Tasks
  PROVE  /\ taskState[Job][t] = "completed" => taskState'[Job][t] = "completed"
         /\ InPlan(t) => InPlan(t)'
         /\ \A n \in Numbers : attemptState[Job][t][n] \notin {Absent, "running"} =>
              attemptState'[Job][t][n] = attemptState[Job][t][n]
<1>1. Rows!TypeOK
  BY TypeParts DEF Base
<1>2. Rows!KeptTask(Job, t)
  BY <1>1, EveryRowsStep, SameRows, Rows!KeptStep, StoreAssumptions DEF RowsStep
<1> QED BY <1>2, SameTables DEF Rows!KeptTask, InPlan

\* A step of the daemon or of the runner does one of these to the coroutines.
StaysPut ==
  /\ worker' = worker /\ attempts' = attempts /\ run' = run
  /\ runner' # "none" => runner # "none"
  /\ runner' \in Fresh => runner \in Fresh
  /\ runner' = "dag" => runner \in Fresh \cup {"dag"}
Spawns == worker' = worker /\ attempts' = attempts /\ Spawn
Vanish ==
  /\ worker' = [r \in Runs |-> [t \in Tasks |-> Idle]] /\ attempts' = attempts
  /\ run' = run /\ runner' = "none"
Unwinds ==
  /\ attempts' = attempts /\ run' = run /\ runner # "none"
  /\ \E kind \in {"cancelling", "failing"} : Unwind(kind)
Schedules ==
  /\ attempts' = attempts /\ run' = run /\ runner = "dag" /\ runner' = "waiting"
  /\ UNCHANGED rows
  /\ \E S \in SUBSET Ready :
       worker' = [worker EXCEPT ![run] = [t \in Tasks |-> IF t \in S THEN Scheduled(t) ELSE @[t]]]
Collects ==
  /\ attempts' = attempts /\ run' = run /\ runner = "waiting" /\ runner' = "dag"
  /\ Results = {"done"}
  /\ worker' = [worker EXCEPT ![run] = [t \in Tasks |-> IF Exited(t) THEN Idle ELSE @[t]]]

Controls == Client \/ Request \/ Shutdown \/ Crash \/ Daemon \/ RunnerStep

LEMMA ControlKinds ==
  ASSUME Base, Controls
  PROVE  StaysPut \/ Spawns \/ Vanish \/ Unwinds \/ Schedules \/ Collects
<1> USE DEF Fresh, RunnerOnly, planned, budgets
<1>1. CASE Client \/ Request \/ Shutdown
  BY <1>1 DEF Client, Request, Submit, Stop, Resume, ResumeTimesOut, StopSettles, StopCloses, ResumeWakes,
    Shutdown, ResumeNow, StaysPut, Spawns
<1>2. CASE Crash \/ ShutdownEnds
  BY <1>2 DEF Crash, ShutdownEnds, Gone, Vanish
<1>3. CASE Start
  BY <1>3 DEF Start, StaysPut, Spawns
<1>4. CASE \/ RunnerStarts \/ RunnerPrepared \/ RunnerPlans \/ RunnerStoresPlan \/ RunnerHasPlan
           \/ RunnerFinalizes \/ RunnerAccepts \/ RunnerResumesAccepted
           \/ RunnerReconciles \/ RunnerCannotReconcile \/ RunnerEnds \/ RunnerEscapes \/ RunnerCloses
           \/ RunnerSettles
  BY <1>4 DEF RunnerStarts, RunnerPrepared, RunnerPlans, RunnerStoresPlan, RunnerHasPlan,
    RunnerFinalizes, RunnerAccepts, RunnerResumesAccepted, RunnerReconciles, RunnerCannotReconcile,
    RunnerEnds, RunnerEscapes, RunnerCloses, RunnerSettles, Unwinding, StaysPut
<1>5. CASE RunnerFails \/ RunnerCannotBuild \/ RunnerCancelled
  BY <1>5 DEF RunnerFails, RunnerCannotBuild, RunnerCancelled, Unwinds
<1>6. CASE RunnerLeavesGraph
  BY <1>6 DEF RunnerLeavesGraph, Unwinds, StaysPut
<1>7. CASE RunnerCollects
  BY <1>7 DEF RunnerCollects, Unwinds, Collects
<1>8. CASE RunnerSchedules
  BY <1>8 DEF RunnerSchedules, Schedules
<1> QED BY <1>1, <1>2, <1>3, <1>4, <1>5, <1>6, <1>7, <1>8 DEF Controls, RunnerStep, Daemon

LEMMA StepKinds ==
  ASSUME Base, [Next]_vars
  PROVE  \/ StaysPut \/ Spawns \/ Vanish \/ Unwinds \/ Schedules \/ Collects
         \/ \E r \in Runs, t \in Tasks : Progress(r, t)
<1>1. CASE UNCHANGED vars
  BY <1>1 DEF vars, StaysPut, Fresh
<1> QED BY <1>1, ControlKinds, WorkerProgress DEF Next, Controls

\* The rows of the runner's own coroutines.
LEMMA RunChanges ==
  ASSUME worker \in Workers, run \in Runs, NEW f \in [Tasks -> Record],
         worker' = [worker EXCEPT ![run] = f]
  PROVE  /\ worker' \in Workers
         /\ \A r \in Runs, t \in Tasks : r # run => worker'[r][t] = worker[r][t]
         /\ \A t \in Tasks : worker'[run][t] = f[t]
BY DEF Workers

LEMMA IdleIs ==
  /\ Idle \in Record /\ Idle.pc = "none"
  /\ [r \in Runs |-> [t \in Tasks |-> Idle]] \in Workers
BY BoundsAssumption DEF Idle, Record, WorkerSteps, Workers

LEMMA ScheduledIs ==
  ASSUME attempts \in [Tasks -> Nat], NEW t \in Tasks
  PROVE  /\ Scheduled(t) \in Record /\ Scheduled(t).pc = "preparing"
         /\ Scheduled(t).n = attempts[t] + 1 /\ Scheduled(t).left = MaxAttempts
         /\ ~Scheduled(t).hit /\ Scheduled(t).result = "none"
<1>1. attempts[t] + 1 \in Nat /\ MaxAttempts \in 0..MaxAttempts /\ "preparing" \in WorkerSteps
  BY BoundsAssumption DEF WorkerSteps
<1>2. Scheduled(t) \in Record
  BY <1>1, IdleIs, RecordUpdates DEF Scheduled
<1>3. /\ Scheduled(t).pc = "preparing" /\ Scheduled(t).n = attempts[t] + 1
      /\ Scheduled(t).left = MaxAttempts /\ ~Scheduled(t).hit /\ Scheduled(t).result = "none"
  BY DEF Scheduled, Idle
<1> QED BY <1>2, <1>3

LEMMA SchedulesDoes ==
  ASSUME Base, Schedules
  PROVE  \E S \in SUBSET Ready :
           /\ worker' \in Workers
           /\ \A r \in Runs, t \in Tasks : r # run => worker'[r][t] = worker[r][t]
           /\ \A t \in Tasks : worker'[run][t] = IF t \in S THEN Scheduled(t) ELSE worker[run][t]
<1>0. worker \in Workers /\ run \in Runs /\ attempts \in [Tasks -> Nat]
  BY TypeParts DEF Base, LoopOK, Schedules
<1>1. PICK S \in SUBSET Ready :
        worker' = [worker EXCEPT ![run] = [t \in Tasks |-> IF t \in S THEN Scheduled(t) ELSE @[t]]]
  BY DEF Schedules
<1> DEFINE f == [t \in Tasks |-> IF t \in S THEN Scheduled(t) ELSE worker[run][t]]
<1>2. worker' = [worker EXCEPT ![run] = f]
  BY <1>1
<1>3. f \in [Tasks -> Record]
  BY <1>0, ScheduledIs DEF Workers
<1>4. \A t \in Tasks : f[t] = IF t \in S THEN Scheduled(t) ELSE worker[run][t]
  OBVIOUS
<1> HIDE DEF f
<1>5. /\ worker' \in Workers
      /\ \A r \in Runs, t \in Tasks : r # run => worker'[r][t] = worker[r][t]
      /\ \A t \in Tasks : worker'[run][t] = f[t]
  BY <1>0, <1>2, <1>3, RunChanges
<1> QED BY <1>4, <1>5

LEMMA CollectsDoes ==
  ASSUME Base, Collects
  PROVE  /\ worker' \in Workers
         /\ \A r \in Runs, t \in Tasks : r # run => worker'[r][t] = worker[r][t]
         /\ \A t \in Tasks : worker'[run][t] = IF Exited(t) THEN Idle ELSE worker[run][t]
<1>0. worker \in Workers /\ run \in Runs
  BY TypeParts DEF Base, LoopOK, Collects
<1> DEFINE f == [t \in Tasks |-> IF Exited(t) THEN Idle ELSE worker[run][t]]
<1>2. worker' = [worker EXCEPT ![run] = f]
  BY DEF Collects
<1>3. f \in [Tasks -> Record]
  BY <1>0, IdleIs DEF Workers
<1>4. \A t \in Tasks : f[t] = IF Exited(t) THEN Idle ELSE worker[run][t]
  OBVIOUS
<1> HIDE DEF f
<1> QED BY <1>0, <1>2, <1>3, <1>4, RunChanges

LEMMA BudgetKept == Base /\ [Next]_vars => BudgetOK'
<1> SUFFICES ASSUME Base, [Next]_vars PROVE BudgetOK'
  OBVIOUS
<1>0. /\ worker \in Workers /\ run \in Nat /\ run \in Runs \cup {0} /\ attempts \in [Tasks -> Nat]
      /\ Runs \subseteq Nat \ {0}
  BY TypeParts DEF Base, Runs
<1>a. \A t \in Tasks : taskState[Job][t] = "completed" => taskState'[Job][t] = "completed"
  BY TasksKept
<1>b. \A q \in Nat : Budget(q) \in Nat
  BY BudgetGrows
<1>c. BudgetOK /\ LoopOK
  BY DEF Base
<1> DEFINE Parts == Unborn /\ Counted /\ Started /\ Finished /\ Spent /\ Untried /\ Untouched /\ Collected
<1> USE DEF Pc, Live, Number, Left, Fresh
<1>1. CASE StaysPut
  <2>1. worker' = worker /\ attempts' = attempts /\ run' = run
    BY <1>1 DEF StaysPut
  <2>2. Unborn' /\ Counted' /\ Started'
    BY <1>c, <2>1 DEF BudgetOK, Unborn, Counted, Started, Budget
  <2>3. Finished'
    BY <1>a, <1>c, <2>1 DEF BudgetOK, Finished
  <2>4. Spent' /\ Untried'
    BY <1>1, <1>a, <1>c, <2>1 DEF BudgetOK, Spent, Untried, Budget, StaysPut
  <2>5. Untouched' /\ Collected'
    BY <1>1, <1>c, <2>1, IdleIs DEF BudgetOK, Untouched, Collected, StaysPut
  <2> QED BY <2>2, <2>3, <2>4, <2>5 DEF BudgetOK
<1>2. CASE Spawns
  <2>1. worker' = worker /\ attempts' = attempts /\ run' = run + 1 /\ run + 1 \in Runs /\ runner' = "spawned"
    BY <1>2 DEF Spawns, Spawn
  <2>2. Unborn'
    BY <1>0, <1>c, <2>1 DEF BudgetOK, Unborn
  <2>3. Counted' /\ Started'
    BY <1>c, <2>1 DEF BudgetOK, Counted, Started, Budget
  <2>4. Finished'
    BY <1>a, <1>c, <2>1 DEF BudgetOK, Finished
  <2>5. Budget(run) <= Budget(run + 1) /\ (run + 1) - 1 = run
    BY <1>0, BudgetGrows
  <2>6. Spent' /\ Untried'
    <3>1. \A t \in Tasks : attempts[t] <= Budget(run) /\ attempts[t] \in Nat
      BY <1>0, <1>c DEF BudgetOK, Spent
    <3>2. Budget(run) \in Nat /\ Budget(run + 1) \in Nat
      BY <1>0, BudgetGrows
    <3>3. Budget(run)' = Budget(run + 1) /\ Budget(run - 1)' = Budget(run)
      BY <2>1, <2>5 DEF Budget
    <3>4. \A t \in Tasks : attempts'[t] <= Budget(run)' /\ attempts'[t] <= Budget(run - 1)'
      BY <2>1, <2>5, <3>1, <3>2, <3>3
    <3> QED BY <3>4 DEF Spent, Untried
  <2>7. Untouched' /\ Collected'
    BY <1>0, <1>c, <2>1, IdleIs DEF BudgetOK, Unborn, Untouched, Collected
  <2> QED BY <2>2, <2>3, <2>4, <2>6, <2>7 DEF BudgetOK
<1>3. CASE Vanish
  <2>1. attempts' = attempts /\ run' = run /\ runner' = "none" /\ \A r \in Runs, t \in Tasks : worker'[r][t] = Idle
    BY <1>3 DEF Vanish
  <2>2. Unborn' /\ Counted' /\ Started' /\ Finished'
    BY <2>1, IdleIs DEF Unborn, Counted, Started, Finished
  <2>3. Spent' /\ Untried' /\ Untouched' /\ Collected'
    BY <1>c, <2>1 DEF BudgetOK, Spent, Untried, Untouched, Collected, Budget
  <2> QED BY <2>2, <2>3 DEF BudgetOK
<1>4. CASE Unwinds
  <2>1. PICK kind \in {"cancelling", "failing"} : Unwind(kind)
    BY <1>4 DEF Unwinds
  <2>2. run \in Runs /\ attempts' = attempts /\ run' = run /\ runner # "none" /\ runner' = kind
    BY <1>4, <1>c, <2>1 DEF Unwinds, LoopOK, Unwind
  <2>3. \A r \in Runs, t \in Tasks : worker'[r][t] = worker[r][t] \/ (r = run /\ worker'[r][t] = Told(r, t))
    BY <1>0, <2>1, <2>2, UnwindDoes
  <2>4. \A r \in Runs, t \in Tasks :
          /\ worker'[r][t].pc = worker[r][t].pc /\ worker'[r][t].n = worker[r][t].n
          /\ worker'[r][t].left = worker[r][t].left /\ worker'[r][t].result = worker[r][t].result
    <3>1. \A r \in Runs, t \in Tasks : worker[r][t] \in Record
      BY <1>0 DEF Workers
    <3>2. \A r \in Runs, t \in Tasks :
            /\ Told(r, t).pc = worker[r][t].pc /\ Told(r, t).n = worker[r][t].n
            /\ Told(r, t).left = worker[r][t].left /\ Told(r, t).result = worker[r][t].result
      BY <3>1 DEF Told, Record
    <3> QED BY <2>3, <3>2
  <2>5. Unborn'
    BY <1>0, <1>c, <2>2, <2>3 DEF BudgetOK, Unborn
  <2>6. Counted' /\ Started'
    BY <1>c, <2>4 DEF BudgetOK, Counted, Started, Budget
  <2>7. Finished'
    BY <1>a, <1>c, <2>4 DEF BudgetOK, Finished
  <2>8. Spent' /\ Untried'
    BY <1>a, <1>c, <2>2, <2>4 DEF BudgetOK, Spent, Untried, Budget
  <2>9. Untouched' /\ Collected'
    BY <2>2 DEF Untouched, Collected
  <2> QED BY <2>5, <2>6, <2>7, <2>8, <2>9 DEF BudgetOK
<1>5. CASE Schedules
  <2>1. PICK S \in SUBSET Ready :
          /\ \A r \in Runs, t \in Tasks : r # run => worker'[r][t] = worker[r][t]
          /\ \A t \in Tasks : worker'[run][t] = IF t \in S THEN Scheduled(t) ELSE worker[run][t]
    BY <1>5, SchedulesDoes
  <2>2. run \in Runs /\ attempts' = attempts /\ run' = run /\ runner = "dag" /\ runner' = "waiting"
    BY <1>5, <1>c DEF Schedules, LoopOK
  <2>3. \A t \in S : t \in Tasks /\ ~Live(run, t) /\ taskState[Job][t] = "pending"
    BY <2>1 DEF Ready
  <2>4. Unborn'
    BY <1>0, <1>c, <2>1, <2>2 DEF BudgetOK, Unborn
  <2>5. \A t \in S : attempts[t] <= Budget(run - 1)
    BY <1>c, <2>2, <2>3 DEF BudgetOK, Collected, Untried
  <2>6. Counted'
    <3>1. ASSUME NEW t \in S PROVE worker'[run][t].n >= 1 /\ worker'[run][t].n + worker'[run][t].left <= Budget(run) + 1
      <4>1. worker'[run][t].n = attempts[t] + 1 /\ worker'[run][t].left = MaxAttempts
        BY <1>0, <2>1, <2>3, <3>1, ScheduledIs
      <4>2. run - 1 \in Nat /\ (run - 1) + 1 = run
        BY <1>0, <2>2
      <4>3. Budget(run - 1) \in Nat /\ Budget(run) = Budget(run - 1) + MaxAttempts
        BY <4>2, BudgetGrows
      <4>4. attempts[t] \in Nat /\ attempts[t] <= Budget(run - 1)
        BY <1>0, <2>3, <2>5, <3>1
      <4> QED BY <4>1, <4>3, <4>4, BoundsAssumption
    <3>2. ASSUME NEW r \in Runs, NEW t \in Tasks, Live(r, t)'
          PROVE  worker'[r][t].n >= 1 /\ worker'[r][t].n + worker'[r][t].left <= Budget(r) + 1
      BY <1>c, <2>1, <3>1, <3>2 DEF BudgetOK, Counted
    <3> QED BY <3>2 DEF Counted, Budget
  <2>7. Started' /\ Finished'
    BY <1>0, <1>a, <1>c, <2>1, ScheduledIs DEF BudgetOK, Started, Finished
  <2>8. Spent' /\ Untried'
    BY <1>0, <1>a, <1>c, <2>1, <2>2, ScheduledIs DEF BudgetOK, Spent, Untried, Budget
  <2>9. Untouched' /\ Collected'
    BY <2>2 DEF Untouched, Collected
  <2> QED BY <2>4, <2>6, <2>7, <2>8, <2>9 DEF BudgetOK
<1>6. CASE Collects
  <2>1. /\ \A r \in Runs, t \in Tasks : r # run => worker'[r][t] = worker[r][t]
        /\ \A t \in Tasks : worker'[run][t] = IF Exited(t) THEN Idle ELSE worker[run][t]
    BY <1>6, CollectsDoes
  <2>2. run \in Runs /\ attempts' = attempts /\ run' = run /\ runner = "waiting" /\ runner' = "dag"
    BY <1>6, <1>c DEF Collects, LoopOK
  <2>3. \A t \in Tasks : Exited(t) => taskState[Job][t] = "completed"
    <3>1. \A t \in Tasks : Exited(t) => worker[run][t].result = "done"
      BY <1>6 DEF Collects, Results
    <3> QED BY <1>c, <2>2, <3>1 DEF BudgetOK, Finished, Exited
  <2>4. Unborn'
    BY <1>0, <1>c, <2>1, <2>2 DEF BudgetOK, Unborn
  <2>5. Counted' /\ Started'
    BY <1>c, <2>1, IdleIs DEF BudgetOK, Counted, Started, Budget
  <2>6. Finished'
    BY <1>a, <1>c, <2>1, IdleIs DEF BudgetOK, Finished
  <2>7. Spent' /\ Untried'
    BY <1>a, <1>c, <2>1, <2>2, <2>3 DEF BudgetOK, Spent, Untried, Budget
  <2>8. Untouched' /\ Collected'
    BY <2>1, <2>2, IdleIs DEF Untouched, Collected, Exited
  <2> QED BY <2>4, <2>5, <2>6, <2>7, <2>8 DEF BudgetOK
<1>7. ASSUME NEW r \in Runs, NEW t \in Tasks, Progress(r, t) PROVE BudgetOK'
  <2>1. /\ worker' \in Workers /\ run' = run /\ runner' = runner /\ runner # "dag" /\ Live(r, t)
        /\ \A q \in Runs, u \in Tasks : q # r \/ u # t => worker'[q][u] = worker[q][u]
    BY <1>7 DEF Progress, OthersKept
  <2>2. worker[r][t] # Idle /\ r <= run
    BY <1>0, <1>c, <2>1, IdleIs DEF BudgetOK, Unborn
  <2>3. Unborn'
    BY <1>0, <1>c, <2>1, <2>2 DEF BudgetOK, Unborn
  <2>4. /\ Number(r, t) \in Nat /\ Left(r, t) \in Nat /\ worker'[r][t].n \in Nat /\ worker'[r][t].left \in Nat
        /\ Budget(r) \in Nat
    BY <1>0, <1>b, <2>1, BoundsAssumption DEF Workers, Record
  <2>5. Number(r, t) >= 1 /\ Number(r, t) + Left(r, t) <= Budget(r) + 1
    BY <1>c, <2>1 DEF BudgetOK, Counted
  <2>6. worker'[r][t].n >= 1 /\ worker'[r][t].n + worker'[r][t].left <= Budget(r) + 1
    BY <1>7, <2>4, <2>5 DEF Progress
  <2>7. Counted'
    BY <1>c, <2>1, <2>6 DEF BudgetOK, Counted, Budget
  <2>8. Started'
    BY <1>7, <1>c, <2>1 DEF BudgetOK, Started, Progress
  <2>9. Finished'
    BY <1>7, <1>a, <1>c, <2>1 DEF BudgetOK, Finished, Progress
  <2>10. attempts' = attempts \/ (attempts' = [attempts EXCEPT ![t] = Number(r, t)] /\ Number(r, t) <= Budget(r))
    BY <1>7, <2>4, <2>5 DEF Progress
  <2>11. Budget(r) <= Budget(run) /\ Budget(run) \in Nat
    BY <1>0, <2>2, BudgetGrows
  <2>12. \A u \in Tasks : attempts'[u] <= Budget(run)
    BY <1>0, <1>c, <2>4, <2>10, <2>11 DEF BudgetOK, Spent
  <2>13. Spent'
    BY <2>1, <2>12 DEF Spent, Budget
  <2>14. ASSUME runner # "none", NEW u \in Tasks, Pc(run, u)' = "none", taskState'[Job][u] # "completed"
         PROVE  attempts'[u] <= Budget(run - 1)
    <3>1. run \in Runs
      BY <1>c, <2>14 DEF LoopOK
    <3>2. Pc(run, u) = "none"
      BY <1>7, <2>1, <2>14, <3>1 DEF Progress
    <3>3. attempts[u] <= Budget(run - 1)
      BY <1>a, <1>c, <2>14, <3>2 DEF BudgetOK, Untried
    <3>4. CASE attempts' = attempts
      BY <3>3, <3>4
    <3>5. CASE u # t
      BY <1>0, <2>10, <3>3, <3>5
    <3>6. CASE u = t /\ attempts' = [attempts EXCEPT ![t] = Number(r, t)] /\ Number(r, t) <= Budget(r)
      <4>1. r # run
        BY <2>1, <3>2, <3>6
      <4>2. r <= run - 1 /\ run - 1 \in Nat /\ r \in Nat
        BY <1>0, <2>2, <3>1, <4>1
      <4>3. Budget(r) <= Budget(run - 1) /\ Budget(run - 1) \in Nat
        BY <4>2, BudgetGrows
      <4>4. attempts'[u] = Number(r, t)
        BY <1>0, <3>6
      <4> QED BY <2>4, <3>6, <4>3, <4>4
    <3> QED BY <2>10, <3>4, <3>5, <3>6
  <2>15. Untried'
    BY <2>1, <2>14 DEF Untried, Budget
  <2>16. ASSUME runner \in Fresh, NEW u \in Tasks PROVE worker'[run][u] = Idle
    <3>1. run \in Runs /\ worker[run][u] = Idle /\ worker[run][t] = Idle
      BY <1>c, <2>16 DEF LoopOK, BudgetOK, Untouched
    <3> QED BY <2>1, <2>2, <3>1
  <2>17. Untouched' /\ Collected'
    BY <2>1, <2>16 DEF Untouched, Collected
  <2> QED BY <2>3, <2>7, <2>8, <2>9, <2>13, <2>15, <2>17 DEF BudgetOK
<1> QED BY <1>1, <1>2, <1>3, <1>4, <1>5, <1>6, <1>7, StepKinds

\* The coroutines and the counted attempts keep their types.
LEMMA WorkersKept ==
  ASSUME Base, [Next]_vars
  PROVE  /\ worker' \in Workers /\ run' \in Runs \cup {0}
         /\ attempts' \in [Tasks -> Numbers \cup {0}]
<1>0. /\ worker \in Workers /\ run \in Runs \cup {0} /\ attempts \in [Tasks -> Numbers \cup {0}]
  BY TypeParts DEF Base, TypeOK
<1>1. CASE StaysPut \/ Spawns
  BY <1>0, <1>1 DEF StaysPut, Spawns, Spawn
<1>2. CASE Vanish
  BY <1>0, <1>2, IdleIs DEF Vanish
<1>3. CASE Unwinds
  <2>1. run \in Runs
    BY <1>3 DEF Unwinds, Base, LoopOK
  <2> QED BY <1>0, <1>3, <2>1, UnwindDoes DEF Unwinds
<1>4. CASE Schedules
  BY <1>0, <1>4, SchedulesDoes DEF Schedules
<1>5. CASE Collects
  BY <1>0, <1>5, CollectsDoes DEF Collects
<1>6. ASSUME NEW r \in Runs, NEW t \in Tasks, Progress(r, t)
      PROVE  /\ worker' \in Workers /\ run' \in Runs \cup {0}
             /\ attempts' \in [Tasks -> Numbers \cup {0}]
  <2>1. ASSUME Left(r, t) >= 1 PROVE Number(r, t) \in Numbers
    <3>1. Number(r, t) \in Nat /\ Left(r, t) \in Nat
      BY <1>0, BoundsAssumption DEF Workers, Record, Number, Left
    <3>2. Number(r, t) >= 1 /\ Number(r, t) + Left(r, t) <= Budget(r) + 1
      BY <1>6 DEF Progress, Base, BudgetOK, Counted
    <3>3. r \in Nat /\ MaxRuns \in Nat /\ r <= MaxRuns
      BY BoundsAssumption DEF Runs
    <3>4. Budget(r) \in Nat /\ Budget(MaxRuns) \in Nat /\ Budget(r) <= Budget(MaxRuns)
      BY <3>3, BudgetGrows
    <3>5. Number(r, t) \in 1..Budget(MaxRuns)
      BY <2>1, <3>1, <3>2, <3>4
    <3> QED BY <3>5 DEF Numbers, Budget
  <2> QED BY <1>0, <1>6, <2>1 DEF Progress
<1> QED BY <1>1, <1>2, <1>3, <1>4, <1>5, <1>6, StepKinds

\* Who may be inside a segment.
Segments == {Free, InRunner, InStop, InClose} \cup {InWorker(r, t) : r \in Runs, t \in Tasks}

LEMMA SegmentsAre ==
  /\ Free \in Segments /\ InRunner \in Segments /\ InStop \in Segments /\ InClose \in Segments
  /\ \A r \in Runs, t \in Tasks : InWorker(r, t) \in Segments
BY DEF Segments

ControlTypes ==
  /\ daemon \in {"up", "closing", "leaving", "down"}
  /\ runner \in RunnerSteps
  /\ loop \in Segments
  /\ resuming \in Runs \cup {0}
AnswerTypes == answer = None \/ (runner = "answered" /\ answer \in Proposals[scenario.planner])
BoundTypes ==
  /\ scenario \in Scenarios
  /\ stops \in 0..scenario.stops /\ resumes \in 0..scenario.resumes
  /\ restarts \in 0..scenario.restarts

LEMMA ControlKept ==
  ASSUME Base, [Next]_vars
  PROVE  ControlTypes' /\ cancelled' \in BOOLEAN
<1>0. ControlTypes /\ run \in Runs \cup {0}
  BY DEF Base, TypeOK, ControlTypes, Segments
<1>1. cancelled' \in BOOLEAN
  <2>0. cancelled \in BOOLEAN
    BY DEF Base, TypeOK
  <2>1. CASE UNCHANGED cancelled \/ cancelled' = FALSE
    BY <2>0, <2>1
  <2>2. CASE cancelled' = (runner # "none")
    BY <2>2
  <2>3. UNCHANGED cancelled \/ cancelled' = FALSE \/ cancelled' = (runner # "none")
    <3>1. CASE Client \/ Request \/ Shutdown \/ Crash \/ Daemon
      BY <3>1 DEF Client, Request, Daemon, Submit, Stop, Resume, ResumeTimesOut, StopSettles, StopCloses,
        ResumeWakes, Shutdown, Crash, ShutdownEnds, Gone, Start, ResumeNow, Spawn, StopCancels
    <3>2. CASE RunnerStep
      BY <3>2 DEF RunnerStep, RunnerStarts, RunnerPrepared, RunnerPlans, RunnerStoresPlan, RunnerHasPlan,
        RunnerFails, RunnerSchedules, RunnerLeavesGraph, RunnerCollects, RunnerFinalizes, RunnerAccepts,
        RunnerCannotBuild, RunnerResumesAccepted, RunnerReconciles, RunnerCannotReconcile, RunnerEnds,
        RunnerCancelled, RunnerEscapes, RunnerSettles, RunnerCloses, Unwind
    <3>3. CASE \E r \in Runs, t \in Tasks : WorkerStep(r, t)
      BY <3>3 DEF WorkerStep, WorkerPrepared, WorkerBegins, WorkerSeesStop, WorkerExhausted,
        WorkerStartsAttempt, WorkerRejected, WorkerTriesAgain, WorkerAgentDone, WorkerGatesPass,
        WorkerReviewPasses, WorkerMerges, WorkerMerged, WorkerCompletes, WorkerCleansUp, WorkerRaises,
        WorkerCancelled, WorkerInterrupted, WorkerRolledBack, WorkerOnly
    <3> QED BY <3>1, <3>2, <3>3 DEF Next, vars
  <2> QED BY <2>1, <2>2, <2>3
<1>2. ControlTypes'
  <2> USE SegmentsAre, <1>0 DEF ControlTypes, RunnerSteps
  <2>1. CASE Client \/ Request \/ Shutdown
    BY <2>1 DEF Client, Request, Submit, Stop, Resume, ResumeTimesOut, StopSettles, StopCloses,
      ResumeWakes, Shutdown, ResumeNow, Spawn, RunnerOnly
  <2>2. CASE Crash \/ Daemon
    BY <2>2 DEF Crash, Daemon, ShutdownEnds, Gone, Start, Spawn
  <2>3. CASE \/ RunnerStarts \/ RunnerPrepared \/ RunnerHasPlan
             \/ RunnerSchedules \/ RunnerFinalizes \/ RunnerAccepts \/ RunnerResumesAccepted
             \/ RunnerReconciles \/ RunnerCannotReconcile \/ RunnerEnds \/ RunnerEscapes \/ RunnerCloses
    BY <2>3 DEF RunnerStarts, RunnerPrepared, RunnerHasPlan,
      RunnerSchedules, RunnerFinalizes, RunnerAccepts, RunnerResumesAccepted,
      RunnerReconciles, RunnerCannotReconcile, RunnerEnds, RunnerEscapes, RunnerCloses, RunnerOnly
  <2>4. CASE \/ RunnerFails \/ RunnerCannotBuild \/ RunnerCancelled \/ RunnerLeavesGraph \/ RunnerCollects
             \/ RunnerSettles \/ RunnerPlans \/ RunnerStoresPlan
    BY <2>4 DEF RunnerFails, RunnerCannotBuild, RunnerCancelled, RunnerLeavesGraph, RunnerCollects, Unwind,
      RunnerSettles, RunnerPlans, RunnerStoresPlan, RunnerOnly
  <2>5. ASSUME NEW r \in Runs, NEW t \in Tasks, WorkerStep(r, t) PROVE ControlTypes'
    <3>1. /\ UNCHANGED <<daemon, runner, resuming>>
          /\ loop' = loop \/ loop' = Free \/ loop' = InWorker(r, t)
      BY <2>5 DEF WorkerStep, WorkerPrepared, WorkerBegins, WorkerSeesStop, WorkerExhausted,
        WorkerStartsAttempt, WorkerRejected, WorkerTriesAgain, WorkerAgentDone, WorkerGatesPass,
        WorkerReviewPasses, WorkerMerges, WorkerMerged, WorkerCompletes, WorkerCleansUp, WorkerRaises,
        WorkerCancelled, WorkerInterrupted, WorkerRolledBack, WorkerOnly, Goto, Exit
    <3> QED BY <3>1
  <2>6. CASE UNCHANGED vars
    BY <2>6 DEF vars
  <2> QED BY <2>1, <2>2, <2>3, <2>4, <2>5, <2>6 DEF Next, RunnerStep
<1> QED BY <1>1, <1>2

\* The planner's answer is there exactly while the runner validates and stores it.
LEMMA AnswerKept ==
  ASSUME Base, [Next]_vars
  PROVE  AnswerTypes' /\ deps' \in [Tasks -> SUBSET Tasks]
<1>0. AnswerTypes /\ deps \in [Tasks -> SUBSET Tasks] /\ scenario \in Scenarios
  BY DEF Base, TypeOK, AnswerTypes
<1>1. /\ runner = "answered" => loop = InRunner
      /\ daemon = "down" => runner = "none"
      /\ loop = InRunner => loop # Free /\ loop # InStop /\ loop # InClose
  BY LoopNames DEF Base, LoopOK, GoesOn
<1>2. CASE RunnerPlans
  BY <1>0, <1>2 DEF RunnerPlans, AnswerTypes
<1>3. CASE RunnerStoresPlan
  <2>1. answer' = None
    BY <1>3 DEF RunnerStoresPlan
  <2>2. CASE UNCHANGED deps
    BY <1>0, <2>1, <2>2 DEF AnswerTypes
  <2>3. CASE /\ answer # None /\ Accepts(answer, scenario.maxTasks)
             /\ deps' = [t \in Tasks |-> IF t \in answer.tasks THEN answer.needs[t] ELSE {}]
    <3>1. answer.tasks \subseteq Tasks
      BY <1>0, <2>3, PlansAssumption DEF AnswerTypes
    <3>2. \A t \in answer.tasks : answer.needs[t] \subseteq answer.tasks
      BY <2>3 DEF Accepts
    <3>3. deps' \in [Tasks -> SUBSET Tasks]
      BY <2>3, <3>1, <3>2
    <3> QED BY <2>1, <3>3 DEF AnswerTypes
  <2> QED BY <1>3, <2>2, <2>3 DEF RunnerStoresPlan
<1>4. ASSUME UNCHANGED <<deps, scenario>>,
             answer' = None \/ (answer' = answer /\ (runner = "answered" => runner' = "answered"))
      PROVE  AnswerTypes' /\ deps' \in [Tasks -> SUBSET Tasks]
  BY <1>0, <1>4 DEF AnswerTypes
<1>5. CASE Client \/ Request \/ Shutdown \/ Crash \/ Daemon
  <2>1. /\ UNCHANGED <<deps, scenario>>
        /\ answer' = None \/ (answer' = answer /\ (runner = "answered" => runner' = "answered"))
    BY <1>1, <1>5 DEF Client, Request, Daemon, Submit, Stop, Resume, ResumeTimesOut, StopSettles, StopCloses,
      ResumeWakes, Shutdown, Crash, ShutdownEnds, Gone, Start, ResumeNow, Resumable, Waiting, Spawn,
      RunnerOnly, planned, Wake
  <2> QED BY <1>4, <2>1
<1>6. CASE RunnerStep /\ ~RunnerPlans /\ ~RunnerStoresPlan
  <2>1. UNCHANGED <<deps, scenario, answer>> /\ (runner = "answered" => runner' = "answered")
    BY <1>1, <1>6 DEF RunnerStep, RunnerStarts, RunnerPrepared, RunnerHasPlan,
      RunnerFails, RunnerSchedules, RunnerLeavesGraph, RunnerCollects, RunnerFinalizes, RunnerAccepts,
      RunnerCannotBuild, RunnerResumesAccepted, RunnerReconciles, RunnerCannotReconcile, RunnerEnds,
      RunnerCancelled, RunnerEscapes, RunnerSettles, RunnerCloses, Unwinding, RunnerOnly, planned
  <2> QED BY <1>4, <2>1
<1>7. ASSUME NEW r \in Runs, NEW t \in Tasks, WorkerStep(r, t)
      PROVE  AnswerTypes' /\ deps' \in [Tasks -> SUBSET Tasks]
  <2>1. UNCHANGED <<deps, scenario, answer, runner>>
    BY <1>7 DEF WorkerStep, WorkerPrepared, WorkerBegins, WorkerSeesStop, WorkerExhausted,
      WorkerStartsAttempt, WorkerRejected, WorkerTriesAgain, WorkerAgentDone, WorkerGatesPass,
      WorkerReviewPasses, WorkerMerges, WorkerMerged, WorkerCompletes, WorkerCleansUp, WorkerRaises,
      WorkerCancelled, WorkerInterrupted, WorkerRolledBack, WorkerOnly, planned
  <2> QED BY <1>4, <2>1
<1>8. CASE UNCHANGED vars
  BY <1>4, <1>8 DEF vars, planned
<1> QED BY <1>2, <1>3, <1>5, <1>6, <1>7, <1>8 DEF Next

\* Only Stop, Resume and Start spend a bound.
LEMMA BoundsKept ==
  ASSUME Base, [Next]_vars
  PROVE  BoundTypes'
<1>0. BoundTypes /\ (daemon # "up" => restarts < scenario.restarts)
  BY DEF Base, TypeOK, BoundTypes, LoopOK
<1>1. scenario.stops \in Nat /\ scenario.resumes \in Nat /\ scenario.restarts \in Nat
  BY <1>0, ScenariosAssumption DEF BoundTypes
<1>2. CASE Stop
  BY <1>0, <1>1, <1>2 DEF Stop, BoundTypes, planned
<1>3. CASE Resume
  BY <1>0, <1>1, <1>3 DEF Resume, BoundTypes, planned
<1>4. CASE Start
  BY <1>0, <1>1, <1>4 DEF Start, BoundTypes, planned
<1>5. CASE UNCHANGED <<scenario, stops, resumes, restarts>>
  BY <1>0, <1>5 DEF BoundTypes
<1>6. CASE Submit \/ ResumeTimesOut \/ Request \/ Shutdown \/ Crash \/ ShutdownEnds
  <2>1. UNCHANGED <<scenario, stops, resumes, restarts>>
    BY <1>6 DEF Submit, ResumeTimesOut, Request, StopSettles, StopCloses, ResumeWakes, Shutdown, Crash,
      ShutdownEnds, Gone, RunnerOnly, planned, budgets
  <2> QED BY <2>1, <1>5
<1>7. CASE RunnerStep
  <2>1. UNCHANGED <<scenario, stops, resumes, restarts>>
    BY <1>7 DEF RunnerStep, RunnerStarts, RunnerPrepared, RunnerPlans, RunnerStoresPlan, RunnerHasPlan,
      RunnerFails, RunnerSchedules, RunnerLeavesGraph, RunnerCollects, RunnerFinalizes, RunnerAccepts,
      RunnerCannotBuild, RunnerResumesAccepted, RunnerReconciles, RunnerCannotReconcile, RunnerEnds,
      RunnerCancelled, RunnerEscapes, RunnerSettles, RunnerCloses, RunnerOnly, planned, budgets
  <2> QED BY <2>1, <1>5
<1>8. ASSUME NEW r \in Runs, NEW t \in Tasks, WorkerStep(r, t) PROVE BoundTypes'
  <2>1. UNCHANGED <<scenario, stops, resumes, restarts>>
    BY <1>8 DEF WorkerStep, WorkerPrepared, WorkerBegins, WorkerSeesStop, WorkerExhausted,
      WorkerStartsAttempt, WorkerRejected, WorkerTriesAgain, WorkerAgentDone, WorkerGatesPass,
      WorkerReviewPasses, WorkerMerges, WorkerMerged, WorkerCompletes, WorkerCleansUp, WorkerRaises,
      WorkerCancelled, WorkerInterrupted, WorkerRolledBack, WorkerOnly, planned, budgets
  <2> QED BY <2>1, <1>5
<1>9. CASE UNCHANGED vars
  BY <1>5, <1>9 DEF vars, planned, budgets
<1> QED BY <1>2, <1>3, <1>4, <1>6, <1>7, <1>8, <1>9 DEF Next, Client, Daemon

LEMMA TypeKept == Base /\ [Next]_vars => TypeOK'
<1> SUFFICES ASSUME Base, [Next]_vars PROVE TypeOK'
  OBVIOUS
<1>1. Rows!TypeOK'
  BY StoreInvKept DEF Rows!StoreInv
<1>2. Store!TypeOK'
  BY <1>1, SameTables DEF Store!TypeOK, Rows!TypeOK
<1>3. worker' \in Workers /\ run' \in Runs \cup {0} /\ attempts' \in [Tasks -> Numbers \cup {0}]
  BY WorkersKept
<1>4. ControlTypes' /\ cancelled' \in BOOLEAN
  BY ControlKept
<1>5. AnswerTypes' /\ deps' \in [Tasks -> SUBSET Tasks] /\ BoundTypes'
  BY AnswerKept, BoundsKept
<1> QED BY <1>2, <1>3, <1>4, <1>5 DEF TypeOK, ControlTypes, AnswerTypes, BoundTypes, Segments, Workers, Record

LEMMA BaseKept == Base /\ [Next]_vars => Base'
BY StoreInvKept, LoopKept, BudgetKept, TypeKept DEF Base

LEMMA BaseInit == Init => Base
<1> SUFFICES ASSUME Init PROVE Base
  OBVIOUS
<1>1. Rows!StoreInv
  <2>1. Rows!Init
    BY SameInit DEF Init
  <2> QED BY <2>1, StoreAssumptions, Rows!StoreInvInit
<1>2. LoopOK
  BY LoopNames DEF Init, LoopOK, GoesOn
<1>3. BudgetOK
  BY IdleIs, BudgetGrows DEF Init, BudgetOK, Unborn, Counted, Started, Finished, Spent, Untried, Untouched, Collected,
    Fresh, Pc, Live
<1>4. TypeOK
  <2>1. Store!TypeOK
    BY <1>1, SameTypes DEF Rows!StoreInv
  <2>2. worker \in Workers
    BY IdleIs DEF Init
  <2>3. stops \in 0..scenario.stops /\ resumes \in 0..scenario.resumes /\ restarts \in 0..scenario.restarts
    BY ScenariosAssumption DEF Init
  <2>4. attempts \in [Tasks -> Numbers \cup {0}] /\ deps \in [Tasks -> SUBSET Tasks]
    BY DEF Init
  <2>5. /\ daemon \in {"up", "closing", "leaving", "down"} /\ runner \in RunnerSteps /\ cancelled \in BOOLEAN
        /\ run \in Runs \cup {0} /\ resuming \in Runs \cup {0} /\ scenario \in Scenarios
        /\ loop \in Segments /\ AnswerTypes
    BY SegmentsAre DEF Init, RunnerSteps, AnswerTypes
  <2> QED BY <2>1, <2>2, <2>3, <2>4, <2>5 DEF TypeOK, Workers, Record, Segments, AnswerTypes
<1> QED BY <1>1, <1>2, <1>3, <1>4 DEF Base

LEMMA BaseHolds == Spec => []Base
BY BaseInit, BaseKept, PTL DEF Spec

\* Whatever is stopped, resumed, crashed and restarted: every variable has its type, so
\* that an attempt number stays below MaxAttempts for every run of the job and
\* an attempt budget never goes below zero (_run_task_with_slot, orchestrator_task.py).
THEOREM TypeCorrect == Spec => []TypeOK
BY BaseHolds, PTL DEF Base

\* The job is one of the arbitrary callers of module JobStore: every step commits one
\* transaction of the store or leaves the rows alone.
THEOREM UsesTheStore == Spec => Store!Spec
<1>1. Init => Store!Init
  BY DEF Init
<1>2. Base /\ [Next]_vars => [Store!Next]_(Store!vars)
  BY EveryRowsStep, SameRows, SameNext DEF RowsStep
<1> QED BY <1>1, <1>2, BaseHolds, PTL DEF Spec, Store!Spec

-----------------------------------------------------------------------------
(* A stop request is durable.                                               *)

\* What a coroutine can change of the job itself: it may carry it to running.
LEMMA WorkerKeepsJob ==
  ASSUME Base, NEW r \in Runs, NEW t \in Tasks, WorkerStep(r, t)
  PROVE  /\ SameStop /\ SamePhase
         /\ State' = State \/ (State \in {"queued", "planning"} /\ State' = "running")
         /\ UNCHANGED <<daemon, runner, cancelled, run, resuming, deps, answer, scenario, stops, resumes, restarts>>
         /\ daemon # "down" /\ loop \in {Free, InWorker(r, t)} /\ loop' \in {Free, InWorker(r, t)}
<1>0. Rows!TypeOK
  BY TypeParts DEF Base
<1>1. /\ SameStop /\ SamePhase
      /\ State' = State \/ (State \in {"queued", "planning"} /\ State' = "running")
  <2>1. CASE UNCHANGED rows
    BY <2>1 DEF rows, SameStop, SamePhase, State
  <2>2. CASE \E s \in TaskStates : Store!UpdateTask(Job, t, s)
    BY <1>0, <2>2, UpdateTaskDoes
  <2>3. CASE Number(r, t) \in Numbers /\ Store!StartAttempt(Job, t, Number(r, t))
    BY <1>0, <2>3, StartAttemptDoes DEF SameState, State
  <2>4. CASE /\ Number(r, t) \in Numbers
             /\ \E as \in {"passed", "failed", "cancelled"} : Store!FinishAttempt(Job, t, Number(r, t), as)
    BY <1>0, <2>4, FinishAttemptDoes DEF SameState, State
  <2>5. \/ UNCHANGED rows \/ \E s \in TaskStates : Store!UpdateTask(Job, t, s)
        \/ Number(r, t) \in Numbers /\ Store!StartAttempt(Job, t, Number(r, t))
        \/ /\ Number(r, t) \in Numbers
           /\ \E as \in {"passed", "failed", "cancelled"} : Store!FinishAttempt(Job, t, Number(r, t), as)
    <3>1. CASE \/ WorkerPrepared(r, t) \/ WorkerSeesStop(r, t) \/ WorkerAgentDone(r, t)
               \/ WorkerReviewPasses(r, t) \/ WorkerCleansUp(r, t) \/ WorkerRaises(r, t)
               \/ WorkerInterrupted(r, t) \/ WorkerRolledBack(r, t)
      BY <3>1 DEF WorkerPrepared, WorkerSeesStop, WorkerAgentDone, WorkerReviewPasses, WorkerCleansUp,
        WorkerRaises, WorkerInterrupted, WorkerRolledBack
    <3>2. CASE \/ WorkerBegins(r, t) \/ WorkerExhausted(r, t) \/ WorkerTriesAgain(r, t)
               \/ WorkerGatesPass(r, t) \/ WorkerMerges(r, t) \/ WorkerCompletes(r, t)
      BY <3>2 DEF WorkerBegins, WorkerExhausted, WorkerTriesAgain, WorkerGatesPass,
        WorkerMerges, WorkerCompletes, TaskStates
    <3>3. CASE WorkerStartsAttempt(r, t)
      BY <3>3, NumbersFit DEF WorkerStartsAttempt, Inside
    <3>4. CASE WorkerRejected(r, t) \/ WorkerMerged(r, t)
      BY <3>4, NumbersFit DEF WorkerRejected, WorkerMerged, FinishAs, At
    <3>5. CASE WorkerCancelled(r, t)
      BY <3>5, NumbersFit DEF WorkerCancelled, FinishAs
    <3> QED BY <3>1, <3>2, <3>3, <3>4, <3>5 DEF WorkerStep
  <2> QED BY <2>1, <2>2, <2>3, <2>4, <2>5
<1>2. /\ UNCHANGED <<daemon, runner, cancelled, run, resuming, deps, answer, scenario, stops, resumes, restarts>>
      /\ daemon # "down" /\ loop \in {Free, InWorker(r, t)}
  BY DEF WorkerStep, WorkerPrepared, WorkerBegins, WorkerSeesStop, WorkerExhausted,
    WorkerStartsAttempt, WorkerRejected, WorkerTriesAgain, WorkerAgentDone, WorkerGatesPass,
    WorkerReviewPasses, WorkerMerges, WorkerMerged, WorkerCompletes, WorkerCleansUp, WorkerRaises,
    WorkerCancelled, WorkerInterrupted, WorkerRolledBack, WorkerOnly, At, Inside, Wake, Within, planned, budgets
<1>3. loop' \in {Free, InWorker(r, t)}
  BY <1>2 DEF WorkerStep, WorkerPrepared, WorkerBegins, WorkerSeesStop, WorkerExhausted,
    WorkerStartsAttempt, WorkerRejected, WorkerTriesAgain, WorkerAgentDone, WorkerGatesPass,
    WorkerReviewPasses, WorkerMerges, WorkerMerged, WorkerCompletes, WorkerCleansUp, WorkerRaises,
    WorkerCancelled, WorkerInterrupted, WorkerRolledBack, Goto, Exit
<1> QED BY <1>1, <1>2, <1>3

\* A requested stop has moved the job and, if there is one, is on its way to the runner,
\* which is not inside a segment with a cancellation that it has not been told.
StopOK ==
  /\ stopRequested[Job] => State \in {"stopping", "stopped"}
  /\ stopRequested[Job] /\ runner # "none" => cancelled \/ runner \in {"cancelling", "stopped"}
  /\ cancelled /\ loop = InRunner => runner = "accepted"

TakesBack ==
  stopRequested[Job] /\ ~stopRequested'[Job] =>
    \/ State = "stopped" /\ State' = "queued" /\ (resumes' > resumes \/ resuming # 0)
    \/ phase'[Job] # "none"

LEMMA DaemonStop ==
  ASSUME Base, StopOK, Client \/ Request \/ Shutdown \/ Crash \/ Daemon
  PROVE  StopOK' /\ TakesBack
<1>0. Rows!TypeOK /\ resumes \in Nat
  <2>1. scenario.resumes \in Nat /\ resumes \in 0..scenario.resumes
    BY ScenariosAssumption DEF Base, TypeOK
  <2> QED BY <2>1, TypeParts DEF Base
<1>1. LoopOK
  BY DEF Base
<1> USE LoopNames DEF StopOK, TakesBack, LoopOK, Wake, Within, State, SameStop, SameState, RunnerOnly
<1>2. CASE Submit
  BY <1>0, <1>1, <1>2, CreateJobDoes DEF Submit, Spawn, Absent
<1>3. CASE Stop
  <2>1. /\ stopRequested'[Job] /\ State' = "stopping"
        \/ UNCHANGED rows
    BY <1>0, <1>3, RequestStopDoes DEF Stop
  <2>2. CASE runner # "none"
    BY <1>1, <1>3, <2>1, <2>2 DEF Stop, StopCancels, rows
  <2>3. CASE runner = "none"
    BY <1>1, <1>3, <2>1, <2>3 DEF Stop, StopCancels, rows
  <2> QED BY <2>2, <2>3
<1>a. ASSUME ResumeNow
      PROVE  /\ runner' = "spawned" /\ cancelled' = FALSE /\ ~stopRequested'[Job]
             /\ stopRequested[Job] => State = "stopped" /\ State' = "queued"
  BY <1>0, <1>a, PrepareResumeDoes DEF ResumeNow, Spawn, Waiting, rows
<1>4. CASE Resume
  <2>1. resumes' > resumes
    BY <1>0, <1>4 DEF Resume
  <2>2. CASE ResumeNow
    BY <1>a, <2>1, <2>2
  <2>3. CASE UNCHANGED <<rows, runner, cancelled, run, loop>>
    BY <2>3 DEF rows
  <2> QED BY <1>4, <2>2, <2>3 DEF Resume
<1>5. CASE ResumeWakes
  <2>1. CASE ResumeNow
    BY <1>a, <1>5, <2>1 DEF ResumeWakes
  <2>2. CASE UNCHANGED <<rows, daemon, runner, cancelled, run, loop>>
    BY <2>2 DEF rows
  <2> QED BY <1>5, <2>1, <2>2 DEF ResumeWakes
<1>6. CASE ResumeTimesOut \/ Shutdown
  <2>1. UNCHANGED <<rows, runner, loop>> /\ loop = Free
    BY <1>6 DEF ResumeTimesOut, Shutdown
  <2>2. cancelled' = cancelled \/ (runner # "none" => cancelled')
    BY <1>6 DEF ResumeTimesOut, Shutdown
  <2> QED BY <1>1, <2>1, <2>2 DEF rows
<1>7. CASE StopSettles
  <2>1. runner = "none" /\ UNCHANGED <<runner, cancelled>> /\ loop' \in {InClose, Free}
    BY <1>1, <1>7 DEF StopSettles
  <2>2. stopRequested'[Job] = stopRequested[Job] /\ jobState'[Job] = jobState[Job]
    BY <1>0, <1>7, SettleInflightDoes DEF StopSettles, rows
  <2> QED BY <2>1, <2>2
<1>8. CASE StopCloses
  <2>1. runner = "none" /\ UNCHANGED <<runner, cancelled>> /\ loop' = Free
    BY <1>1, <1>8 DEF StopCloses
  <2>2. stopRequested'[Job] = stopRequested[Job] /\ jobState'[Job] = "stopped"
    BY <1>0, <1>8, UpdateJobDoes, JobTypes DEF StopCloses, JobStates
  <2> QED BY <2>1, <2>2
<1>9. CASE Crash \/ ShutdownEnds
  BY <1>9 DEF Crash, ShutdownEnds, Gone, rows
<1>10. CASE Start
  <2>1. /\ jobState'[Job] = Store!RecoveredState(Job) /\ stopRequested'[Job] = Store!RecoveredStop(Job)
        /\ phase'[Job] = phase[Job]
    BY <1>0, <1>10, RecoverDoes DEF Start, SamePhase
  <2>2. runner = "none" /\ loop = Free
    BY <1>1, <1>10 DEF Start
  <2>3. CASE RecoverySpawns
    <3>1. Store!RecoversAccepted(Job) \/ Store!RecoversActive(Job)
      BY <2>3 DEF RecoverySpawns
    <3>2. stopRequested'[Job] = FALSE
      BY <2>1, <3>1 DEF Store!RecoveredStop
    <3>3. runner' = "spawned" /\ cancelled' = FALSE /\ loop' = Free
      BY <1>10, <2>3 DEF Start, Spawn
    <3>4. stopRequested[Job] => phase[Job] # "none"
      BY <3>1 DEF Store!RecoversAccepted, Store!RecoversActive
    <3> QED BY <2>1, <3>2, <3>3, <3>4
  <2>4. CASE ~RecoverySpawns
    <3>1. ~Store!RecoversAccepted(Job) /\ ~Store!RecoversActive(Job)
      BY <2>4 DEF RecoverySpawns
    <3>2. UNCHANGED <<runner, cancelled, loop>>
      BY <1>10, <2>4 DEF Start
    <3>3. \/ stopRequested'[Job] = TRUE /\ jobState'[Job] = "stopped"
          \/ stopRequested'[Job] = stopRequested[Job] /\ jobState'[Job] = jobState[Job]
      BY <2>1, <3>1 DEF Store!RecoveredStop, Store!RecoveredState
    <3> QED BY <2>2, <3>2, <3>3
  <2> QED BY <2>3, <2>4
<1> QED BY <1>2, <1>3, <1>4, <1>5, <1>6, <1>7, <1>8, <1>9, <1>10 DEF Client, Request, Daemon

LEMMA RunnerStop ==
  ASSUME Base, StopOK, RunnerStep
  PROVE  StopOK' /\ TakesBack
<1>0. Rows!TypeOK /\ LoopOK
  BY TypeParts DEF Base
<1> USE <1>0, LoopNames DEF StopOK, TakesBack, LoopOK, GoesOn, Wake, Within, State, SameStop, SameState, RunnerOnly
<1>1. CASE \/ RunnerStarts \/ RunnerPlans \/ RunnerFinalizes \/ RunnerSchedules
           \/ RunnerCannotReconcile \/ RunnerEnds \/ RunnerEscapes
  BY <1>1 DEF RunnerStarts, RunnerPlans, RunnerFinalizes, RunnerSchedules,
    RunnerCannotReconcile, RunnerEnds, RunnerEscapes, Unwinding, rows
<1>2. CASE RunnerFails \/ RunnerCannotBuild \/ RunnerCancelled \/ RunnerLeavesGraph \/ RunnerCollects
  BY <1>2 DEF RunnerFails, RunnerCannotBuild, RunnerCancelled, RunnerLeavesGraph, RunnerCollects, Unwind, rows
<1>3. CASE RunnerPrepared \/ RunnerHasPlan
  <2>1. ~stopRequested[Job] /\ ~cancelled
    BY <1>3 DEF RunnerPrepared, RunnerHasPlan
  <2>2. stopRequested'[Job] = stopRequested[Job] /\ cancelled' = cancelled
    BY <1>3, UpdateJobDoes, JobTypes DEF RunnerPrepared, RunnerHasPlan, JobStates
  <2> QED BY <2>1, <2>2
<1>4. CASE RunnerStoresPlan
  <2>1. ~stopRequested[Job] /\ ~cancelled /\ cancelled' = cancelled
    BY <1>4 DEF RunnerStoresPlan
  <2>2. answer # None => answer.tasks \in SUBSET Tasks
    BY PlansAssumption DEF Base, TypeOK
  <2>3. {Fallback} \in SUBSET Tasks
    BY PlansAssumption
  <2>4. stopRequested'[Job] = stopRequested[Job]
    BY <1>4, <2>2, <2>3, AddTasksDoes DEF RunnerStoresPlan
  <2> QED BY <2>1, <2>4
<1>5. CASE RunnerAccepts
  <2>1. stopRequested'[Job] = FALSE /\ phase'[Job] = "accepted" /\ runner' = "accepted"
    BY <1>5, PrepareAcceptedDoes DEF RunnerAccepts, Rows!Intents
  <2> QED BY <2>1
<1>6. CASE RunnerResumesAccepted \/ RunnerReconciles
  <2>1. \/ stopRequested'[Job] = FALSE /\ phase'[Job] = "published"
        \/ stopRequested'[Job] = stopRequested[Job] /\ jobState'[Job] = jobState[Job]
    BY <1>6, PublishDoes, MarkApplyStartedDoes DEF RunnerResumesAccepted, RunnerReconciles, Rows!Outcomes, rows
  <2>2. cancelled' = cancelled /\ loop' = Free /\ runner \in {"accepted", "applying"} /\ runner' # "none"
    BY <1>6 DEF RunnerResumesAccepted, RunnerReconciles
  <2> QED BY <2>1, <2>2
<1>7. CASE RunnerSettles
  <2>1. ~cancelled /\ cancelled' = cancelled
    BY <1>7 DEF RunnerSettles, HandlerResumes, Unwinding
  <2>2. stopRequested'[Job] = stopRequested[Job] /\ jobState'[Job] = jobState[Job]
    BY <1>7, SettleInflightDoes DEF RunnerSettles
  <2>3. stopRequested[Job] => runner' = "stopped"
    BY <1>7, <2>1 DEF RunnerSettles, Unwinding
  <2> QED BY <2>1, <2>2, <2>3
<1>8. CASE RunnerCloses
  <2>1. stopRequested'[Job] = stopRequested[Job] /\ jobState'[Job] = runner
    BY <1>8, UpdateJobDoes, JobTypes DEF RunnerCloses, JobStates
  <2>2. runner' = "none" /\ cancelled' = FALSE
    BY <1>8 DEF RunnerCloses
  <2>3. stopRequested[Job] => runner = "stopped"
    BY <1>8 DEF RunnerCloses
  <2> QED BY <2>1, <2>2, <2>3
<1> QED BY <1>1, <1>2, <1>3, <1>4, <1>5, <1>6, <1>7, <1>8 DEF RunnerStep

LEMMA StopKept == Base /\ StopOK /\ [Next]_vars => StopOK' /\ TakesBack
<1> SUFFICES ASSUME Base, StopOK, [Next]_vars PROVE StopOK' /\ TakesBack
  OBVIOUS
<1>1. ASSUME NEW r \in Runs, NEW t \in Tasks, WorkerStep(r, t) PROVE StopOK' /\ TakesBack
  BY <1>1, WorkerKeepsJob, LoopNames DEF StopOK, TakesBack, SameStop, State
<1>2. CASE UNCHANGED vars
  BY <1>2 DEF vars, rows, StopOK, TakesBack, State
<1> QED BY <1>1, <1>2, DaemonStop, RunnerStop DEF Next

\* The user's stop survives crashes, restarts, failing handlers and other stops: only a
\* resume takes it back, or an acceptance that was already under way (daemon.py, orchestrator.py).
THEOREM StopIsStickyHolds == Spec => StopIsSticky
<1>1. Init => StopOK
  BY DEF Init, Store!Init, StopOK, Free, InRunner
<1>2. Base /\ StopOK /\ [Next]_vars => [TakesBack]_vars
  BY StopKept
<1>3. Spec => [][TakesBack]_vars
  BY <1>1, <1>2, BaseHolds, StopKept, PTL DEF Spec
<1> QED BY <1>3, PTL DEF StopIsSticky, TakesBack

-----------------------------------------------------------------------------
(* Dependencies first.                                                      *)

\* The task has been started at some time.
Begun(t) == taskState[Job][t] \in InflightTaskStates \cup {"completed"}

\* No task is begun, and none is planned.
NothingBegins ==
  \A t \in Tasks : (Begun(t)' => Begun(t)) /\ (InPlan(t)' => InPlan(t))

\* Settling, resuming and recovering move tasks out of flight, never into it.
LEMMA BulkBegins ==
  ASSUME NEW from, NEW to \in {"pending", "failed", "stopped"}, Absent \notin from, Bulk(from, to)
  PROVE  NothingBegins
BY DEF Bulk, NothingBegins, Begun, InPlan, InflightTaskStates

LEMMA RecoverBegins ==
  ASSUME Rows!TypeOK, Store!RecoverIncomplete
  PROVE  NothingBegins
<1>1. taskState'[Job] = Store!RecoveredTasks(Job)
  BY RecoverDoes
<1>2. Absent \notin InflightTaskStates
  BY DEF Absent, InflightTaskStates
<1>3. CASE Store!RecoveredTasks(Job) = taskState[Job]
  BY <1>1, <1>3 DEF NothingBegins, Begun, InPlan
<1>4. ASSUME NEW to \in {"pending", "stopped"},
             Store!RecoveredTasks(Job) = Store!MovedTasks(Job, InflightTaskStates, to)
      PROVE  NothingBegins
  <2>1. Bulk(InflightTaskStates, to)
    BY <1>1, <1>4 DEF Store!MovedTasks, Bulk
  <2> QED BY <1>2, <2>1, BulkBegins
<1> QED BY <1>3, <1>4, SameTables DEF Store!RecoveredTasks

LEMMA DaemonBegins ==
  ASSUME Base, Client \/ Request \/ Shutdown \/ Crash \/ Daemon
  PROVE  NothingBegins /\ deps' = deps
<1>0. Rows!TypeOK
  BY TypeParts DEF Base
<1>1. CASE taskState'[Job] = taskState[Job]
  <2>1. deps' = deps
    BY DEF Client, Request, Daemon, Submit, Stop, Resume, ResumeTimesOut, StopSettles, StopCloses,
      ResumeWakes, Shutdown, Crash, ShutdownEnds, Gone, Start, RunnerOnly, planned
  <2> QED BY <1>1, <2>1 DEF NothingBegins, Begun, InPlan
<1>2. CASE Store!PrepareResume(Job) /\ (Resume \/ ResumeWakes)
  <2>1. Bulk(TaskStates \ {"completed"}, "pending") /\ Absent \notin TaskStates \ {"completed"}
    BY <1>0, <1>2, PrepareResumeDoes DEF Absent, TaskStates
  <2>2. deps' = deps
    BY <1>2 DEF Resume, ResumeWakes, planned
  <2> QED BY <2>1, <2>2, BulkBegins
<1>3. CASE Store!SettleInflight(Job, "stopped", "cancelled") /\ StopSettles
  <2>1. Bulk(InflightTaskStates, "stopped") /\ Absent \notin InflightTaskStates
    BY <1>0, <1>3, SettleInflightDoes DEF Absent, InflightTaskStates
  <2>2. deps' = deps
    BY <1>3 DEF StopSettles, RunnerOnly, planned
  <2> QED BY <2>1, <2>2, BulkBegins
<1>4. CASE Start
  BY <1>0, <1>4, RecoverBegins DEF Start, planned
<1>5. \/ taskState'[Job] = taskState[Job]
      \/ Store!PrepareResume(Job) /\ (Resume \/ ResumeWakes)
      \/ Store!SettleInflight(Job, "stopped", "cancelled") /\ StopSettles
      \/ Start
  <2>1. CASE Submit
    BY <1>0, <2>1, CreateJobDoes DEF Submit, SameGraph
  <2>2. CASE Stop
    BY <1>0, <2>2, RequestStopDoes DEF Stop, SameGraph, rows
  <2>3. CASE Resume \/ ResumeWakes
    BY <2>3 DEF Resume, ResumeWakes, ResumeNow, rows
  <2>4. CASE StopSettles
    BY <2>4 DEF StopSettles, rows
  <2>5. CASE StopCloses
    BY <1>0, <2>5, UpdateJobDoes, JobTypes DEF StopCloses, SameGraph, JobStates
  <2>6. CASE ResumeTimesOut \/ Shutdown \/ Crash \/ ShutdownEnds
    BY <2>6 DEF ResumeTimesOut, Shutdown, Crash, ShutdownEnds, Gone, rows
  <2> QED BY <2>1, <2>2, <2>3, <2>4, <2>5, <2>6 DEF Client, Request, Daemon
<1> QED BY <1>1, <1>2, <1>3, <1>4, <1>5

\* Settling and planning are all that the runner does to the tasks.
LEMMA RunnerTasks ==
  ASSUME Base, RunnerStep
  PROVE  taskState'[Job] = taskState[Job] \/ RunnerSettles \/ RunnerStoresPlan
<1>0. Rows!TypeOK
  BY TypeParts DEF Base
<1>1. CASE \/ RunnerStarts \/ RunnerPlans \/ RunnerFails \/ RunnerSchedules \/ RunnerLeavesGraph
           \/ RunnerCollects \/ RunnerFinalizes \/ RunnerCannotBuild \/ RunnerCannotReconcile
           \/ RunnerEnds \/ RunnerCancelled \/ RunnerEscapes
  BY <1>1 DEF RunnerStarts, RunnerPlans, RunnerFails, RunnerSchedules, RunnerLeavesGraph,
    RunnerCollects, RunnerFinalizes, RunnerCannotBuild, RunnerCannotReconcile, RunnerEnds,
    RunnerCancelled, RunnerEscapes, rows
<1>2. CASE RunnerPrepared \/ RunnerHasPlan \/ RunnerCloses
  BY <1>0, <1>2, UpdateJobDoes, JobTypes DEF RunnerPrepared, RunnerHasPlan, RunnerCloses, JobStates, SameGraph
<1>3. CASE RunnerAccepts
  BY <1>0, <1>3, PrepareAcceptedDoes DEF RunnerAccepts, Rows!Intents, SameGraph
<1>4. CASE RunnerResumesAccepted \/ RunnerReconciles
  BY <1>0, <1>4, PublishDoes, MarkApplyStartedDoes DEF RunnerResumesAccepted, RunnerReconciles,
    Rows!Outcomes, SameGraph, rows
<1> QED BY <1>1, <1>2, <1>3, <1>4 DEF RunnerStep

LEMMA RunnerBegins ==
  ASSUME Base, RunnerStep, ~RunnerStoresPlan
  PROVE  NothingBegins /\ deps' = deps
<1>0. Rows!TypeOK
  BY TypeParts DEF Base
<1>1. deps' = deps
  BY DEF RunnerStep, RunnerStarts, RunnerPrepared, RunnerPlans, RunnerHasPlan,
    RunnerFails, RunnerSchedules, RunnerLeavesGraph, RunnerCollects, RunnerFinalizes, RunnerAccepts,
    RunnerCannotBuild, RunnerResumesAccepted, RunnerReconciles, RunnerCannotReconcile, RunnerEnds,
    RunnerCancelled, RunnerEscapes, RunnerSettles, RunnerCloses, RunnerOnly, planned
<1>2. CASE taskState'[Job] = taskState[Job]
  BY <1>1, <1>2 DEF NothingBegins, Begun, InPlan
<1>3. CASE RunnerSettles
  <2>1. \E s \in {"pending", "failed", "stopped"} : Bulk(InflightTaskStates, s)
    BY <1>0, <1>3, SettleInflightDoes DEF RunnerSettles
  <2>2. Absent \notin InflightTaskStates
    BY DEF Absent, InflightTaskStates
  <2> QED BY <1>1, <2>1, <2>2, BulkBegins
<1> QED BY <1>2, <1>3, RunnerTasks

LEMMA WorkerBeginsOne ==
  ASSUME Base, NEW r \in Runs, NEW t \in Tasks, WorkerStep(r, t)
  PROVE  /\ \A u \in Tasks : u # t => taskState'[Job][u] = taskState[Job][u]
         /\ deps' = deps /\ Live(r, t)
<1>0. Rows!TypeOK
  BY TypeParts DEF Base
<1>1. deps' = deps
  BY WorkerKeepsJob
<1>2. Live(r, t)
  BY WorkerProgress DEF Progress
<1>3. \A u \in Tasks : u # t => taskState'[Job][u] = taskState[Job][u]
  <2>1. CASE \/ WorkerPrepared(r, t) \/ WorkerSeesStop(r, t) \/ WorkerAgentDone(r, t)
             \/ WorkerReviewPasses(r, t) \/ WorkerCleansUp(r, t) \/ WorkerRaises(r, t)
             \/ WorkerInterrupted(r, t) \/ WorkerRolledBack(r, t)
    BY <2>1 DEF WorkerPrepared, WorkerSeesStop, WorkerAgentDone, WorkerReviewPasses, WorkerCleansUp,
      WorkerRaises, WorkerInterrupted, WorkerRolledBack, rows
  <2>2. CASE \/ WorkerBegins(r, t) \/ WorkerExhausted(r, t) \/ WorkerTriesAgain(r, t)
             \/ WorkerGatesPass(r, t) \/ WorkerMerges(r, t) \/ WorkerCompletes(r, t)
    BY <1>0, <2>2, UpdateTaskDoes DEF WorkerBegins, WorkerExhausted, WorkerTriesAgain,
      WorkerGatesPass, WorkerMerges, WorkerCompletes, TaskStates
  <2>3. CASE WorkerStartsAttempt(r, t)
    BY <1>0, <2>3, NumbersFit, StartAttemptDoes DEF WorkerStartsAttempt, Inside
  <2>4. CASE WorkerRejected(r, t) \/ WorkerMerged(r, t)
    BY <1>0, <2>4, NumbersFit, FinishAttemptDoes DEF WorkerRejected, WorkerMerged, FinishAs, At
  <2>5. CASE WorkerCancelled(r, t)
    BY <1>0, <2>5, NumbersFit, FinishAttemptDoes DEF WorkerCancelled, FinishAs, rows
  <2> QED BY <2>1, <2>2, <2>3, <2>4, <2>5 DEF WorkerStep
<1> QED BY <1>1, <1>2, <1>3

\* A coroutine only lives for a planned task whose dependencies are done; the plan is
\* empty until it is stored.
DependOK ==
  /\ DependenciesFirst
  /\ \A r \in Runs, t \in Tasks : Live(r, t) => InPlan(t) /\ deps[t] \subseteq Done
  /\ runner \in {"planning", "answered"} => \A t \in Tasks : ~InPlan(t)

LEMMA DoneGrows == Base /\ [Next]_vars => Done \subseteq Done'
BY TasksKept DEF Done

\* Without a new coroutine or a new plan, nothing changes for the dependencies.
LEMMA DependStays ==
  ASSUME Base, DependOK, [Next]_vars, NothingBegins, deps' = deps,
         \A r \in Runs, t \in Tasks : Live(r, t)' => Live(r, t) \/ (InPlan(t) /\ deps[t] \subseteq Done),
         runner' \in {"planning", "answered"} =>
           runner \in {"planning", "answered"} \/ \A t \in Tasks : ~InPlan(t)
  PROVE  DependOK'
<1>1. DependenciesFirst'
  BY DoneGrows DEF DependOK, DependenciesFirst, NothingBegins, Begun
<1>2. \A r \in Runs, t \in Tasks : Live(r, t)' => InPlan(t)' /\ deps'[t] \subseteq Done'
  BY DoneGrows, TasksKept DEF DependOK
<1>3. runner' \in {"planning", "answered"} => \A t \in Tasks : ~InPlan(t)'
  BY DEF DependOK, NothingBegins
<1> QED BY <1>1, <1>2, <1>3 DEF DependOK

\* Only the scheduler creates coroutines.
LEMMA NewCoroutines ==
  ASSUME Base, [Next]_vars, NEW r \in Runs, NEW t \in Tasks, Live(r, t)'
  PROVE  Live(r, t) \/ (r = run /\ t \in Ready /\ runner = "dag")
<1> USE DEF Live, Pc
<1>0. worker \in Workers
  BY TypeParts DEF Base
<1>1. CASE StaysPut \/ Spawns \/ Vanish
  BY <1>1, IdleIs DEF StaysPut, Spawns, Vanish
<1>2. CASE Unwinds
  <2>1. run \in Runs
    BY <1>2 DEF Unwinds, Base, LoopOK
  <2>2. worker'[r][t] = worker[r][t] \/ (r = run /\ worker'[r][t] = Told(r, t))
    BY <1>0, <1>2, <2>1, UnwindDoes DEF Unwinds
  <2>3. worker[r][t] \in Record
    BY <1>0 DEF Workers
  <2>4. Told(r, t).pc = worker[r][t].pc
    BY <2>3 DEF Told, Record
  <2> QED BY <2>2, <2>4
<1>3. CASE Schedules
  <2>1. PICK S \in SUBSET Ready :
          /\ \A q \in Runs, u \in Tasks : q # run => worker'[q][u] = worker[q][u]
          /\ \A u \in Tasks : worker'[run][u] = IF u \in S THEN Scheduled(u) ELSE worker[run][u]
    BY <1>3, SchedulesDoes
  <2> QED BY <1>3, <2>1 DEF Schedules
<1>4. CASE Collects
  BY <1>4, CollectsDoes, IdleIs
<1>5. ASSUME NEW q \in Runs, NEW u \in Tasks, Progress(q, u) PROVE Live(r, t)
  BY <1>5 DEF Progress, OthersKept
<1> QED BY <1>1, <1>2, <1>3, <1>4, <1>5, StepKinds

LEMMA DependKept == Base /\ DependOK /\ [Next]_vars => DependOK'
<1> SUFFICES ASSUME Base, DependOK, [Next]_vars PROVE DependOK'
  OBVIOUS
<1>1. \A r \in Runs, t \in Tasks : Live(r, t)' => Live(r, t) \/ (InPlan(t) /\ deps[t] \subseteq Done)
  BY NewCoroutines DEF Ready, InPlan, Absent
<1>2. CASE Client \/ Request \/ Shutdown \/ Crash \/ Daemon
  <2>1. runner' \in {"planning", "answered"} => runner \in {"planning", "answered"}
    BY <1>2 DEF Client, Request, Daemon, Submit, Stop, Resume, ResumeTimesOut, StopSettles, StopCloses,
      ResumeWakes, Shutdown, Crash, ShutdownEnds, Gone, Start, ResumeNow, Spawn
  <2> QED BY <1>1, <1>2, <2>1, DaemonBegins, DependStays
<1>3. CASE RunnerStep /\ ~RunnerStoresPlan
  <2>1. runner' \in {"planning", "answered"} =>
          runner \in {"planning", "answered"} \/ \A t \in Tasks : ~InPlan(t)
    BY <1>3 DEF RunnerStep, RunnerStarts, RunnerPrepared, RunnerPlans, RunnerHasPlan,
      RunnerFails, RunnerSchedules, RunnerLeavesGraph, RunnerCollects, RunnerFinalizes, RunnerAccepts,
      RunnerCannotBuild, RunnerResumesAccepted, RunnerReconciles, RunnerCannotReconcile, RunnerEnds,
      RunnerCancelled, RunnerEscapes, RunnerSettles, RunnerCloses, Unwind, InPlan
  <2> QED BY <1>1, <1>3, <2>1, RunnerBegins, DependStays
<1>4. CASE RunnerStoresPlan
  <2>1. \A t \in Tasks : ~InPlan(t)
    BY <1>4 DEF RunnerStoresPlan, DependOK
  <2>2. \A r \in Runs, t \in Tasks : ~Live(r, t)'
    <3>1. worker' = worker
      BY <1>4 DEF RunnerStoresPlan
    <3> QED BY <2>1, <3>1 DEF DependOK, Live, Pc
  <2>3. \A t \in Tasks : taskState'[Job][t] \in {"pending", Absent}
    <3>0. Rows!TypeOK
      BY TypeParts DEF Base
    <3>1. answer # None => answer.tasks \in SUBSET Tasks
      BY PlansAssumption DEF Base, TypeOK
    <3>2. {Fallback} \in SUBSET Tasks
      BY PlansAssumption
    <3>3. \E new \in SUBSET Tasks : Store!AddTasks(Job, new)
      BY <1>4, <3>1, <3>2 DEF RunnerStoresPlan
    <3> QED BY <2>1, <3>0, <3>3, AddTasksDoes DEF InPlan
  <2>4. DependenciesFirst'
    BY <2>3 DEF DependenciesFirst, InflightTaskStates, Absent
  <2>5. runner' = "planned"
    BY <1>4 DEF RunnerStoresPlan
  <2> QED BY <2>2, <2>4, <2>5 DEF DependOK
<1>5. ASSUME NEW r \in Runs, NEW t \in Tasks, WorkerStep(r, t) PROVE DependOK'
  <2>1. /\ \A u \in Tasks : u # t => taskState'[Job][u] = taskState[Job][u]
        /\ deps' = deps /\ Live(r, t) /\ runner' = runner
    BY <1>5, WorkerBeginsOne, WorkerKeepsJob
  <2>2. InPlan(t) /\ deps[t] \subseteq Done
    BY <2>1 DEF DependOK
  <2>3. DependenciesFirst'
    BY <2>1, <2>2, DoneGrows DEF DependOK, DependenciesFirst
  <2>4. \A q \in Runs, u \in Tasks : Live(q, u)' => InPlan(u)' /\ deps'[u] \subseteq Done'
    BY <1>1, <2>1, DoneGrows, TasksKept DEF DependOK
  <2>5. runner' \notin {"planning", "answered"}
    BY <2>1, <2>2 DEF DependOK
  <2> QED BY <2>3, <2>4, <2>5 DEF DependOK
<1>6. CASE UNCHANGED vars
  <2>1. NothingBegins /\ deps' = deps /\ runner' = runner
    BY <1>6 DEF vars, rows, planned, NothingBegins, Begun, InPlan
  <2> QED BY <1>1, <2>1, DependStays
<1> QED BY <1>2, <1>3, <1>4, <1>5, <1>6 DEF Next

\* Whatever was stopped, failed, crashed and resumed: a task that has been started has all
\* its dependencies durably completed (_execute_dag, orchestrator.py:339).
THEOREM DependenciesFirstHolds == Spec => []DependenciesFirst
<1>1. Init => DependOK
  BY IdleIs DEF Init, Store!Init, DependOK, DependenciesFirst, Live, Pc, InflightTaskStates, Store!Absent
<1>2. Spec => []DependOK
  BY <1>1, BaseHolds, DependKept, PTL DEF Spec
<1> QED BY <1>2, PTL DEF DependOK

-----------------------------------------------------------------------------
(* Where the runner is in the life of an accepted job, and who is inside a  *)
(* segment.                                                                 *)

PhaseOK ==
  /\ runner = "accepted" => phase[Job] \in {"accepted", "applying"}
  /\ runner = "applying" => phase[Job] = "applying"
  /\ runner = "published" => phase[Job] = "published"
  /\ runner = "spawned" => phase[Job] # "published"
  /\ runner \notin {"none", "spawned", "accepted", "applying", "published"} => phase[Job] = "none"
  /\ phase[Job] = "none" /\ State = "stopping" => stopRequested[Job]

\* What the rows' invariant says of the acceptance.
LEMMA PhaseMeans ==
  ASSUME Rows!StoreInv
  PROVE  /\ phase[Job] = "published" <=> State = "completed"
         /\ phase[Job] \in {"accepted", "applying"} => State \in {"running", "stopping"}
         /\ phase[Job] \in {"none", "accepted", "applying", "published"}
BY JobTypes DEF Rows!StoreInv, Rows!JobInv, Rows!RowsOK, Rows!Active, State, AcceptancePhases

LEMMA DaemonPhase ==
  ASSUME Base, PhaseOK, Client \/ Request \/ Shutdown \/ Crash \/ Daemon
  PROVE  PhaseOK' /\ SamePhase
<1>0. Rows!TypeOK /\ Rows!StoreInv /\ LoopOK
  BY TypeParts DEF Base
<1>1. ASSUME UNCHANGED rows, runner' = runner \/ runner' = "none" PROVE PhaseOK' /\ SamePhase
  BY <1>1 DEF PhaseOK, SamePhase, rows, State
<1>2. CASE Submit
  <2>1. State = Absent /\ State' = "queued" /\ SamePhase /\ runner' = "spawned"
    BY <1>0, <1>2, CreateJobDoes DEF Submit, Spawn
  <2> QED BY <1>0, <2>1, PhaseMeans DEF PhaseOK, SamePhase, State, Absent
<1>3. CASE Stop
  <2>1. runner' = runner
    BY <1>3 DEF Stop
  <2>2. CASE UNCHANGED rows
    BY <1>1, <2>1, <2>2
  <2>3. CASE Store!RequestStop(Job)
    BY <1>0, <2>1, <2>3, RequestStopDoes DEF PhaseOK, SamePhase
  <2> QED BY <1>3, <2>2, <2>3 DEF Stop
<1>4. ASSUME ResumeNow PROVE PhaseOK' /\ SamePhase
  <2>1. runner' = "spawned" /\ State' = "queued" /\ SamePhase /\ phase[Job] # "published"
    <3>1. CASE Waiting /\ UNCHANGED rows
      BY <1>0, <1>4, <3>1, PhaseMeans DEF ResumeNow, Spawn, Waiting, State, rows, SamePhase
    <3>2. CASE Resumable /\ Store!PrepareResume(Job)
      BY <1>0, <1>4, <3>2, PrepareResumeDoes DEF ResumeNow, Spawn, State
    <3> QED BY <1>4, <3>1, <3>2 DEF ResumeNow
  <2> QED BY <2>1 DEF PhaseOK, SamePhase, State
<1>5. CASE Resume \/ ResumeWakes
  BY <1>1, <1>4, <1>5 DEF Resume, ResumeWakes
<1>6. CASE ResumeTimesOut \/ Shutdown \/ Crash \/ ShutdownEnds
  BY <1>1, <1>6 DEF ResumeTimesOut, Shutdown, Crash, ShutdownEnds, Gone
<1>7. CASE StopSettles
  <2>1. runner' = runner
    BY <1>7 DEF StopSettles
  <2>2. CASE Store!SettleInflight(Job, "stopped", "cancelled")
    BY <1>0, <2>1, <2>2, SettleInflightDoes DEF PhaseOK, SamePhase, SameState, SameStop, State
  <2> QED BY <1>1, <1>7, <2>1, <2>2 DEF StopSettles
<1>8. CASE StopCloses
  <2>1. runner' = runner /\ SamePhase /\ State' = "stopped"
    BY <1>0, <1>8, UpdateJobDoes, JobTypes DEF StopCloses, JobStates
  <2> QED BY <2>1 DEF PhaseOK, SamePhase, State
<1>9. CASE Start
  <2>1. /\ State' = Store!RecoveredState(Job) /\ stopRequested'[Job] = Store!RecoveredStop(Job)
        /\ SamePhase
    BY <1>0, <1>9, RecoverDoes DEF Start
  <2>2. runner = "none"
    BY <1>0, <1>9 DEF Start, LoopOK
  <2>3. CASE RecoverySpawns
    <3>1. runner' = "spawned" /\ (Store!RecoversAccepted(Job) \/ Store!RecoversActive(Job))
      BY <1>9, <2>3 DEF Start, Spawn, RecoverySpawns
    <3>2. phase[Job] # "published"
      BY <1>0, <3>1, PhaseMeans, SameTables DEF Store!RecoversAccepted, Store!RecoversActive, Store!RecoversOrdinary,
        Store!Incomplete, State, TerminalJobStates
    <3>3. phase[Job] = "none" => State' = "queued"
      BY <2>1, <3>1 DEF Store!RecoversAccepted, Store!RecoveredState
    <3> QED BY <2>1, <3>1, <3>2, <3>3 DEF PhaseOK, SamePhase, State
  <2>4. CASE ~RecoverySpawns
    <3>1. ~Store!RecoversAccepted(Job) /\ ~Store!RecoversActive(Job) /\ runner' = "none"
      BY <1>9, <2>2, <2>4 DEF Start, RecoverySpawns
    <3>2. \/ stopRequested'[Job] = TRUE /\ State' = "stopped"
          \/ stopRequested'[Job] = stopRequested[Job] /\ State' = State
      BY <2>1, <3>1 DEF Store!RecoveredStop, Store!RecoveredState, State
    <3> QED BY <2>1, <2>2, <3>1, <3>2 DEF PhaseOK, SamePhase, State
  <2> QED BY <2>3, <2>4
<1> QED BY <1>2, <1>3, <1>5, <1>6, <1>7, <1>8, <1>9 DEF Client, Request, Daemon

LEMMA RunnerPhase ==
  ASSUME Base, PhaseOK, RunnerStep
  PROVE  PhaseOK' /\ (phase'[Job] = phase[Job] \/ phase'[Job] # "none")
<1>0. Rows!TypeOK /\ Rows!StoreInv /\ LoopOK
  BY TypeParts DEF Base
<1> DEFINE Goal == PhaseOK' /\ (phase'[Job] = phase[Job] \/ phase'[Job] # "none")
<1>1. CASE \/ RunnerPlans \/ RunnerFails \/ RunnerSchedules \/ RunnerLeavesGraph
           \/ RunnerCollects \/ RunnerFinalizes \/ RunnerCannotBuild \/ RunnerCannotReconcile
           \/ RunnerEnds \/ RunnerCancelled \/ RunnerEscapes
  <2>1. UNCHANGED rows
    BY <1>1 DEF RunnerPlans, RunnerFails, RunnerSchedules, RunnerLeavesGraph,
      RunnerCollects, RunnerFinalizes, RunnerCannotBuild, RunnerCannotReconcile, RunnerEnds,
      RunnerCancelled, RunnerEscapes
  <2>2. \/ runner' = "none"
        \/ /\ runner' \in {"answered", "cancelling", "failing", "waiting", "final", "dag", "building"}
           /\ runner \in {"planning", "preparing", "final", "dag", "waiting", "building"}
    BY <1>1 DEF RunnerPlans, RunnerFails, RunnerSchedules, RunnerLeavesGraph,
      RunnerCollects, RunnerFinalizes, RunnerCannotBuild, RunnerCannotReconcile, RunnerEnds,
      RunnerCancelled, RunnerEscapes, Unwind
  <2> QED BY <2>1, <2>2 DEF PhaseOK, rows, State
<1>2. CASE RunnerStarts
  <2>1. UNCHANGED rows /\ runner = "spawned"
        /\ (runner' = "none" \/ (Accepted /\ runner' = "accepted") \/ (~Accepted /\ runner' = "preparing"))
    BY <1>2 DEF RunnerStarts
  <2> QED BY <1>0, <2>1, PhaseMeans DEF PhaseOK, rows, State, Accepted
<1>3. CASE RunnerPrepared \/ RunnerHasPlan
  <2>1. \E s \in {"planning", "running"} : State' = s /\ SamePhase
    BY <1>0, <1>3, UpdateJobDoes, JobTypes DEF RunnerPrepared, RunnerHasPlan, JobStates
  <2>2. runner' \in {"planning", "dag"} /\ runner \in {"preparing", "planned"}
    BY <1>3 DEF RunnerPrepared, RunnerHasPlan
  <2> QED BY <2>1, <2>2 DEF PhaseOK, SamePhase, State
<1>4. CASE RunnerStoresPlan
  <2>1. answer # None => answer.tasks \in SUBSET Tasks
    BY PlansAssumption DEF Base, TypeOK
  <2>2. {Fallback} \in SUBSET Tasks
    BY PlansAssumption
  <2>3. SameState /\ SameStop /\ SamePhase
    BY <1>0, <1>4, <2>1, <2>2, AddTasksDoes DEF RunnerStoresPlan
  <2>4. runner = "answered" /\ runner' = "planned"
    BY <1>4 DEF RunnerStoresPlan
  <2> QED BY <2>3, <2>4 DEF PhaseOK, SamePhase, SameState, SameStop, State
<1>5. CASE RunnerAccepts
  <2>1. phase'[Job] = "accepted" /\ runner' = "accepted"
    BY <1>0, <1>5, PrepareAcceptedDoes DEF RunnerAccepts, Rows!Intents
  <2> QED BY <2>1 DEF PhaseOK
<1>6. CASE RunnerResumesAccepted \/ RunnerReconciles
  <2>1. \/ phase'[Job] = "published" /\ runner' = "published"
        \/ phase'[Job] = "applying" /\ runner' = "applying"
    BY <1>0, <1>6, PublishDoes, MarkApplyStartedDoes DEF RunnerResumesAccepted, RunnerReconciles, Rows!Outcomes, rows
  <2> QED BY <2>1 DEF PhaseOK
<1>7. CASE RunnerSettles
  <2>1. SameState /\ SameStop /\ SamePhase /\ phase[Job] = "none"
    BY <1>0, <1>7, SettleInflightDoes DEF RunnerSettles
  <2>2. runner' \in {"stopped", "queued", "failed"}
    BY <1>7 DEF RunnerSettles
  <2> QED BY <2>1, <2>2 DEF PhaseOK, SamePhase, SameState, SameStop, State
<1>8. CASE RunnerCloses
  <2>1. SamePhase /\ State' \in {"stopped", "queued", "failed"} /\ runner' = "none"
    BY <1>0, <1>8, UpdateJobDoes, JobTypes DEF RunnerCloses, JobStates
  <2> QED BY <2>1 DEF PhaseOK, SamePhase, State
<1> QED BY <1>1, <1>2, <1>3, <1>4, <1>5, <1>6, <1>7, <1>8 DEF RunnerStep

LEMMA PhaseKept == Base /\ PhaseOK /\ [Next]_vars => PhaseOK'
<1> SUFFICES ASSUME Base, PhaseOK, [Next]_vars PROVE PhaseOK'
  OBVIOUS
<1>1. ASSUME NEW r \in Runs, NEW t \in Tasks, WorkerStep(r, t) PROVE PhaseOK'
  BY <1>1, WorkerKeepsJob DEF PhaseOK, SameStop, SamePhase, State
<1>2. CASE UNCHANGED vars
  BY <1>2 DEF vars, rows, PhaseOK, State
<1> QED BY <1>1, <1>2, DaemonPhase, RunnerPhase DEF Next

-----------------------------------------------------------------------------
(* Coroutines inside a segment, and coroutines without a daemon.            *)

\* The places from which a worker goes on without an await.
Inner == {"head", "starting", "again", "passed"}

NoneLive == \A r \in Runs, t \in Tasks : ~Live(r, t)

InnerOK ==
  /\ \A r \in Runs, t \in Tasks : Pc(r, t) \in Inner => loop = InWorker(r, t)
  /\ daemon = "down" => NoneLive

\* The coroutine has not moved.
SamePlace(r, t) ==
  worker'[r][t].pc = worker[r][t].pc /\ worker'[r][t].n = worker[r][t].n

\* The daemon and the runner leave a coroutine where it is, forget it, or create it.
LEMMA ControlWorkers ==
  ASSUME Base, Controls
  PROVE  /\ attempts' = attempts
         /\ \A r \in Runs, t \in Tasks :
              \/ SamePlace(r, t) \/ worker'[r][t] = Idle
              \/ /\ runner = "dag" /\ runner' = "waiting" /\ run' = run /\ UNCHANGED rows
                 /\ r = run /\ t \in Ready /\ worker'[r][t] = Scheduled(t)
<1>0. worker \in Workers
  BY TypeParts DEF Base
<1>1. CASE StaysPut \/ Spawns \/ Vanish
  BY <1>1 DEF StaysPut, Spawns, Vanish, SamePlace
<1>2. CASE Unwinds
  <2>1. run \in Runs
    BY <1>2 DEF Unwinds, Base, LoopOK
  <2>2. \A r \in Runs, t \in Tasks : worker'[r][t] = worker[r][t] \/ (r = run /\ worker'[r][t] = Told(r, t))
    BY <1>0, <1>2, <2>1, UnwindDoes DEF Unwinds
  <2>3. \A r \in Runs, t \in Tasks : worker[r][t] \in Record
    BY <1>0 DEF Workers
  <2>4. \A r \in Runs, t \in Tasks : Told(r, t).pc = worker[r][t].pc /\ Told(r, t).n = worker[r][t].n
    BY <2>3 DEF Told, Record
  <2>5. attempts' = attempts
    BY <1>2 DEF Unwinds
  <2> QED BY <2>2, <2>4, <2>5 DEF SamePlace
<1>3. CASE Schedules
  <2>1. PICK S \in SUBSET Ready :
          /\ \A r \in Runs, t \in Tasks : r # run => worker'[r][t] = worker[r][t]
          /\ \A t \in Tasks : worker'[run][t] = IF t \in S THEN Scheduled(t) ELSE worker[run][t]
    BY <1>3, SchedulesDoes
  <2>2. attempts' = attempts /\ runner = "dag" /\ runner' = "waiting" /\ run' = run /\ UNCHANGED rows
    BY <1>3 DEF Schedules
  <2> QED BY <2>1, <2>2 DEF SamePlace
<1>4. CASE Collects
  <2>1. attempts' = attempts
    BY <1>4 DEF Collects
  <2> QED BY <1>4, <2>1, CollectsDoes DEF SamePlace
<1> QED BY <1>1, <1>2, <1>3, <1>4, ControlKinds

\* They only run while no coroutine is inside a segment; a crash may fall anywhere.
LEMMA ControlOutside ==
  ASSUME Base, Controls
  PROVE  Vanish \/ loop \in {Free, InRunner, InStop, InClose}
<1>0. LoopOK
  BY DEF Base
<1>1. CASE Client \/ Request \/ Shutdown \/ ShutdownEnds
  BY <1>1 DEF Client, Request, Submit, Stop, Resume, ResumeTimesOut, StopSettles, StopCloses, ResumeWakes,
    Shutdown, ShutdownEnds, Wake, Within
<1>2. CASE Crash
  BY <1>2 DEF Crash, Gone, Vanish
<1>3. CASE Start
  BY <1>0, <1>3 DEF Start, LoopOK
<1>4. CASE RunnerStep
  BY <1>4 DEF RunnerStep, RunnerStarts, RunnerPrepared, RunnerPlans, RunnerStoresPlan, RunnerHasPlan,
    RunnerFails, RunnerSchedules, RunnerLeavesGraph, RunnerCollects, RunnerFinalizes, RunnerAccepts,
    RunnerCannotBuild, RunnerResumesAccepted, RunnerReconciles, RunnerCannotReconcile, RunnerEnds,
    RunnerCancelled, RunnerEscapes, RunnerSettles, RunnerCloses, HandlerResumes, Wake, Within
<1> QED BY <1>1, <1>2, <1>3, <1>4 DEF Controls, Daemon

\* A coroutine that goes on without an await keeps the loop.
LEMMA WorkerLoop ==
  ASSUME Base, NEW r \in Runs, NEW t \in Tasks, WorkerStep(r, t), worker'[r][t].pc \in Inner
  PROVE  loop' = InWorker(r, t)
<1>0. worker \in Workers
  BY TypeParts DEF Base
<1>1. ASSUME NEW pc \in WorkerSteps, Goto(r, t, pc) PROVE loop' = InWorker(r, t)
  BY <1>0, <1>1, GotoDoes DEF Moves, Inner
<1>2. ASSUME NEW how \in {"done", "failed", "error", "cancelled"}, Exit(r, t, how) PROVE FALSE
  BY <1>0, <1>2, ExitDoes DEF Moves, Inner
<1>3. CASE WorkerTriesAgain(r, t)
  BY <1>3 DEF WorkerTriesAgain, Inside, Within
<1>4. CASE WorkerInterrupted(r, t)
  BY <1>0, <1>4, InterruptDoes DEF Moves, Inner
<1>5. CASE \/ WorkerPrepared(r, t) \/ WorkerBegins(r, t) \/ WorkerStartsAttempt(r, t)
           \/ WorkerRejected(r, t) \/ WorkerAgentDone(r, t) \/ WorkerGatesPass(r, t)
           \/ WorkerReviewPasses(r, t) \/ WorkerMerges(r, t) \/ WorkerMerged(r, t) \/ WorkerCompletes(r, t)
  BY <1>1, <1>5 DEF WorkerPrepared, WorkerBegins, WorkerStartsAttempt, WorkerRejected, WorkerAgentDone,
    WorkerGatesPass, WorkerReviewPasses, WorkerMerges, WorkerMerged, WorkerCompletes, WorkerSteps
<1>6. CASE \/ WorkerSeesStop(r, t) \/ WorkerExhausted(r, t) \/ WorkerCleansUp(r, t)
           \/ WorkerRaises(r, t) \/ WorkerCancelled(r, t) \/ WorkerRolledBack(r, t)
  BY <1>2, <1>6 DEF WorkerSeesStop, WorkerExhausted, WorkerCleansUp, WorkerRaises, WorkerCancelled,
    WorkerRolledBack
<1> QED BY <1>3, <1>4, <1>5, <1>6 DEF WorkerStep

LEMMA InnerKept == Base /\ InnerOK /\ [Next]_vars => InnerOK'
<1> SUFFICES ASSUME Base, InnerOK, [Next]_vars PROVE InnerOK'
  OBVIOUS
<1> USE DEF Live, Pc
<1>1. CASE Controls
  <2>1. CASE Vanish
    BY <2>1, IdleIs DEF Vanish, InnerOK, NoneLive, Inner
  <2>2. CASE loop \in {Free, InRunner, InStop, InClose}
    <3>1. \A r \in Runs, t \in Tasks : Pc(r, t) \notin Inner
      BY <2>2, LoopNames DEF InnerOK
    <3>2. attempts \in [Tasks -> Nat]
      BY TypeParts DEF Base
    <3>3. \A r \in Runs, t \in Tasks : worker'[r][t].pc \notin Inner
      BY <1>1, <3>1, <3>2, ControlWorkers, IdleIs, ScheduledIs DEF SamePlace, Inner
    <3>4. daemon' = "down" => daemon = "down" \/ Vanish
      BY <1>1 DEF Controls, Client, Request, Daemon, Submit, Stop, Resume, ResumeTimesOut, StopSettles,
        StopCloses, ResumeWakes, Shutdown, Crash, ShutdownEnds, Gone, Start, RunnerStep, RunnerStarts,
        RunnerPrepared, RunnerPlans, RunnerStoresPlan, RunnerHasPlan,
        RunnerFails, RunnerSchedules, RunnerLeavesGraph, RunnerCollects, RunnerFinalizes, RunnerAccepts,
        RunnerCannotBuild, RunnerResumesAccepted, RunnerReconciles, RunnerCannotReconcile, RunnerEnds,
        RunnerCancelled, RunnerEscapes, RunnerSettles, RunnerCloses, RunnerOnly, Vanish
    <3>5. CASE daemon = "down"
      <4>1. runner = "none" /\ NoneLive
        BY <3>5 DEF Base, LoopOK, InnerOK
      <4> QED BY <1>1, <3>3, <4>1, ControlWorkers, IdleIs DEF NoneLive, SamePlace, InnerOK
    <3> QED BY <2>1, <3>3, <3>4, <3>5 DEF InnerOK
  <2> QED BY <1>1, <2>1, <2>2, ControlOutside
<1>2. ASSUME NEW r \in Runs, NEW t \in Tasks, WorkerStep(r, t) PROVE InnerOK'
  <2>1. \A q \in Runs, u \in Tasks : q # r \/ u # t => worker'[q][u] = worker[q][u]
    BY <1>2, WorkerProgress DEF Progress, OthersKept
  <2>2. daemon' = daemon /\ daemon # "down" /\ loop \in {Free, InWorker(r, t)}
    BY <1>2, WorkerKeepsJob
  <2>3. \A q \in Runs, u \in Tasks : q # r \/ u # t => Pc(q, u) \notin Inner
    BY <2>2, LoopNames DEF InnerOK
  <2> QED BY <1>2, <2>1, <2>2, <2>3, WorkerLoop DEF InnerOK
<1>3. CASE UNCHANGED vars
  BY <1>3 DEF vars, InnerOK, NoneLive
<1> QED BY <1>1, <1>2, <1>3 DEF Next, Controls

-----------------------------------------------------------------------------
(* The order in which the coroutines of a job end.                          *)

\* What the rows say of the task while its coroutine is at a place.
WorkerOK(r, t) ==
  LET pc == Pc(r, t)
      n  == Number(r, t)
      s  == taskState[Job][t]
      a  == attemptState[Job][t]
  IN
  /\ pc \in {"preparing", "head"} => s = "pending" /\ n = attempts[t] + 1
  /\ pc \notin {"preparing", "head", "passed", "cleanup"} => n = attempts[t]
  /\ pc = "starting" => /\ State = "running" /\ s = "running" /\ a[n] = Absent
                        /\ ~Store!HasRunningAttempt(Job, t)
  /\ pc \in {"agent", "gates"} => s = "running" /\ a[n] = "running"
  /\ pc \in {"reviewing", "waiting"} => s = "reviewing" /\ a[n] = "running"
  /\ pc \in {"merging", "rollback"} => s = "integrating" /\ a[n] = "running"
  /\ pc = "passed" => s = "integrating" /\ ~Store!HasRunningAttempt(Job, t)
  /\ pc = "again" => s \in InflightTaskStates /\ ~Store!HasRunningAttempt(Job, t)
  /\ pc = "cleanup" => s = "completed"

\* Only the current runner has live coroutines, and only while the job is active; once
\* the job is accepted they have nothing left but the removal of a worktree.
LiveOK(r, t) ==
  /\ r = run /\ WorkerOK(r, t)
  /\ State \in {"running", "stopping", "completed"}
  /\ Pc(r, t) = "cleanup" \/ phase[Job] = "none"

AllAtRest == \A r \in Runs : AtRest(r)

\* Acceptance, settling and a job without a runner all come after the workers.
SettledOK ==
  /\ runner \in {"final", "building", "accepted", "applying", "published"} => AllAtRest
  /\ Unwinding /\ loop = InRunner => NoneLive
  /\ runner \in {"stopped", "queued", "failed"} => NoneLive
  /\ runner = "none" /\ phase[Job] = "none" => NoneLive

\* The job's state, seen from the runner, as long as nothing is accepted.
StateOK ==
  phase[Job] = "none" =>
    /\ runner \in {"spawned", "preparing"} => State \in {"queued", "stopping"}
    /\ runner \in {"planning", "answered", "planned"} => State \in {"planning", "stopping"}
    /\ runner \in {"dag", "waiting", "final", "building"} => State \in {"running", "stopping"}
    /\ runner \in {"cancelling", "failing", "queued", "failed"} =>
         State \in {"queued", "planning", "running", "stopping"}
    /\ runner = "stopped" => State = "stopping"

LiveWorkersOK == \A r \in Runs, t \in Tasks : Live(r, t) => LiveOK(r, t)
NumbersUnused == \A t \in Tasks, m \in Numbers : m > attempts[t] => attemptState[Job][t][m] = Absent

Orderly == LiveWorkersOK /\ NumbersUnused /\ SettledOK /\ StateOK

Whole == Base /\ StopOK /\ PhaseOK /\ DependOK /\ InnerOK

LEMMA QuietMeans ==
  ASSUME LiveWorkersOK, run \in Runs => Quiet(run)
  PROVE  NoneLive
BY DEF LiveWorkersOK, LiveOK, NoneLive, Quiet

LEMMA FreshMeans ==
  ASSUME Base, LiveWorkersOK, runner \in Fresh
  PROVE  NoneLive
<1>1. run \in Runs /\ \A t \in Tasks : worker[run][t] = Idle
  BY DEF Base, LoopOK, BudgetOK, Untouched, Fresh
<1> QED BY <1>1, QuietMeans, IdleIs DEF Quiet, Live, Pc

\* What a step of the daemon or the runner does to the rows under live coroutines: nothing,
\* but for a stop request, the acceptance and the publication of finished work.
RowsUnder ==
  /\ NoneLive \/ (SameGraph /\ State' \in {"running", "stopping", "completed"} /\ run' = run)
  /\ phase'[Job] = "none" \/ AllAtRest

\* Rows of attempts are only inserted by the worker that has the number.
NoNewAttempts ==
  \A t \in Tasks, m \in Numbers : attemptState[Job][t][m] = Absent => attemptState'[Job][t][m] = Absent

LEMMA AbsentIsNot == Absent # "running"
BY DEF Absent

LEMMA DaemonUnder ==
  ASSUME Whole, Orderly, Client \/ Request \/ Shutdown \/ Crash \/ Daemon
  PROVE  RowsUnder /\ NoNewAttempts
<1>0. Rows!TypeOK /\ Rows!StoreInv /\ LoopOK /\ Base
  BY TypeParts DEF Base, Whole
<1>a. NoneLive \/ State \in {"running", "stopping", "completed"}
  BY DEF Orderly, LiveWorkersOK, LiveOK, NoneLive
<1>b. phase[Job] = "none" \/ AllAtRest
  BY DEF Orderly, LiveWorkersOK, LiveOK, AllAtRest, AtRest, Live
<1>c. phase'[Job] = phase[Job]
  BY <1>0, DaemonPhase DEF Whole, SamePhase
<1>1. ASSUME SameGraph, run' = run, State' = State \/ State' = "stopping" PROVE RowsUnder /\ NoNewAttempts
  BY <1>a, <1>b, <1>c, <1>1 DEF RowsUnder, NoNewAttempts, SameGraph
<1>2. ASSUME UNCHANGED rows, run' = run PROVE RowsUnder /\ NoNewAttempts
  BY <1>1, <1>2 DEF rows, SameGraph, State
<1>3. ASSUME NoneLive, SameGraph \/ \E as \in {"cancelled", "failed"} : Closes(as) PROVE RowsUnder /\ NoNewAttempts
  BY <1>b, <1>c, <1>3, AbsentIsNot DEF RowsUnder, NoNewAttempts, SameGraph, Closes
<1>4. CASE Submit
  <2>1. State = Absent /\ SameGraph
    BY <1>0, <1>4, CreateJobDoes DEF Submit
  <2> QED BY <1>a, <1>3, <2>1 DEF Absent
<1>5. CASE Stop
  <2>1. run' = run
    BY <1>5 DEF Stop
  <2> QED BY <1>0, <1>1, <1>2, <1>5, <2>1, RequestStopDoes DEF Stop
<1>6. ASSUME ResumeNow PROVE RowsUnder /\ NoNewAttempts
  <2>1. NoneLive
    BY <1>a, <1>6 DEF ResumeNow, Resumable, Waiting
  <2>2. SameGraph \/ Closes("cancelled")
    BY <1>0, <1>6, PrepareResumeDoes DEF ResumeNow, rows, SameGraph
  <2> QED BY <1>3, <2>1, <2>2
<1>7. CASE Resume \/ ResumeWakes
  BY <1>2, <1>6, <1>7 DEF Resume, ResumeWakes
<1>8. CASE ResumeTimesOut \/ Shutdown \/ Crash \/ ShutdownEnds
  BY <1>2, <1>8 DEF ResumeTimesOut, Shutdown, Crash, ShutdownEnds, Gone
<1>9. CASE StopSettles
  <2>1. run' = run /\ runner = "none" /\ daemon = "up"
    BY <1>0, <1>9 DEF StopSettles, Within, LoopOK, RunnerOnly
  <2>2. CASE Store!SettleInflight(Job, "stopped", "cancelled")
    <3>1. phase[Job] = "none" /\ Closes("cancelled")
      BY <1>0, <2>2, SettleInflightDoes
    <3>2. NoneLive
      BY <2>1, <3>1 DEF Orderly, SettledOK
    <3> QED BY <1>3, <3>1, <3>2
  <2> QED BY <1>2, <1>9, <2>1, <2>2 DEF StopSettles
<1>10. CASE StopCloses
  <2>1. runner = "none" /\ daemon = "up"
    BY <1>0, <1>10 DEF StopCloses, Within, LoopOK
  <2>2. State' = "stopped" /\ SameGraph
    BY <1>0, <1>10, UpdateJobDoes, JobTypes DEF StopCloses, JobStates
  <2>3. phase'[Job] = "none"
    <3>1. Next
      BY <1>10 DEF Next, Request
    <3>2. Rows!StoreInv'
      BY <1>0, <3>1, StoreInvKept
    <3> QED BY <2>2, <3>2, JobTypes DEF Rows!StoreInv, Rows!TypeOK, Rows!JobInv, Rows!RowsOK, Rows!Active, State,
          Rows!AcceptancePhases
  <2>4. NoneLive
    BY <1>c, <2>1, <2>3 DEF Orderly, SettledOK
  <2> QED BY <1>3, <2>2, <2>4
<1>11. CASE Start
  <2>1. NoneLive
    BY <1>11 DEF Whole, InnerOK, Start
  <2>2. attemptState'[Job] = Store!RecoveredAttempts(Job)
    BY <1>0, <1>11, RecoverDoes DEF Start
  <2>3. NoNewAttempts
    BY <2>2, AbsentIsNot DEF Store!RecoveredAttempts, Store!ClosedAttempts, NoNewAttempts
  <2> QED BY <1>b, <1>c, <2>1, <2>3 DEF RowsUnder
<1> QED BY <1>4, <1>5, <1>7, <1>8, <1>9, <1>10, <1>11 DEF Client, Request, Daemon

LEMMA RunnerUnder ==
  ASSUME Whole, Orderly, RunnerStep
  PROVE  RowsUnder /\ NoNewAttempts
<1>0. Rows!TypeOK /\ Rows!StoreInv /\ LoopOK /\ Base
  BY TypeParts DEF Base, Whole
<1>a. NoneLive \/ State \in {"running", "stopping", "completed"}
  BY DEF Orderly, LiveWorkersOK, LiveOK, NoneLive
<1>b. phase[Job] = "none" \/ AllAtRest
  BY DEF Orderly, LiveWorkersOK, LiveOK, AllAtRest, AtRest, Live
<1>c. run' = run
  BY DEF RunnerStep, RunnerStarts, RunnerPrepared, RunnerPlans, RunnerStoresPlan, RunnerHasPlan,
    RunnerFails, RunnerSchedules, RunnerLeavesGraph, RunnerCollects, RunnerFinalizes, RunnerAccepts,
    RunnerCannotBuild, RunnerResumesAccepted, RunnerReconciles, RunnerCannotReconcile, RunnerEnds,
    RunnerCancelled, RunnerEscapes, RunnerSettles, RunnerCloses, RunnerOnly
<1>1. ASSUME UNCHANGED rows PROVE RowsUnder /\ NoNewAttempts
  BY <1>a, <1>b, <1>c, <1>1 DEF rows, SameGraph, State, RowsUnder, NoNewAttempts
<1>2. ASSUME NoneLive, SamePhase, SameGraph \/ attemptState'[Job] = attemptState[Job]
                                  \/ \E as \in {"cancelled", "failed"} : Closes(as)
      PROVE  RowsUnder /\ NoNewAttempts
  BY <1>b, <1>2, AbsentIsNot DEF RowsUnder, NoNewAttempts, SameGraph, SamePhase, Closes
<1>3. ASSUME AllAtRest, SameGraph, SameState \/ State' = "completed" PROVE RowsUnder /\ NoNewAttempts
  BY <1>a, <1>c, <1>3 DEF SameGraph, SameState, State, RowsUnder, NoNewAttempts
<1>4. CASE \/ RunnerStarts \/ RunnerPlans \/ RunnerFails \/ RunnerSchedules \/ RunnerLeavesGraph
           \/ RunnerCollects \/ RunnerFinalizes \/ RunnerCannotBuild \/ RunnerCannotReconcile
           \/ RunnerEnds \/ RunnerCancelled \/ RunnerEscapes
  BY <1>1, <1>4 DEF RunnerStarts, RunnerPlans, RunnerFails, RunnerSchedules, RunnerLeavesGraph,
    RunnerCollects, RunnerFinalizes, RunnerCannotBuild, RunnerCannotReconcile, RunnerEnds,
    RunnerCancelled, RunnerEscapes
<1>5. CASE RunnerPrepared \/ RunnerHasPlan
  <2>1. NoneLive
    BY <1>0, <1>5, FreshMeans DEF RunnerPrepared, RunnerHasPlan, Fresh, Orderly
  <2>2. SamePhase /\ SameGraph
    BY <1>0, <1>5, UpdateJobDoes, JobTypes DEF RunnerPrepared, RunnerHasPlan, JobStates
  <2> QED BY <1>2, <2>1, <2>2
<1>6. CASE RunnerStoresPlan
  <2>1. NoneLive
    BY <1>0, <1>6, FreshMeans DEF RunnerStoresPlan, Fresh, Orderly
  <2>2. answer # None => answer.tasks \in SUBSET Tasks
    BY <1>0, PlansAssumption DEF Base, TypeOK
  <2>3. {Fallback} \in SUBSET Tasks
    BY PlansAssumption
  <2>4. SamePhase /\ attemptState'[Job] = attemptState[Job]
    BY <1>0, <1>6, <2>2, <2>3, AddTasksDoes DEF RunnerStoresPlan
  <2> QED BY <1>2, <2>1, <2>4
<1>7. CASE RunnerAccepts
  <2>1. SameState /\ SameGraph
    BY <1>0, <1>7, PrepareAcceptedDoes DEF RunnerAccepts, Rows!Intents
  <2>2. AllAtRest
    BY <1>7 DEF RunnerAccepts, Orderly, SettledOK
  <2> QED BY <1>3, <2>1, <2>2
<1>8. CASE RunnerResumesAccepted \/ RunnerReconciles
  <2>1. SameGraph /\ (SameState \/ State' = "completed")
    BY <1>0, <1>8, PublishDoes, MarkApplyStartedDoes DEF RunnerResumesAccepted, RunnerReconciles,
      Rows!Outcomes, SameGraph, SameState, rows
  <2>2. AllAtRest
    BY <1>8 DEF RunnerResumesAccepted, RunnerReconciles, Orderly, SettledOK
  <2> QED BY <1>3, <2>1, <2>2
<1>9. CASE RunnerSettles
  <2>1. SamePhase /\ \E as \in {"cancelled", "failed"} : Closes(as)
    BY <1>0, <1>9, SettleInflightDoes DEF RunnerSettles
  <2>2. loop = InRunner \/ Quiet(run)
    BY <1>9 DEF RunnerSettles, HandlerResumes
  <2>3. NoneLive
    BY <1>9, <2>2, QuietMeans DEF RunnerSettles, Orderly, SettledOK
  <2> QED BY <1>2, <2>1, <2>3
<1>10. CASE RunnerCloses
  <2>1. SamePhase /\ SameGraph
    BY <1>0, <1>10, UpdateJobDoes, JobTypes DEF RunnerCloses, JobStates
  <2>2. NoneLive
    BY <1>10 DEF RunnerCloses, Orderly, SettledOK
  <2> QED BY <1>2, <2>1, <2>2
<1> QED BY <1>4, <1>5, <1>6, <1>7, <1>8, <1>9, <1>10 DEF RunnerStep

\* Coroutines come to rest, and stay there, unless the scheduler creates new ones.
LEMMA RestKept ==
  ASSUME Whole, Controls, ~(runner = "dag" /\ runner' = "waiting")
  PROVE  /\ NoneLive => NoneLive'
         /\ AllAtRest => AllAtRest'
<1>1. \A r \in Runs, t \in Tasks : worker'[r][t].pc = worker[r][t].pc \/ worker'[r][t].pc = "none"
  BY ControlWorkers, IdleIs DEF Whole, SamePlace
<1> QED BY <1>1 DEF NoneLive, AllAtRest, AtRest, Live, Pc

LEMMA ControlLive ==
  ASSUME Whole, Orderly, Controls, RowsUnder
  PROVE  LiveWorkersOK'
<1> SUFFICES ASSUME NEW r \in Runs, NEW t \in Tasks, Live(r, t)' PROVE LiveOK(r, t)'
  BY DEF LiveWorkersOK
<1>0. Base /\ worker \in Workers /\ attempts \in [Tasks -> Nat]
  BY TypeParts DEF Whole, Base
<1>1. attempts' = attempts /\ worker'[r][t] # Idle
  BY <1>0, ControlWorkers, IdleIs DEF Live, Pc
<1>2. CASE SamePlace(r, t)
  <2>1. Live(r, t)
    BY <1>2 DEF SamePlace, Live, Pc
  <2>2. SameGraph /\ State' \in {"running", "stopping", "completed"} /\ run' = run
    BY <2>1 DEF RowsUnder, NoneLive
  <2>3. LiveOK(r, t)
    BY <2>1 DEF Orderly, LiveWorkersOK
  <2>4. Pc(r, t) \notin Inner
    <3>1. ~Vanish
      BY <1>1 DEF Vanish
    <3>2. loop \in {Free, InRunner, InStop, InClose}
      BY <1>0, <3>1, ControlOutside
    <3> QED BY <3>2, LoopNames DEF Whole, InnerOK
  <2>5. Pc(r, t)' = Pc(r, t) /\ Number(r, t)' = Number(r, t)
    BY <1>2 DEF SamePlace, Pc, Number
  <2>6. WorkerOK(r, t)'
    BY <1>1, <2>2, <2>3, <2>4, <2>5 DEF LiveOK, WorkerOK, SameGraph, Inner
  <2>7. Pc(r, t)' = "cleanup" \/ phase'[Job] = "none"
    BY <2>1, <2>5 DEF RowsUnder, AllAtRest, AtRest, Live
  <2> QED BY <2>2, <2>3, <2>6, <2>7 DEF LiveOK
<1>3. CASE /\ runner = "dag" /\ run' = run /\ UNCHANGED rows
           /\ r = run /\ t \in Ready /\ worker'[r][t] = Scheduled(t)
  <2>1. Pc(r, t)' = "preparing" /\ Number(r, t)' = attempts[t] + 1
    BY <1>0, <1>3, ScheduledIs DEF Pc, Number
  <2>2. taskState[Job][t] = "pending"
    BY <1>3 DEF Ready
  <2>3. phase[Job] = "none" /\ State \in {"running", "stopping"}
    BY <1>3 DEF Whole, PhaseOK, Orderly, StateOK
  <2>4. WorkerOK(r, t)'
    BY <1>1, <1>3, <2>1, <2>2 DEF WorkerOK, rows
  <2> QED BY <1>3, <2>1, <2>3, <2>4 DEF LiveOK, rows, State
<1> QED BY <1>0, <1>1, <1>2, <1>3, ControlWorkers

LEMMA NoneSettles ==
  /\ NoneLive' => SettledOK' /\ AllAtRest'
  /\ NoneLive => AllAtRest
BY DEF NoneLive, SettledOK, AllAtRest, AtRest, Live

\* Every completed plan leaves its workers with nothing but the removal of a worktree.
LEMMA CompletedRests ==
  ASSUME Whole, Orderly, AllCompleted
  PROVE  AllAtRest
<1> SUFFICES ASSUME NEW r \in Runs, NEW t \in Tasks, Live(r, t) PROVE Pc(r, t) = "cleanup"
  BY DEF AllAtRest, AtRest, Live
<1>1. taskState[Job][t] = "completed"
  BY DEF Whole, DependOK, AllCompleted, Done
<1>2. WorkerOK(r, t)
  BY DEF Orderly, LiveWorkersOK, LiveOK
<1>3. Pc(r, t) \in WorkerSteps
  BY TypeParts DEF Whole, Base, Workers, Record, Pc
<1> QED BY <1>1, <1>2, <1>3 DEF WorkerOK, WorkerSteps, Live, InflightTaskStates

LEMMA DaemonSettled ==
  ASSUME Whole, Orderly, Client \/ Request \/ Shutdown \/ Crash \/ Daemon
  PROVE  SettledOK'
<1>0. LoopOK /\ Base /\ Controls
  BY DEF Base, Whole, Controls
<1>1. phase'[Job] = phase[Job]
  BY <1>0, DaemonPhase DEF Whole, SamePhase
<1>2. ASSUME Spawn PROVE SettledOK'
  BY <1>2 DEF Spawn, SettledOK, Unwinding
<1>3. ASSUME runner' = runner, loop' # InRunner \/ loop' = loop, daemon' = daemon \/ daemon' = "closing"
      PROVE  SettledOK'
  <2>1. /\ NoneLive => NoneLive'
        /\ AllAtRest => AllAtRest'
    BY <1>0, <1>3, RestKept
  <2> QED BY <1>1, <1>3, <2>1 DEF Orderly, SettledOK, Unwinding
<1>4. CASE Submit
  BY <1>2, <1>4 DEF Submit
<1>5. CASE Stop \/ StopSettles \/ StopCloses \/ ResumeTimesOut \/ Shutdown
  <2>1. /\ runner' = runner /\ (loop' \in {Free, InStop, InClose} \/ loop' = loop)
        /\ daemon' = daemon \/ daemon' = "closing"
    BY <1>5 DEF Stop, StopSettles, StopCloses, ResumeTimesOut, Shutdown, RunnerOnly
  <2> QED BY <1>3, <2>1, LoopNames
<1>6. CASE Resume \/ ResumeWakes
  BY <1>2, <1>3, <1>6 DEF Resume, ResumeWakes, ResumeNow
<1>7. CASE Crash \/ ShutdownEnds
  <2>1. NoneLive'
    BY <1>7, IdleIs DEF Crash, ShutdownEnds, Gone, NoneLive, Live, Pc
  <2> QED BY <2>1, NoneSettles
<1>8. CASE Start
  <2>1. NoneLive /\ worker' = worker
    BY <1>8 DEF Whole, InnerOK, Start
  <2>2. NoneLive'
    BY <2>1 DEF NoneLive, Live, Pc
  <2> QED BY <2>2, NoneSettles
<1> QED BY <1>4, <1>5, <1>6, <1>7, <1>8 DEF Client, Request, Daemon

LEMMA RunnerSettled ==
  ASSUME Whole, Orderly, RunnerStep
  PROVE  SettledOK'
<1>0. LoopOK /\ Base /\ Controls
  BY DEF Base, Whole, Controls
<1>1. ASSUME NoneLive, runner # "dag" PROVE SettledOK'
  BY <1>0, <1>1, RestKept, NoneSettles
<1>2. ASSUME AllAtRest, runner' \in {"final", "building", "accepted", "applying", "published"} PROVE SettledOK'
  BY <1>0, <1>2, RestKept DEF SettledOK, Unwinding
<1>3. ASSUME NEW kind \in {"cancelling", "failing"}, Unwind(kind), RunnerOnly, runner # "none" PROVE SettledOK'
  <2>1. runner' = kind /\ (loop' = InRunner => Quiet(run))
    BY <1>3, LoopNames DEF Unwind
  <2>2. CASE loop' = InRunner
    <3>1. NoneLive
      BY <2>1, <2>2, QuietMeans DEF Orderly
    <3>2. NoneLive'
      BY <1>0, <2>1, <3>1, RestKept
    <3> QED BY <3>2, NoneSettles
  <2>3. CASE loop' # InRunner
    BY <2>1, <2>3 DEF SettledOK, Unwinding
  <2> QED BY <2>2, <2>3
<1>4. CASE RunnerStarts \/ RunnerPrepared \/ RunnerPlans \/ RunnerStoresPlan \/ RunnerHasPlan
  <2>1. runner \in Fresh /\ runner # "dag"
    BY <1>4 DEF RunnerStarts, RunnerPrepared, RunnerPlans, RunnerStoresPlan, RunnerHasPlan, Fresh
  <2>2. NoneLive
    BY <1>0, <2>1, FreshMeans DEF Orderly
  <2> QED BY <1>1, <2>1, <2>2
<1>5. CASE RunnerFails \/ RunnerCannotBuild \/ RunnerCancelled
  <2>1. \E kind \in {"cancelling", "failing"} : Unwind(kind) /\ RunnerOnly /\ runner # "none"
    BY <1>5 DEF RunnerFails, RunnerCannotBuild, RunnerCancelled
  <2> QED BY <1>3, <2>1
<1>6. CASE RunnerLeavesGraph
  <2>1. CASE \E kind \in {"cancelling", "failing"} : Unwind(kind)
    BY <1>3, <1>6, <2>1 DEF RunnerLeavesGraph
  <2>2. CASE AllCompleted /\ runner' = "final"
    BY <1>2, <2>2, CompletedRests
  <2> QED BY <1>6, <2>1, <2>2 DEF RunnerLeavesGraph
<1>7. CASE RunnerSchedules
  BY <1>7 DEF RunnerSchedules, SettledOK, Unwinding
<1>8. CASE RunnerCollects
  <2>1. CASE \E kind \in {"cancelling", "failing"} : Unwind(kind)
    BY <1>3, <1>8, <2>1 DEF RunnerCollects
  <2>2. CASE runner' = "dag"
    BY <2>2 DEF SettledOK, Unwinding
  <2> QED BY <1>8, <2>1, <2>2 DEF RunnerCollects
<1>9. CASE RunnerFinalizes \/ RunnerAccepts \/ RunnerResumesAccepted \/ RunnerReconciles
  <2>1. /\ runner \in {"final", "building", "accepted", "applying"}
        /\ runner' \in {"building", "accepted", "applying", "published"}
    BY <1>9 DEF RunnerFinalizes, RunnerAccepts, RunnerResumesAccepted, RunnerReconciles
  <2> QED BY <1>2, <2>1 DEF Orderly, SettledOK
<1>10. CASE RunnerCannotReconcile \/ RunnerEnds
  <2>1. runner' = "none" /\ phase' = phase /\ runner \in {"applying", "published"}
    BY <1>10 DEF RunnerCannotReconcile, RunnerEnds, rows
  <2>2. phase[Job] # "none"
    BY <2>1 DEF Whole, PhaseOK
  <2> QED BY <2>1, <2>2 DEF SettledOK, Unwinding
<1>11. CASE RunnerEscapes
  <2>1. Quiet(run) /\ Unwinding /\ runner # "dag"
    BY <1>11 DEF RunnerEscapes, Unwinding
  <2>2. NoneLive
    BY <2>1, QuietMeans DEF Orderly
  <2> QED BY <1>1, <2>1, <2>2
<1>12. CASE RunnerSettles
  <2>1. loop = InRunner \/ Quiet(run)
    BY <1>12 DEF RunnerSettles, HandlerResumes
  <2>2. NoneLive /\ runner # "dag"
    BY <1>12, <2>1, QuietMeans DEF RunnerSettles, Orderly, SettledOK, Unwinding
  <2> QED BY <1>1, <2>2
<1>13. CASE RunnerCloses
  <2>1. NoneLive /\ runner # "dag"
    BY <1>13 DEF RunnerCloses, Orderly, SettledOK
  <2> QED BY <1>1, <2>1
<1> QED BY <1>4, <1>5, <1>6, <1>7, <1>8, <1>9, <1>10, <1>11, <1>12, <1>13 DEF RunnerStep

LEMMA DaemonState ==
  ASSUME Whole, Orderly, Client \/ Request \/ Shutdown \/ Crash \/ Daemon
  PROVE  StateOK'
<1>0. LoopOK /\ Base /\ Rows!TypeOK /\ StateOK
  BY TypeParts DEF Base, Whole, Orderly
<1>1. phase'[Job] = phase[Job]
  BY <1>0, DaemonPhase DEF Whole, SamePhase
<1>2. ASSUME Spawn, phase[Job] = "none" => State' = "queued" PROVE StateOK'
  BY <1>1, <1>2 DEF Spawn, StateOK
<1>3. ASSUME runner' = runner, State' = State \/ runner = "none", cancelled' = cancelled, daemon' = daemon
      PROVE  StateOK'
  BY <1>0, <1>1, <1>3 DEF StateOK, Unwinding
<1>4. CASE Submit
  BY <1>0, <1>2, <1>4, CreateJobDoes DEF Submit
<1>5. CASE Stop
  <2>1. runner' = runner /\ runner \notin GoesOn
    BY <1>0, <1>5, LoopNames DEF Stop, Wake, LoopOK
  <2>2. State' = "stopping" \/ State' = State
    BY <1>0, <1>5, RequestStopDoes DEF Stop, rows, State
  <2>3. StateOK'
    BY <1>0, <1>1, <2>1, <2>2 DEF StateOK, GoesOn
  <2> QED BY <2>3
<1>6. ASSUME ResumeNow PROVE Spawn /\ State' = "queued"
  BY <1>0, <1>6, PrepareResumeDoes DEF ResumeNow, Waiting, rows, State
<1>7. CASE Resume \/ ResumeWakes
  <2>1. CASE ResumeNow
    BY <1>2, <1>6, <2>1
  <2>2. CASE UNCHANGED <<rows, runner, cancelled, daemon>>
    BY <1>3, <2>2 DEF rows, State
  <2> QED BY <1>7, <2>1, <2>2 DEF Resume, ResumeWakes
<1>8. CASE ResumeTimesOut
  BY <1>3, <1>8 DEF ResumeTimesOut, rows, State
<1>9. CASE Shutdown
  <2>1. runner' = runner /\ State' = State /\ daemon' = "closing"
    BY <1>9 DEF Shutdown, rows, State
  <2> QED BY <1>0, <1>1, <2>1 DEF StateOK
<1>10. CASE StopSettles \/ StopCloses
  <2>1. UNCHANGED <<runner, cancelled, daemon>> /\ runner = "none"
    BY <1>0, <1>10 DEF StopSettles, StopCloses, RunnerOnly, Within, LoopOK
  <2> QED BY <1>3, <2>1
<1>11. CASE Crash \/ ShutdownEnds
  <2>1. runner' = "none" /\ cancelled' = FALSE
    BY <1>11 DEF Crash, ShutdownEnds, Gone
  <2> QED BY <2>1 DEF StateOK
<1>12. CASE Start
  <2>1. runner = "none"
    BY <1>0, <1>12 DEF Start, LoopOK
  <2>2. CASE RecoverySpawns
    <3>1. State' = Store!RecoveredState(Job) /\ Spawn
      BY <1>0, <1>12, <2>2, RecoverDoes DEF Start
    <3>2. phase[Job] = "none" => State' = "queued"
      BY <2>2, <3>1 DEF RecoverySpawns, Store!RecoversAccepted, Store!RecoveredState
    <3> QED BY <1>2, <3>1, <3>2
  <2>3. CASE ~RecoverySpawns
    <3>1. runner' = "none"
      BY <1>12, <2>1, <2>3 DEF Start
    <3> QED BY <3>1 DEF StateOK, Unwinding
  <2> QED BY <2>2, <2>3
<1> QED BY <1>4, <1>5, <1>7, <1>8, <1>9, <1>10, <1>11, <1>12 DEF Client, Request, Daemon

LEMMA RunnerState ==
  ASSUME Whole, Orderly, RunnerStep
  PROVE  StateOK'
<1>0. LoopOK /\ Base /\ Rows!TypeOK /\ StateOK
  BY TypeParts DEF Base, Whole, Orderly
<1>1. ASSUME UNCHANGED rows PROVE State' = State /\ SamePhase
  BY <1>1 DEF rows, State, SamePhase
<1>a. runner \notin {"none", "spawned", "accepted", "applying", "published"} => phase[Job] = "none"
  BY DEF Whole, PhaseOK
<1>2. CASE RunnerStarts
  <2>1. State' = State /\ SamePhase /\ runner = "spawned" /\ runner' \in {"none", "accepted", "preparing"}
    BY <1>1, <1>2 DEF RunnerStarts
  <2>2. cancelled' = FALSE
    BY <1>2 DEF RunnerStarts
  <2> QED BY <1>0, <2>1, <2>2 DEF StateOK, SamePhase
<1>3. CASE RunnerPrepared
  <2>1. CASE State' = "planning" /\ runner' = "planning"
    BY <2>1 DEF StateOK, Unwinding
  <2>2. CASE State' = "running" /\ runner' = "dag"
    BY <2>2 DEF StateOK, Unwinding
  <2> QED BY <1>0, <1>3, <2>1, <2>2, UpdateJobDoes, JobTypes DEF RunnerPrepared, JobStates
<1>4. CASE RunnerHasPlan
  <2>1. State' = "running" /\ runner' = "dag"
    BY <1>0, <1>4, UpdateJobDoes, JobTypes DEF RunnerHasPlan, JobStates
  <2> QED BY <2>1 DEF StateOK, Unwinding
<1>5. CASE RunnerPlans
  <2>1. State' = State /\ runner = "planning" /\ runner' = "answered"
    BY <1>1, <1>5 DEF RunnerPlans
  <2> QED BY <1>0, <1>a, <2>1 DEF StateOK, Unwinding
<1>6. CASE RunnerStoresPlan
  <2>1. answer # None => answer.tasks \in SUBSET Tasks
    BY <1>0, PlansAssumption DEF Base, TypeOK
  <2>2. {Fallback} \in SUBSET Tasks
    BY PlansAssumption
  <2>3. SameState
    BY <1>0, <1>6, <2>1, <2>2, AddTasksDoes DEF RunnerStoresPlan
  <2>4. State' = State /\ runner = "answered" /\ runner' = "planned"
    BY <1>6, <2>3 DEF RunnerStoresPlan, SameState, State
  <2> QED BY <1>0, <1>a, <2>4 DEF StateOK, Unwinding
<1>7. ASSUME NEW kind \in {"cancelling", "failing"}, Unwind(kind), UNCHANGED rows,
             runner \in {"preparing", "planning", "dag", "waiting", "final", "building"}
      PROVE  StateOK'
  <2>1. State' = State /\ runner' \in {"cancelling", "failing"} /\ cancelled' = FALSE
    BY <1>1, <1>7 DEF Unwind
  <2> QED BY <1>0, <1>7, <1>a, <2>1 DEF StateOK
<1>8. CASE RunnerFails \/ RunnerCannotBuild \/ RunnerCancelled
  <2>1. \E kind \in {"cancelling", "failing"} : Unwind(kind) /\ UNCHANGED rows
    BY <1>8 DEF RunnerFails, RunnerCannotBuild, RunnerCancelled
  <2>2. runner \in {"preparing", "planning", "waiting", "final", "building"}
    BY <1>8 DEF RunnerFails, RunnerCannotBuild, RunnerCancelled
  <2> QED BY <1>7, <2>1, <2>2
<1>9. ASSUME UNCHANGED <<rows, cancelled>>, runner \in {"dag", "waiting", "final"},
             runner' \in {"dag", "waiting", "final", "building"}
      PROVE  StateOK'
  BY <1>0, <1>1, <1>9, <1>a DEF StateOK, Unwinding
<1>10. CASE RunnerLeavesGraph \/ RunnerCollects
  <2>1. CASE \E kind \in {"cancelling", "failing"} : Unwind(kind)
    BY <1>7, <1>10, <2>1 DEF RunnerLeavesGraph, RunnerCollects
  <2>2. CASE runner' \in {"final", "dag"} /\ UNCHANGED cancelled
    BY <1>9, <1>10, <2>2 DEF RunnerLeavesGraph, RunnerCollects
  <2> QED BY <1>10, <2>1, <2>2 DEF RunnerLeavesGraph, RunnerCollects
<1>11. CASE RunnerSchedules \/ RunnerFinalizes
  BY <1>9, <1>11 DEF RunnerSchedules, RunnerFinalizes
<1>12. CASE \/ RunnerAccepts \/ RunnerResumesAccepted \/ RunnerReconciles \/ RunnerCannotReconcile
            \/ RunnerEnds \/ RunnerEscapes \/ RunnerCloses
  <2>1. runner' \in {"none", "accepted", "applying", "published"}
    BY <1>12 DEF RunnerAccepts, RunnerResumesAccepted, RunnerReconciles, RunnerCannotReconcile,
      RunnerEnds, RunnerEscapes, RunnerCloses
  <2> QED BY <2>1 DEF StateOK, Unwinding
<1>13. CASE RunnerSettles
  <2>1. SameState /\ Unwinding
    BY <1>0, <1>13, SettleInflightDoes DEF RunnerSettles
  <2>2. State' = State /\ phase[Job] = "none"
    BY <1>a, <2>1 DEF SameState, State, Unwinding
  <2>3. \/ runner' = "stopped" /\ runner = "cancelling" /\ stopRequested[Job]
        \/ runner' \in {"queued", "failed"}
    BY <1>13 DEF RunnerSettles
  <2>4. runner' = "stopped" => State = "stopping"
    BY <1>0, <2>2, <2>3 DEF Whole, StopOK, StateOK
  <2> QED BY <1>0, <2>1, <2>2, <2>3, <2>4 DEF StateOK, Unwinding
<1> QED BY <1>2, <1>3, <1>4, <1>5, <1>6, <1>8, <1>10, <1>11, <1>12, <1>13 DEF RunnerStep

LEMMA ControlOrder ==
  ASSUME Whole, Orderly, Controls
  PROVE  Orderly'
<1>0. Base /\ attempts' = attempts
  BY ControlWorkers DEF Whole
<1>1. RowsUnder /\ NoNewAttempts
  BY DaemonUnder, RunnerUnder DEF Controls
<1>2. LiveWorkersOK'
  BY <1>1, ControlLive
<1>3. SettledOK'
  BY DaemonSettled, RunnerSettled DEF Controls
<1>4. StateOK'
  BY DaemonState, RunnerState DEF Controls
<1>5. NumbersUnused'
  BY <1>0, <1>1 DEF Orderly, NumbersUnused, NoNewAttempts
<1> QED BY <1>2, <1>3, <1>4, <1>5 DEF Orderly

\* A closed attempt was the only one that ran.
LEMMA ClosedIsLast ==
  ASSUME Rows!StoreInv, NEW t \in Tasks, NEW n \in Numbers, NEW as \in {"passed", "failed", "cancelled"},
         attemptState[Job][t][n] = "running", Writes(t, n, as)
  PROVE  ~Store!HasRunningAttempt(Job, t)'
<1>1. \A m \in Numbers : attemptState[Job][t][m] = "running" => m = n
  BY DEF Rows!StoreInv, Rows!JobInv, Rows!AttemptsOK
<1>2. \A m \in Numbers : attemptState'[Job][t][m] # "running"
  BY <1>1 DEF Writes
<1> QED BY <1>2 DEF Store!HasRunningAttempt

\* A coroutine writes only the rows of its own task, and of its own attempt.
WritesOwn(r, t) ==
  /\ \A u \in Tasks : u # t => taskState'[Job][u] = taskState[Job][u]
  /\ \A u \in Tasks, m \in Numbers : u # t \/ m # Number(r, t) =>
       attemptState'[Job][u][m] = attemptState[Job][u][m]
  /\ \/ attemptState'[Job] = attemptState[Job]
     \/ Pc(r, t) \in {"starting", "agent", "gates", "reviewing", "merging"}

LEMMA WorkerWrites ==
  ASSUME Base, NEW r \in Runs, NEW t \in Tasks, WorkerStep(r, t)
  PROVE  WritesOwn(r, t)
<1>0. Rows!TypeOK
  BY TypeParts DEF Base
<1>1. \A u \in Tasks : u # t => taskState'[Job][u] = taskState[Job][u]
  BY WorkerBeginsOne
<1>2. CASE attemptState'[Job] = attemptState[Job]
  BY <1>1, <1>2 DEF WritesOwn
<1>3. CASE /\ \E as \in AttemptStates : Writes(t, Number(r, t), as)
           /\ Pc(r, t) \in {"starting", "agent", "gates", "reviewing", "merging"}
  BY <1>1, <1>3 DEF WritesOwn, Writes
<1>4. CASE \/ WorkerPrepared(r, t) \/ WorkerSeesStop(r, t) \/ WorkerAgentDone(r, t)
           \/ WorkerReviewPasses(r, t) \/ WorkerCleansUp(r, t) \/ WorkerRaises(r, t)
           \/ WorkerInterrupted(r, t) \/ WorkerRolledBack(r, t)
  BY <1>2, <1>4 DEF WorkerPrepared, WorkerSeesStop, WorkerAgentDone, WorkerReviewPasses, WorkerCleansUp,
    WorkerRaises, WorkerInterrupted, WorkerRolledBack, rows
<1>5. CASE \/ WorkerBegins(r, t) \/ WorkerExhausted(r, t) \/ WorkerTriesAgain(r, t)
           \/ WorkerGatesPass(r, t) \/ WorkerMerges(r, t) \/ WorkerCompletes(r, t)
  BY <1>0, <1>2, <1>5, UpdateTaskDoes DEF WorkerBegins, WorkerExhausted, WorkerTriesAgain,
    WorkerGatesPass, WorkerMerges, WorkerCompletes, TaskStates
<1>6. CASE WorkerStartsAttempt(r, t)
  BY <1>0, <1>3, <1>6, NumbersFit, StartAttemptDoes DEF WorkerStartsAttempt, Inside, AttemptStates
<1>7. CASE WorkerRejected(r, t) \/ WorkerMerged(r, t)
  BY <1>0, <1>3, <1>7, NumbersFit, FinishAttemptDoes DEF WorkerRejected, WorkerMerged, FinishAs, At, AttemptStates
<1>8. CASE WorkerCancelled(r, t)
  BY <1>0, <1>2, <1>3, <1>8, NumbersFit, FinishAttemptDoes DEF WorkerCancelled, FinishAs, rows, AttemptStates
<1> QED BY <1>4, <1>5, <1>6, <1>7, <1>8 DEF WorkerStep

\* The other coroutines do not see the step.
LEMMA OthersOK ==
  ASSUME Whole, Orderly, NEW r \in Runs, NEW t \in Tasks, WorkerStep(r, t), State' = State,
         NEW u \in Tasks, u # t, Live(r, u), Pc(r, u) \notin Inner
  PROVE  WorkerOK(r, u)'
<1>1. Base /\ WorkerOK(r, u) /\ Number(r, u) \in Nat
  BY TypeParts, BoundsAssumption DEF Whole, Orderly, LiveWorkersOK, LiveOK, Base, Workers, Record, Number
<1>2. worker'[r][u] = worker[r][u]
  BY <1>1, WorkerProgress DEF Progress, OthersKept
<1>3. attempts'[u] = attempts[u]
  BY <1>1, TypeParts, WorkerProgress DEF Progress, Base
<1>4. WritesOwn(r, t)
  BY <1>1, WorkerWrites
<1>5. Pc(r, u)' = Pc(r, u) /\ Number(r, u)' = Number(r, u) /\ taskState'[Job][u] = taskState[Job][u]
  BY <1>2, <1>4 DEF Pc, Number, WritesOwn
<1>6. Pc(r, u) \notin {"none", "exited", "preparing", "head"} => Number(r, u) \in Numbers
  BY <1>1, NumbersFit
<1>7. Number(r, u) \in Numbers =>
        attemptState'[Job][u][Number(r, u)] = attemptState[Job][u][Number(r, u)]
  BY <1>4 DEF WritesOwn
<1> QED BY <1>1, <1>3, <1>5, <1>6, <1>7 DEF WorkerOK, Inner

\* The coroutine that begins its next attempt: the number is its own, and unused.
LEMMA BeginOK ==
  ASSUME Whole, Orderly, NEW r \in Runs, NEW t \in Tasks, WorkerBegins(r, t)
  PROVE  WorkerOK(r, t)' /\ NumbersUnused'
<1>0. Base /\ Rows!TypeOK /\ Rows!StoreInv /\ worker \in Workers /\ attempts \in [Tasks -> Nat]
  BY TypeParts DEF Whole, Base
<1>1. Pc(r, t) = "head" /\ Live(r, t) /\ Left(r, t) > 0 /\ ~stopRequested[Job]
  BY DEF WorkerBegins, Inside, Live, Left
<1>2. LiveOK(r, t)
  BY <1>1 DEF Orderly, LiveWorkersOK
<1>3. taskState[Job][t] = "pending" /\ Number(r, t) = attempts[t] + 1
  BY <1>1, <1>2 DEF LiveOK, WorkerOK
<1>4. State = "running" /\ phase[Job] = "none"
  <2>1. phase[Job] = "none"
    BY <1>1, <1>2 DEF LiveOK
  <2>2. State # "completed"
    BY <1>0, <2>1, PhaseMeans
  <2>3. State # "stopping"
    BY <1>1, <2>1 DEF Whole, PhaseOK
  <2> QED BY <1>2, <2>1, <2>2, <2>3 DEF LiveOK
<1>5. /\ State' = "running" /\ taskState'[Job][t] = "running"
      /\ attemptState'[Job] = attemptState[Job]
  BY <1>0, <1>4, UpdateTaskDoes DEF WorkerBegins, TaskStates
<1>6. ~Store!HasRunningAttempt(Job, t)
  BY <1>0, <1>3, SameValidator DEF Rows!StoreInv, Rows!JobInv, Rows!RowsOK, Rows!InflightTaskStates
<1>7. ~Store!HasRunningAttempt(Job, t)'
  BY <1>5, <1>6 DEF Store!HasRunningAttempt
<1>8. attempts' = [attempts EXCEPT ![t] = Number(r, t)]
  BY DEF WorkerBegins, MyNumber, Number
<1>9. Number(r, t) \in Numbers
  <2>1. Number(r, t) \in Nat /\ Left(r, t) \in Nat
    BY <1>0, BoundsAssumption DEF Workers, Record, Number, Left
  <2>2. Number(r, t) >= 1 /\ Number(r, t) + Left(r, t) <= Budget(r) + 1
    BY <1>0, <1>1 DEF Base, BudgetOK, Counted
  <2>3. r \in Nat /\ MaxRuns \in Nat /\ r <= MaxRuns
    BY BoundsAssumption DEF Runs
  <2>4. Budget(r) \in Nat /\ Budget(MaxRuns) \in Nat /\ Budget(r) <= Budget(MaxRuns)
    BY <2>3, BudgetGrows
  <2>5. Number(r, t) \in 1..Budget(MaxRuns)
    BY <1>1, <2>1, <2>2, <2>4
  <2> QED BY <2>5 DEF Numbers, Budget
<1>10. attemptState[Job][t][Number(r, t)] = Absent
  BY <1>0, <1>3, <1>9 DEF Orderly, NumbersUnused
<1>11. Pc(r, t)' = "starting" /\ Number(r, t)' = Number(r, t)
  <2>1. Goto(r, t, "starting") /\ "starting" \in WorkerSteps
    BY DEF WorkerBegins, WorkerSteps
  <2> QED BY <1>0, <2>1, GotoDoes DEF Moves, Pc, Number
<1>12. WorkerOK(r, t)'
  BY <1>0, <1>5, <1>7, <1>8, <1>10, <1>11 DEF WorkerOK
<1>13. NumbersUnused'
  <2>1. \A u \in Tasks : attempts[u] \in Nat /\ attempts'[u] \in Nat /\ attempts'[u] >= attempts[u]
    BY <1>0, <1>3, <1>8
  <2>2. \A m \in Numbers : m \in Nat
    BY DEF Numbers
  <2>3. \A u \in Tasks, m \in Numbers : m > attempts'[u] => m > attempts[u]
    BY <2>1, <2>2
  <2> QED BY <1>5, <2>3 DEF Orderly, NumbersUnused
<1> QED BY <1>12, <1>13

\* Any later step leaves the coroutine where the rows of its task agree with its place.
LEMMA GoOnOK ==
  ASSUME Whole, Orderly, NEW r \in Runs, NEW t \in Tasks, WorkerStep(r, t), ~WorkerBegins(r, t)
  PROVE  /\ Live(r, t)' => WorkerOK(r, t)'
         /\ attempts' = attempts
<1>0. Base /\ Rows!TypeOK /\ Rows!StoreInv /\ worker \in Workers /\ attempts \in [Tasks -> Nat]
  BY TypeParts DEF Whole, Base
<1>1. Live(r, t)
  BY <1>0, WorkerProgress DEF Progress
<1>2. WorkerOK(r, t)
  BY <1>1 DEF Orderly, LiveWorkersOK, LiveOK
<1>3. Pc(r, t) \notin {"none", "exited", "preparing", "head"} => Number(r, t) \in Numbers
  BY <1>0, NumbersFit
<1>4. attempts' = attempts
  BY DEF WorkerStep, WorkerPrepared, WorkerSeesStop, WorkerExhausted,
    WorkerStartsAttempt, WorkerRejected, WorkerTriesAgain, WorkerAgentDone, WorkerGatesPass,
    WorkerReviewPasses, WorkerMerges, WorkerMerged, WorkerCompletes, WorkerCleansUp, WorkerRaises,
    WorkerCancelled, WorkerInterrupted, WorkerRolledBack
<1>5. ASSUME NEW pc \in WorkerSteps, Goto(r, t, pc)
      PROVE  Pc(r, t)' = pc /\ Number(r, t)' = Number(r, t)
  BY <1>0, <1>5, GotoDoes DEF Moves, Pc, Number
<1>6. ASSUME NEW how \in {"done", "failed", "error", "cancelled"}, Exit(r, t, how)
      PROVE  ~Live(r, t)'
  BY <1>0, <1>6, ExitDoes DEF Moves, Live, Pc
<1> USE DEF At, Inside
<1>7. CASE WorkerPrepared(r, t) \/ WorkerAgentDone(r, t) \/ WorkerReviewPasses(r, t)
  <2>1. UNCHANGED rows
    BY <1>7 DEF WorkerPrepared, WorkerAgentDone, WorkerReviewPasses
  <2>2. CASE WorkerPrepared(r, t)
    BY <1>2, <1>4, <1>5, <2>1, <2>2 DEF WorkerPrepared, WorkerOK, rows, WorkerSteps
  <2>3. CASE WorkerAgentDone(r, t)
    BY <1>2, <1>4, <1>5, <2>1, <2>3 DEF WorkerAgentDone, WorkerOK, rows, WorkerSteps
  <2>4. CASE WorkerReviewPasses(r, t)
    BY <1>2, <1>4, <1>5, <2>1, <2>4 DEF WorkerReviewPasses, WorkerOK, rows, WorkerSteps
  <2> QED BY <1>4, <1>7, <2>2, <2>3, <2>4
<1>8. CASE \/ WorkerSeesStop(r, t) \/ WorkerExhausted(r, t) \/ WorkerCleansUp(r, t)
           \/ WorkerRaises(r, t) \/ WorkerCancelled(r, t) \/ WorkerRolledBack(r, t)
  BY <1>4, <1>6, <1>8 DEF WorkerSeesStop, WorkerExhausted, WorkerCleansUp, WorkerRaises, WorkerCancelled,
    WorkerRolledBack
<1>9. CASE WorkerStartsAttempt(r, t)
  <2>1. Pc(r, t)' = "agent" /\ Number(r, t)' = Number(r, t) /\ Pc(r, t) = "starting"
    BY <1>5, <1>9 DEF WorkerStartsAttempt, WorkerSteps
  <2>2. taskState'[Job] = taskState[Job] /\ Writes(t, Number(r, t), "running")
    BY <1>0, <1>3, <1>9, <2>1, StartAttemptDoes DEF WorkerStartsAttempt, MyNumber, Number
  <2> QED BY <1>2, <1>4, <2>1, <2>2 DEF WorkerOK, Writes
<1>10. CASE WorkerRejected(r, t)
  <2>1. /\ Pc(r, t)' = "again" /\ Number(r, t)' = Number(r, t)
        /\ Pc(r, t) \in {"agent", "gates", "reviewing", "merging"}
    BY <1>5, <1>10 DEF WorkerRejected, WorkerSteps
  <2>2. Number(r, t) \in Numbers /\ Store!FinishAttempt(Job, t, Number(r, t), "failed")
    BY <1>3, <1>10, <2>1 DEF WorkerRejected, FinishAs, MyNumber, Number
  <2>3. /\ taskState'[Job] = taskState[Job] /\ Writes(t, Number(r, t), "failed")
        /\ attemptState[Job][t][Number(r, t)] = "running"
    BY <1>0, <2>2, FinishAttemptDoes
  <2>4. ~Store!HasRunningAttempt(Job, t)'
    BY <1>0, <2>2, <2>3, ClosedIsLast
  <2>5. taskState[Job][t] \in InflightTaskStates /\ Number(r, t) = attempts[t]
    BY <1>2, <2>1 DEF WorkerOK, InflightTaskStates
  <2> QED BY <1>4, <2>1, <2>3, <2>4, <2>5 DEF WorkerOK
<1>11. CASE WorkerMerged(r, t)
  <2>1. Pc(r, t)' = "passed" /\ Number(r, t)' = Number(r, t) /\ Pc(r, t) = "merging"
    BY <1>5, <1>11 DEF WorkerMerged, WorkerSteps
  <2>2. Number(r, t) \in Numbers /\ Store!FinishAttempt(Job, t, Number(r, t), "passed")
    BY <1>3, <1>11, <2>1 DEF WorkerMerged, FinishAs, MyNumber, Number
  <2>3. /\ taskState'[Job] = taskState[Job] /\ Writes(t, Number(r, t), "passed")
        /\ attemptState[Job][t][Number(r, t)] = "running"
    BY <1>0, <2>2, FinishAttemptDoes
  <2>4. ~Store!HasRunningAttempt(Job, t)'
    BY <1>0, <2>2, <2>3, ClosedIsLast
  <2> QED BY <1>2, <1>4, <2>1, <2>3, <2>4 DEF WorkerOK
<1>12. CASE WorkerTriesAgain(r, t)
  <2>1. Pc(r, t) = "again" /\ Left(r, t) >= 1
    BY <1>0, <1>12 DEF WorkerTriesAgain, Base, BudgetOK, Started
  <2>2. Pc(r, t)' = "head" /\ Number(r, t)' = Number(r, t) + 1
    BY <1>0, <1>12, <2>1, TryAgainDoes DEF Recounts, Pc, Number, Left
  <2>3. taskState'[Job][t] = "pending"
    BY <1>0, <1>12, UpdateTaskDoes DEF WorkerTriesAgain, TaskStates
  <2>4. Number(r, t) = attempts[t]
    BY <1>2, <2>1 DEF WorkerOK
  <2> QED BY <1>4, <2>2, <2>3, <2>4 DEF WorkerOK
<1>13. CASE WorkerGatesPass(r, t) \/ WorkerMerges(r, t) \/ WorkerCompletes(r, t)
  <2>1. attemptState'[Job] = attemptState[Job]
    BY <1>0, <1>13, UpdateTaskDoes DEF WorkerGatesPass, WorkerMerges, WorkerCompletes, TaskStates
  <2>2. CASE WorkerGatesPass(r, t)
    <3>1. /\ Pc(r, t) = "gates" /\ Pc(r, t)' = "reviewing" /\ Number(r, t)' = Number(r, t)
          /\ taskState'[Job][t] = "reviewing"
      BY <1>0, <1>5, <2>2, UpdateTaskDoes DEF WorkerGatesPass, TaskStates, WorkerSteps
    <3> QED BY <1>2, <1>4, <2>1, <3>1 DEF WorkerOK
  <2>3. CASE WorkerMerges(r, t)
    <3>1. /\ Pc(r, t) = "waiting" /\ Pc(r, t)' = "merging" /\ Number(r, t)' = Number(r, t)
          /\ taskState'[Job][t] = "integrating"
      BY <1>0, <1>5, <2>3, UpdateTaskDoes DEF WorkerMerges, TaskStates, WorkerSteps
    <3> QED BY <1>2, <1>4, <2>1, <3>1 DEF WorkerOK
  <2>4. CASE WorkerCompletes(r, t)
    <3>1. Pc(r, t)' = "cleanup" /\ taskState'[Job][t] = "completed"
      BY <1>0, <1>5, <2>4, UpdateTaskDoes DEF WorkerCompletes, TaskStates, WorkerSteps
    <3> QED BY <1>4, <3>1 DEF WorkerOK
  <2> QED BY <1>4, <1>13, <2>2, <2>3, <2>4
<1>14. CASE WorkerInterrupted(r, t)
  <2>1. PICK how \in {"error", "cancelled"} : Moves(r, t, "rollback", how)
    BY <1>0, <1>14, InterruptDoes
  <2>2. Pc(r, t) = "merging" /\ Pc(r, t)' = "rollback" /\ Number(r, t)' = Number(r, t) /\ UNCHANGED rows
    BY <1>14, <2>1 DEF WorkerInterrupted, Moves, Pc, Number
  <2> QED BY <1>2, <1>4, <2>2 DEF WorkerOK, rows
<1> QED BY <1>7, <1>8, <1>9, <1>10, <1>11, <1>12, <1>13, <1>14 DEF WorkerStep

LEMMA WorkerOrder ==
  ASSUME Whole, Orderly, NEW r \in Runs, NEW t \in Tasks, WorkerStep(r, t)
  PROVE  Orderly'
<1>0. Base /\ Rows!StoreInv
  BY DEF Whole, Base
<1>1. /\ SamePhase /\ UNCHANGED <<daemon, runner, cancelled, run>>
      /\ daemon # "down" /\ loop \in {Free, InWorker(r, t)} /\ loop' \in {Free, InWorker(r, t)}
  BY <1>0, WorkerKeepsJob
<1>2. Live(r, t) /\ \A q \in Runs, u \in Tasks : q # r \/ u # t => worker'[q][u] = worker[q][u]
  BY <1>0, WorkerProgress DEF Progress, OthersKept
<1>3. LiveOK(r, t) /\ r = run
  BY <1>2 DEF Orderly, LiveWorkersOK, LiveOK
<1>4. State' = State
  BY <1>0, <1>3, WorkerKeepsJob DEF LiveOK
<1>5. (Live(r, t)' => WorkerOK(r, t)') /\ NumbersUnused'
  <2>1. CASE WorkerBegins(r, t)
    BY <2>1, BeginOK
  <2>2. CASE ~WorkerBegins(r, t)
    <3>1. (Live(r, t)' => WorkerOK(r, t)') /\ attempts' = attempts
      BY <2>2, GoOnOK
    <3>2. WritesOwn(r, t)
      BY <1>0, WorkerWrites
    <3>3. Pc(r, t) \in {"starting", "agent", "gates", "reviewing", "merging"} => Number(r, t) = attempts[t]
      BY <1>3 DEF LiveOK, WorkerOK
    <3>4. attempts[t] \in Nat /\ ~(attempts[t] > attempts[t])
      BY <1>0, TypeParts DEF Base
    <3>5. NumbersUnused'
      BY <3>1, <3>2, <3>3, <3>4 DEF Orderly, NumbersUnused, WritesOwn
    <3> QED BY <3>1, <3>5
  <2> QED BY <2>1, <2>2
<1>6. \A u \in Tasks : u # t /\ Live(r, u) => Pc(r, u) \notin Inner
  BY <1>1, LoopNames DEF Whole, InnerOK
<1>7. LiveWorkersOK'
  <2> SUFFICES ASSUME NEW q \in Runs, NEW u \in Tasks, Live(q, u)' PROVE LiveOK(q, u)'
    BY DEF LiveWorkersOK
  <2>1. CASE q = r /\ u = t
    <3>1. Pc(r, t)' = "cleanup" \/ phase'[Job] = "none"
      <4>1. CASE phase[Job] = "none"
        BY <1>1, <4>1 DEF SamePhase
      <4>2. CASE Pc(r, t) = "cleanup"
        <5>1. WorkerCleansUp(r, t) \/ WorkerCancelled(r, t)
          BY <4>2 DEF WorkerStep, WorkerPrepared, WorkerBegins, WorkerSeesStop, WorkerExhausted,
            WorkerStartsAttempt, WorkerRejected, WorkerTriesAgain, WorkerAgentDone, WorkerGatesPass,
            WorkerReviewPasses, WorkerMerges, WorkerMerged, WorkerCompletes, WorkerRaises,
            WorkerInterrupted, WorkerRolledBack, At, Inside
        <5>2. \E how \in {"done", "error", "cancelled"} : Exit(r, t, how)
          BY <5>1 DEF WorkerCleansUp, WorkerCancelled
        <5>3. ~Live(r, t)'
          BY <1>0, <5>2, TypeParts, ExitDoes DEF Base, Moves, Live, Pc
        <5> QED BY <2>1, <5>3
      <4> QED BY <1>3, <4>1, <4>2 DEF LiveOK
    <3> QED BY <1>1, <1>3, <1>4, <1>5, <2>1, <3>1 DEF LiveOK
  <2>2. CASE q # r \/ u # t
    <3>1. Live(q, u) /\ Pc(q, u)' = Pc(q, u)
      BY <1>2, <2>2 DEF Live, Pc
    <3>2. LiveOK(q, u) /\ q = r
      BY <1>3, <3>1 DEF Orderly, LiveWorkersOK, LiveOK
    <3>3. WorkerOK(q, u)'
      BY <1>4, <1>6, <2>2, <3>1, <3>2, OthersOK
    <3> QED BY <1>1, <1>4, <3>1, <3>2, <3>3 DEF LiveOK, SamePhase
  <2> QED BY <2>1, <2>2
<1>8. SettledOK'
  <2>1. loop # InRunner /\ loop' # InRunner
    BY <1>1, LoopNames
  <2>2. runner \notin {"stopped", "queued", "failed"}
    BY <1>0, <2>1 DEF Base, LoopOK, GoesOn
  <2>3. AllAtRest => AllAtRest'
    <3>1. ASSUME AllAtRest PROVE Pc(r, t) = "cleanup"
      BY <1>2, <3>1 DEF AllAtRest, AtRest, Live
    <3>2. ASSUME Pc(r, t) = "cleanup" PROVE Pc(r, t)' = "exited"
      <4>1. WorkerCleansUp(r, t) \/ WorkerCancelled(r, t)
        BY <3>2 DEF WorkerStep, WorkerPrepared, WorkerBegins, WorkerSeesStop, WorkerExhausted,
          WorkerStartsAttempt, WorkerRejected, WorkerTriesAgain, WorkerAgentDone, WorkerGatesPass,
          WorkerReviewPasses, WorkerMerges, WorkerMerged, WorkerCompletes, WorkerRaises,
          WorkerInterrupted, WorkerRolledBack, At, Inside
      <4>2. \E how \in {"done", "error", "cancelled"} : Exit(r, t, how)
        BY <4>1 DEF WorkerCleansUp, WorkerCancelled
      <4> QED BY <1>0, <4>2, TypeParts, ExitDoes DEF Base, Moves, Pc
    <3> QED BY <1>2, <3>1, <3>2 DEF AllAtRest, AtRest, Pc
  <2>4. ~NoneLive
    BY <1>2 DEF NoneLive
  <2>5. ~(runner = "none" /\ phase[Job] = "none")
    BY <2>4 DEF Orderly, SettledOK
  <2> QED BY <1>1, <2>1, <2>2, <2>3, <2>5 DEF Orderly, SettledOK, SamePhase
<1>9. StateOK'
  BY <1>1, <1>4 DEF Orderly, StateOK, Unwinding, SamePhase
<1> QED BY <1>5, <1>7, <1>8, <1>9 DEF Orderly

OrderInv == Whole /\ Orderly

LEMMA OrderKept == OrderInv /\ [Next]_vars => OrderInv'
<1> SUFFICES ASSUME OrderInv, [Next]_vars PROVE OrderInv'
  OBVIOUS
<1>1. Whole'
  BY BaseKept, StopKept, PhaseKept, DependKept, InnerKept DEF OrderInv, Whole
<1>2. Orderly'
  <2>1. Whole /\ Orderly
    BY DEF OrderInv
  <2>2. CASE Controls
    BY <2>1, <2>2, ControlOrder
  <2>3. ASSUME NEW r \in Runs, NEW t \in Tasks, WorkerStep(r, t) PROVE Orderly'
    BY <2>1, <2>3, WorkerOrder
  <2>4. CASE UNCHANGED vars
    BY <2>1, <2>4 DEF vars, rows, Orderly, LiveWorkersOK, LiveOK, WorkerOK, Live, Pc, Number, State,
      Store!HasRunningAttempt, NumbersUnused, SettledOK, AllAtRest, AtRest, NoneLive, Unwinding, StateOK
  <2> QED BY <2>2, <2>3, <2>4 DEF Next, Controls
<1> QED BY <1>1, <1>2 DEF OrderInv

LEMMA OrderInit == Init => OrderInv
<1> SUFFICES ASSUME Init PROVE OrderInv
  OBVIOUS
<1>1. NoneLive /\ AllAtRest
  BY IdleIs DEF Init, NoneLive, AllAtRest, AtRest, Live, Pc
<1>2. StopOK /\ PhaseOK
  BY DEF Init, Store!Init, StopOK, PhaseOK, State, Store!Absent, Free, InRunner
<1>3. DependOK /\ InnerOK
  BY <1>1, IdleIs DEF Init, Store!Init, DependOK, DependenciesFirst, InnerOK, NoneLive, Pc, Inner, InflightTaskStates,
    Store!Absent
<1>4. LiveWorkersOK /\ SettledOK
  BY <1>1 DEF LiveWorkersOK, SettledOK, NoneLive
<1>5. StateOK
  BY DEF Init, StateOK
<1>6. NumbersUnused
  BY SameTables DEF Init, Store!Init, NumbersUnused
<1> QED BY <1>2, <1>3, <1>4, <1>5, <1>6, BaseInit DEF OrderInv, Whole, Orderly

LEMMA OrderHolds == Spec => []OrderInv
BY OrderInit, OrderKept, PTL DEF Spec

\* When a job is settled for its user, no coroutine of any run works for it, and from the
\* acceptance of its candidate on there is nothing left but the removal of worktrees, stops
\* that interrupt handlers included (_cancel_active, orchestrator_integration.py:549).
THEOREM OrderlyEndHolds == Spec => []OrderlyEnd
<1>1. OrderInv => OrderlyEnd
  <2> SUFFICES ASSUME OrderInv PROVE OrderlyEnd
    OBVIOUS
  <2>1. LiveWorkersOK /\ Rows!StoreInv
    BY DEF OrderInv, Orderly, Whole, Base
  <2>2. phase[Job] # "none" => \A r \in Runs : AtRest(r)
    BY <2>1 DEF LiveWorkersOK, LiveOK, AtRest, Live
  <2>3. ASSUME State \in TerminalJobStates \/ (State = "queued" /\ runner = "none"), NEW r \in Runs
        PROVE  AtRest(r)
    <3>1. CASE State = "completed"
      <4>1. phase[Job] # "none"
        BY <2>1, <3>1, PhaseMeans
      <4> QED BY <2>2, <4>1
    <3>2. CASE State \in {"stopped", "failed", "queued"}
      BY <2>1, <3>2 DEF LiveWorkersOK, LiveOK, AtRest, Live
    <3> QED BY <2>3, <3>1, <3>2 DEF TerminalJobStates
  <2> QED BY <2>2, <2>3 DEF OrderlyEnd
<1> QED BY <1>1, OrderHolds, PTL

-----------------------------------------------------------------------------
(* The search of Planner.validate, for every finite graph: the recursion of *)
(* PlanValidation has a solution, which is the only one, and it raises at a *)
(* cycle and only there.  Both go by induction over what is left to search. *)

\* Every set of numbers has a smallest one.
LEMMA SmallestNumber ==
  ASSUME NEW T \in SUBSET Nat, T # {}
  PROVE  \E k \in T : \A j \in T : k <= j
<1> DEFINE R == OpToRel(<, Nat)
<1>1. ASSUME NEW i \in Nat, NEW j \in Nat, i < j PROVE <<i, j>> \in R
  BY <1>1 DEF OpToRel
<1>2. IsWellFoundedOn(R, Nat)
  BY NatLessThanWellFounded
<1> HIDE DEF R
<1>3. PICK k \in T : \A j \in T : ~ (<<j, k>> \in R)
  BY <1>2, WFMin
<1>4. ASSUME NEW j \in T PROVE k <= j
  <2>1. ~(j < k)
    BY <1>1, <1>3
  <2> QED BY <2>1
<1> QED BY <1>4

\* What a call of visit() or its loop may come back with.
Findings(graph) == [visited : SUBSET DOMAIN graph, cyclic : BOOLEAN]

\* A plan's graph: finitely many tasks that depend on tasks of the plan.
IsGraph(graph) ==
  /\ IsFiniteSet(DOMAIN graph)
  /\ \A t \in DOMAIN graph : graph[t] \in SUBSET DOMAIN graph

\* How much of the search is left in the worst case: nodes off the path, then the loop.
Weight(graph, at) ==
  Cardinality(DOMAIN graph \ at[2]) * (Cardinality(DOMAIN graph) + 1) + Cardinality(at[1])

LEMMA WeightIsNatural ==
  ASSUME NEW graph, IsGraph(graph), NEW at \in Places(graph)
  PROVE  /\ Weight(graph, at) \in Nat
         /\ Cardinality(at[1]) \in Nat /\ Cardinality(at[1]) <= Cardinality(DOMAIN graph)
         /\ Cardinality(DOMAIN graph) \in Nat /\ Cardinality(DOMAIN graph \ at[2]) \in Nat
         /\ Cardinality(DOMAIN graph \ at[2]) <= Cardinality(DOMAIN graph)
<1> DEFINE N == DOMAIN graph
<1>1. at[1] \in SUBSET N /\ N \ at[2] \in SUBSET N /\ IsFiniteSet(N)
  BY DEF Places, IsGraph
<1>2. IsFiniteSet(at[1]) /\ IsFiniteSet(N \ at[2])
  BY <1>1, FS_Subset
<1>3. Cardinality(at[1]) <= Cardinality(N) /\ Cardinality(N \ at[2]) <= Cardinality(N)
  BY <1>1, FS_Subset
<1>4. Cardinality(at[1]) \in Nat /\ Cardinality(N \ at[2]) \in Nat /\ Cardinality(N) \in Nat
  BY <1>1, <1>2, FS_CardinalityType
<1>5. \A a, b, c \in Nat : a * (b + 1) + c \in Nat
  OBVIOUS
<1> HIDE DEF N
<1>6. Cardinality(N \ at[2]) * (Cardinality(N) + 1) + Cardinality(at[1]) \in Nat
  BY <1>4, <1>5
<1> QED BY <1>3, <1>4, <1>6 DEF Weight, N

\* A loop goes on with less to do, and visiting takes a node off what can be visited.
LEMMA LoopDescends ==
  ASSUME NEW graph, IsGraph(graph), NEW at \in Places(graph), NEW node \in at[1],
         NEW visited \in SUBSET DOMAIN graph
  PROVE  LET next == <<at[1] \ {node}, at[2], visited>>
             below == <<graph[node], at[2] \cup {node}, visited>>
         IN  /\ next \in Places(graph) /\ Weight(graph, next) < Weight(graph, at)
             /\ below \in Places(graph)
             /\ node \notin at[2] => Weight(graph, below) < Weight(graph, at)
<1> DEFINE N == DOMAIN graph
           next == <<at[1] \ {node}, at[2], visited>>
           below == <<graph[node], at[2] \cup {node}, visited>>
<1>1. at[1] \in SUBSET N /\ at[2] \in SUBSET N /\ IsFiniteSet(N) /\ node \in N
      /\ graph[node] \in SUBSET N
  BY DEF Places, IsGraph
<1>2. next \in Places(graph) /\ below \in Places(graph)
  BY <1>1 DEF Places
<1>3. Weight(graph, next) < Weight(graph, at)
  <2>1. IsFiniteSet(at[1])
    BY <1>1, FS_Subset
  <2>2. Cardinality(at[1] \ {node}) = Cardinality(at[1]) - 1
    BY <2>1, FS_RemoveElement
  <2>3. next[1] = at[1] \ {node} /\ next[2] = at[2]
    OBVIOUS
  <2>4. \A x \in Nat, c \in Nat : x + (c - 1) < x + c
    OBVIOUS
  <2>5. \A a, b \in Nat : a * (b + 1) \in Nat
    OBVIOUS
  <2>6. Cardinality(at[1]) \in Nat /\ Cardinality(N) \in Nat /\ Cardinality(N \ at[2]) \in Nat
    BY WeightIsNatural
  <2> HIDE DEF next, N
  <2> QED BY <2>2, <2>3, <2>4, <2>5, <2>6 DEF Weight, N
<1>4. ASSUME node \notin at[2] PROVE Weight(graph, below) < Weight(graph, at)
  <2>1. IsFiniteSet(N \ at[2])
    BY <1>1, FS_Subset
  <2>2. N \ below[2] = (N \ at[2]) \ {node}
    OBVIOUS
  <2>3. Cardinality(N \ below[2]) = Cardinality(N \ at[2]) - 1
    <3>1. node \in N \ at[2]
      BY <1>1, <1>4
    <3>2. Cardinality((N \ at[2]) \ {node}) = Cardinality(N \ at[2]) - 1
      BY <2>1, <3>1, FS_RemoveElement
    <3> QED BY <2>2, <3>2
  <2>4. \A a, c, d, n \in Nat : d <= n /\ a - 1 \in Nat => (a - 1) * (n + 1) + d < a * (n + 1) + c
    OBVIOUS
  <2>5. /\ Cardinality(at[1]) \in Nat /\ Cardinality(N) \in Nat /\ Cardinality(N \ at[2]) \in Nat
        /\ Cardinality(N \ below[2]) \in Nat /\ Cardinality(below[1]) \in Nat
        /\ Cardinality(below[1]) <= Cardinality(N)
    BY <1>2, WeightIsNatural
  <2> HIDE DEF below, N
  <2> QED BY <2>3, <2>4, <2>5 DEF Weight, N
<1> QED BY <1>2, <1>3, <1>4

-----------------------------------------------------------------------------
\* f is the search on the places E.
Solves(graph, f, E) ==
  /\ f = [at \in E |-> Loop(graph, f, at[1], at[2], at[3])]
  /\ f \in [E -> Findings(graph)]

Below(graph, k) == {at \in Places(graph) : Weight(graph, at) < k}

\* What one place needs are findings of lighter places.
LEMMA LoopIsLocal ==
  ASSUME NEW graph, IsGraph(graph), NEW at \in Places(graph), NEW f, NEW g,
         \A c \in Below(graph, Weight(graph, at)) : f[c] = g[c] /\ g[c] \in Findings(graph)
  PROVE  /\ Loop(graph, f, at[1], at[2], at[3]) = Loop(graph, g, at[1], at[2], at[3])
         /\ Loop(graph, g, at[1], at[2], at[3]) \in Findings(graph)
<1> DEFINE N == DOMAIN graph
           node == CHOOSE n \in at[1] : TRUE
           below == <<graph[node], at[2] \cup {node}, at[3]>>
           found == Visit(graph, g, node, at[2], at[3])
           next == <<at[1] \ {node}, at[2], found.visited>>
<1>1. at[1] \in SUBSET N /\ at[2] \in SUBSET N /\ at[3] \in SUBSET N
  BY DEF Places
<1>2. CASE at[1] = {}
  BY <1>1, <1>2 DEF Loop, Going, Findings
<1>3. CASE at[1] # {}
  <2>1. node \in at[1]
    BY <1>3
  <2>2. Visit(graph, f, node, at[2], at[3]) = found /\ found \in Findings(graph)
    <3>1. CASE node \in at[3] \/ node \in at[2]
      BY <1>1, <3>1 DEF Visit, Going, Findings
    <3>2. CASE ~(node \in at[3] \/ node \in at[2])
      <4>1. below \in Below(graph, Weight(graph, at))
        BY <1>1, <2>1, <3>2, LoopDescends DEF Below
      <4>2. f[below] = g[below] /\ g[below] \in Findings(graph)
        BY <4>1
      <4>3. node \in N
        BY <1>1, <2>1
      <4> HIDE DEF node
      <4> QED BY <1>1, <3>2, <4>2, <4>3 DEF Visit, Going, Findings
    <3> QED BY <3>1, <3>2
  <2> HIDE DEF found
  <2>3. next \in Below(graph, Weight(graph, at))
    <3>1. found.visited \in SUBSET DOMAIN graph
      BY <2>2 DEF Findings
    <3> QED BY <2>1, <3>1, LoopDescends DEF Below
  <2>4. f[next] = g[next] /\ g[next] \in Findings(graph)
    BY <2>3
  <2>5. Loop(graph, f, at[1], at[2], at[3]) = IF found.cyclic THEN found ELSE f[next]
    BY <1>3, <2>2 DEF Loop
  <2>6. Loop(graph, g, at[1], at[2], at[3]) = IF found.cyclic THEN found ELSE g[next]
    BY <1>3 DEF Loop, found
  <2> HIDE DEF next
  <2> QED BY <2>2, <2>4, <2>5, <2>6
<1> QED BY <1>2, <1>3

\* Induction over the weight of places.
LEMMA PlaceInduction ==
  ASSUME NEW graph, IsGraph(graph), NEW Good,
         \A at \in Places(graph) : Below(graph, Weight(graph, at)) \subseteq Good => at \in Good
  PROVE  Places(graph) \subseteq Good
<1> SUFFICES ASSUME NEW bad \in Places(graph) \ Good PROVE FALSE
  OBVIOUS
<1> DEFINE Bad == {k \in Nat : \E at \in Places(graph) \ Good : Weight(graph, at) = k}
<1>1. Weight(graph, bad) \in Bad
  BY WeightIsNatural
<1>2. PICK k \in Bad : \A j \in Bad : k <= j
  BY <1>1, SmallestNumber
<1>3. PICK at \in Places(graph) \ Good : Weight(graph, at) = k
  BY <1>2
<1>4. ASSUME NEW c \in Below(graph, k) PROVE c \in Good
  <2>1. c \in Places(graph) /\ Weight(graph, c) < k /\ Weight(graph, c) \in Nat /\ k \in Nat
    BY <1>2, WeightIsNatural DEF Below
  <2>2. ~(k <= Weight(graph, c))
    BY <2>1
  <2> QED BY <1>2, <2>1, <2>2
<1> QED BY <1>3, <1>4

LEMMA SearchExtends ==
  ASSUME NEW graph, IsGraph(graph), NEW k \in Nat, NEW g, Solves(graph, g, Below(graph, k))
  PROVE  \E h : Solves(graph, h, Below(graph, k + 1))
<1> DEFINE h == [at \in Below(graph, k + 1) |-> Loop(graph, g, at[1], at[2], at[3])]
<1>0. \A at \in Places(graph) : Weight(graph, at) \in Nat
  BY WeightIsNatural
<1>1. Below(graph, k) \subseteq Below(graph, k + 1)
  BY <1>0 DEF Below
<1>2. \A c \in Below(graph, k) : h[c] = g[c] /\ g[c] \in Findings(graph)
  BY <1>1 DEF Solves
<1> HIDE DEF h
<1>3. ASSUME NEW at \in Below(graph, k + 1)
      PROVE  /\ Loop(graph, h, at[1], at[2], at[3]) = Loop(graph, g, at[1], at[2], at[3])
             /\ Loop(graph, g, at[1], at[2], at[3]) \in Findings(graph)
  <2>1. at \in Places(graph) /\ Below(graph, Weight(graph, at)) \subseteq Below(graph, k)
    <3>1. Below(graph, k + 1) \subseteq Places(graph) /\ Weight(graph, at) <= k
      BY <1>0 DEF Below
    <3> QED BY <1>0, <3>1 DEF Below
  <2> QED BY <1>2, <2>1, LoopIsLocal
<1>4. h = [at \in Below(graph, k + 1) |-> Loop(graph, h, at[1], at[2], at[3])]
  BY <1>3 DEF h
<1>5. h \in [Below(graph, k + 1) -> Findings(graph)]
  BY <1>3 DEF h
<1> QED BY <1>4, <1>5 DEF Solves

LEMMA SearchExists ==
  ASSUME NEW graph, IsGraph(graph)
  PROVE  \E f : Solves(graph, f, Places(graph))
<1> DEFINE P(k) == \E f : Solves(graph, f, Below(graph, k))
           Bad  == {k \in Nat : ~P(k)}
           n    == Cardinality(DOMAIN graph)
           top  == n * (n + 1) + n + 1
<1>1. P(0)
  <2>1. Below(graph, 0) = {}
    <3>1. \A at \in Places(graph) : Weight(graph, at) \in Nat
      BY WeightIsNatural
    <3> QED BY <3>1 DEF Below
  <2> DEFINE f == [at \in {} |-> Loop(graph, {}, at[1], at[2], at[3])]
  <2>2. f = [at \in {} |-> Loop(graph, f, at[1], at[2], at[3])]
    OBVIOUS
  <2>3. f \in [{} -> Findings(graph)]
    OBVIOUS
  <2> QED BY <2>1, <2>2, <2>3 DEF Solves
<1>2. ASSUME NEW k \in Nat, P(k) PROVE P(k + 1)
  BY <1>2, SearchExtends
<1> HIDE DEF P
<1>3. \A k \in Nat : P(k)
  <2> SUFFICES ASSUME Bad # {} PROVE FALSE
    OBVIOUS
  <2>1. PICK k \in Bad : \A j \in Bad : k <= j
    BY SmallestNumber
  <2>2. k # 0 /\ k \in Nat
    BY <1>1
  <2>3. k - 1 \in Nat /\ k - 1 \notin Bad
    BY <2>1, <2>2
  <2>4. P(k)
    BY <1>2, <2>2, <2>3
  <2> QED BY <2>4
<1>4. top \in Nat
  <2>1. n \in Nat
    BY FS_CardinalityType DEF IsGraph
  <2> QED BY <2>1
<1>5. Below(graph, top) = Places(graph)
  <2> SUFFICES ASSUME NEW at \in Places(graph) PROVE Weight(graph, at) < top
    BY DEF Below
  <2>1. /\ Cardinality(at[1]) \in Nat /\ Cardinality(at[1]) <= n
        /\ n \in Nat /\ Cardinality(DOMAIN graph \ at[2]) \in Nat
        /\ Cardinality(DOMAIN graph \ at[2]) <= n
    BY WeightIsNatural
  <2>2. \A a, c, m \in Nat : a <= m /\ c <= m => a * (m + 1) + c < m * (m + 1) + m + 1
    <3> SUFFICES ASSUME NEW a \in Nat, NEW c \in Nat, NEW m \in Nat, a <= m, c <= m
                 PROVE  a * (m + 1) + c < m * (m + 1) + m + 1
      OBVIOUS
    <3>1. a * (m + 1) <= m * (m + 1)
      OBVIOUS
    <3>2. a * (m + 1) \in Nat /\ m * (m + 1) \in Nat
      OBVIOUS
    <3> QED BY <3>1, <3>2
  <2> HIDE DEF n
  <2> QED BY <2>1, <2>2 DEF Weight, n
<1>6. P(top)
  BY <1>3, <1>4
<1> QED BY <1>5, <1>6 DEF P

\* The recursion defines the search, which finds what it should for all of the graph.
LEMMA SearchIs ==
  ASSUME NEW graph, IsGraph(graph)
  PROVE  \E f : /\ Solves(graph, f, Places(graph))
               /\ Search(graph) = f[<<DOMAIN graph, {}, {}>>]
<1> DEFINE f == CHOOSE g : g = [at \in Places(graph) |-> Loop(graph, g, at[1], at[2], at[3])]
<1>1. \E g : g = [at \in Places(graph) |-> Loop(graph, g, at[1], at[2], at[3])]
  BY SearchExists DEF Solves
<1>2. f = [at \in Places(graph) |-> Loop(graph, f, at[1], at[2], at[3])]
  BY <1>1
<1>3. Search(graph) = f[<<DOMAIN graph, {}, {}>>]
  BY DEF Search
<1> HIDE DEF f
<1>4. Places(graph) \subseteq {at \in Places(graph) : f[at] \in Findings(graph)}
  <2> DEFINE Good == {at \in Places(graph) : f[at] \in Findings(graph)}
  <2>1. ASSUME NEW at \in Places(graph), Below(graph, Weight(graph, at)) \subseteq Good
        PROVE  at \in Good
    <3>1. Loop(graph, f, at[1], at[2], at[3]) \in Findings(graph)
      BY <2>1, LoopIsLocal
    <3>2. f[at] = Loop(graph, f, at[1], at[2], at[3])
      BY <1>2
    <3> QED BY <3>1, <3>2
  <2> HIDE DEF Good
  <2>2. Places(graph) \subseteq Good
    BY <2>1, PlaceInduction
  <2> QED BY <2>2 DEF Good
<1>5. f \in [Places(graph) -> Findings(graph)]
  BY <1>2, <1>4
<1> QED BY <1>2, <1>3, <1>5 DEF Solves

-----------------------------------------------------------------------------
\* Whatever is left of the nodes, one of it depends on none of it.
Orderable(graph, nodes) == \A left \in (SUBSET nodes) \ {{}} : \E t \in left : graph[t] \cap left = {}
\* Visited nodes are closed under dependencies and without a cycle.
Settled(graph, nodes) == (\A t \in nodes : graph[t] \subseteq nodes) /\ Orderable(graph, nodes)
\* The nodes being visited are a path that ends at what is to do.
OnPath(graph, visiting, todo) ==
  \A u \in visiting : graph[u] \cap visiting # {} \/ todo \subseteq graph[u]

\* What a loop over todo, or the visit of one node, has found when it comes back.
Finds(graph, todo, visiting, visited, so) ==
  /\ ~so.cyclic => /\ visited \cup todo \subseteq so.visited
                   /\ Settled(graph, so.visited) /\ so.visited \cap visiting = {}
  /\ Orderable(graph, DOMAIN graph) => ~so.cyclic

Right(graph, f, at) ==
  at[2] \cap at[3] = {} /\ Settled(graph, at[3]) /\ OnPath(graph, at[2], at[1]) =>
    Finds(graph, at[1], at[2], at[3], f[at])

LEMMA SettledGrows ==
  ASSUME NEW graph, NEW nodes, NEW node, Settled(graph, nodes),
         graph[node] \subseteq nodes, node \notin nodes
  PROVE  Settled(graph, nodes \cup {node})
<1>1. ASSUME NEW left \in (SUBSET (nodes \cup {node})) \ {{}}
      PROVE  \E t \in left : graph[t] \cap left = {}
  <2>1. CASE left \cap nodes = {}
    <3>1. left = {node}
      BY <2>1
    <3>2. graph[node] \cap {node} = {}
      OBVIOUS
    <3> QED BY <3>1, <3>2
  <2>2. CASE left \cap nodes # {}
    <3>1. PICK t \in left \cap nodes : graph[t] \cap (left \cap nodes) = {}
      BY <2>2 DEF Settled, Orderable
    <3>2. graph[t] \subseteq nodes
      BY <3>1 DEF Settled
    <3> QED BY <3>1, <3>2
  <2> QED BY <2>1, <2>2
<1>2. \A t \in nodes \cup {node} : graph[t] \subseteq nodes \cup {node}
  BY DEF Settled
<1> QED BY <1>1, <1>2 DEF Settled, Orderable

\* visit() marks a node only after everything it depends on, and raises only at a cycle.
LEMMA VisitRight ==
  ASSUME NEW graph, IsGraph(graph), NEW f, Solves(graph, f, Places(graph)),
         NEW at \in Places(graph), NEW node \in at[1],
         at[2] \cap at[3] = {}, Settled(graph, at[3]), OnPath(graph, at[2], at[1]),
         \A c \in Below(graph, Weight(graph, at)) : Right(graph, f, c)
  PROVE  LET found == Visit(graph, f, node, at[2], at[3])
         IN  found \in Findings(graph) /\ Finds(graph, {node}, at[2], at[3], found)
<1> DEFINE N == DOMAIN graph
           found == Visit(graph, f, node, at[2], at[3])
           below == <<graph[node], at[2] \cup {node}, at[3]>>
<1>1. /\ at[1] \in SUBSET N /\ at[2] \in SUBSET N /\ at[3] \in SUBSET N /\ node \in N
      /\ graph[node] \in SUBSET N
  BY DEF Places, IsGraph
<1>2. CASE node \in at[3]
  <2>1. found = Going(at[3])
    BY <1>2 DEF Visit
  <2> QED BY <1>1, <1>2, <2>1 DEF Going, Findings, Finds
<1>3. CASE node \notin at[3] /\ node \in at[2]
  <2>1. found = [visited |-> at[3], cyclic |-> TRUE]
    BY <1>3 DEF Visit
  <2>2. ASSUME Orderable(graph, N) PROVE FALSE
    <3>1. PICK u \in at[2] : graph[u] \cap at[2] = {}
      BY <1>1, <1>3, <2>2 DEF Orderable
    <3>2. node \in graph[u]
      BY <3>1 DEF OnPath
    <3> QED BY <1>3, <3>1, <3>2
  <2> QED BY <1>1, <2>1, <2>2 DEF Findings, Finds
<1>4. CASE node \notin at[3] /\ node \notin at[2]
  <2> DEFINE all == f[below]
  <2>1. below \in Below(graph, Weight(graph, at)) /\ below \in Places(graph)
    BY <1>1, <1>4, LoopDescends DEF Below
  <2>2. all \in Findings(graph)
    BY <2>1 DEF Solves
  <2>3. below[1] = graph[node] /\ below[2] = at[2] \cup {node} /\ below[3] = at[3]
    OBVIOUS
  <2>4. OnPath(graph, at[2] \cup {node}, graph[node])
    BY DEF OnPath
  <2>5. Finds(graph, graph[node], at[2] \cup {node}, at[3], all)
    <3>1. Right(graph, f, below)
      BY <2>1
    <3> HIDE DEF below
    <3> QED BY <1>4, <2>3, <2>4, <3>1 DEF Right
  <2>6. found = IF all.cyclic THEN all ELSE Going(all.visited \cup {node})
    BY <1>4 DEF Visit
  <2> HIDE DEF all, below, found
  <2>7. ASSUME all.cyclic
        PROVE  found \in Findings(graph) /\ Finds(graph, {node}, at[2], at[3], found)
    <3>1. found = all
      BY <2>6, <2>7
    <3> QED BY <2>2, <2>5, <2>7, <3>1 DEF Finds
  <2>8. ASSUME ~all.cyclic
        PROVE  found \in Findings(graph) /\ Finds(graph, {node}, at[2], at[3], found)
    <3>1. /\ at[3] \cup graph[node] \subseteq all.visited /\ Settled(graph, all.visited)
          /\ all.visited \cap (at[2] \cup {node}) = {}
      BY <2>5, <2>8 DEF Finds
    <3>2. Settled(graph, all.visited \cup {node})
      BY <3>1, SettledGrows
    <3>3. found.visited = all.visited \cup {node} /\ found.cyclic = FALSE
          /\ found \in Findings(graph)
      BY <1>1, <2>2, <2>6, <2>8 DEF Going, Findings
    <3>4. at[3] \cup {node} \subseteq found.visited /\ found.visited \cap at[2] = {}
      BY <1>4, <3>1, <3>3
    <3> QED BY <3>2, <3>3, <3>4 DEF Finds
  <2> QED BY <2>7, <2>8 DEF found
<1> QED BY <1>2, <1>3, <1>4

LEMMA LoopRight ==
  ASSUME NEW graph, IsGraph(graph), NEW f, Solves(graph, f, Places(graph)),
         NEW at \in Places(graph),
         \A c \in Below(graph, Weight(graph, at)) : Right(graph, f, c)
  PROVE  Right(graph, f, at)
<1> SUFFICES ASSUME at[2] \cap at[3] = {}, Settled(graph, at[3]), OnPath(graph, at[2], at[1])
             PROVE  Finds(graph, at[1], at[2], at[3], f[at])
  BY DEF Right
<1> DEFINE node == CHOOSE n \in at[1] : TRUE
           found == Visit(graph, f, node, at[2], at[3])
           next == <<at[1] \ {node}, at[2], found.visited>>
<1>1. f[at] = Loop(graph, f, at[1], at[2], at[3])
  BY DEF Solves
<1>2. CASE at[1] = {}
  <2>1. f[at] = Going(at[3])
    BY <1>1, <1>2 DEF Loop
  <2> QED BY <1>2, <2>1 DEF Going, Finds
<1>3. CASE at[1] # {}
  <2>1. node \in at[1]
    BY <1>3
  <2>2. f[at] = IF found.cyclic THEN found ELSE f[next]
    BY <1>1, <1>3 DEF Loop
  <2>3. found \in Findings(graph) /\ Finds(graph, {node}, at[2], at[3], found)
    BY <2>1, VisitRight
  <2>4. CASE found.cyclic
    BY <2>2, <2>3, <2>4 DEF Finds
  <2>5. CASE ~found.cyclic
    <3>1. /\ at[3] \cup {node} \subseteq found.visited /\ Settled(graph, found.visited)
          /\ found.visited \cap at[2] = {} /\ found.visited \in SUBSET DOMAIN graph
      BY <2>3, <2>5 DEF Finds, Findings
    <3>2. next \in Below(graph, Weight(graph, at))
      BY <2>1, <3>1, LoopDescends DEF Below
    <3>3. next[1] = at[1] \ {node} /\ next[2] = at[2] /\ next[3] = found.visited
      OBVIOUS
    <3>4. OnPath(graph, at[2], at[1] \ {node})
      BY DEF OnPath
    <3>5. Right(graph, f, next)
      BY <3>2
    <3> HIDE DEF next, found, node
    <3>6. Finds(graph, at[1] \ {node}, at[2], found.visited, f[next])
      BY <3>1, <3>3, <3>4, <3>5 DEF Right
    <3> QED BY <2>2, <2>5, <3>1, <3>6 DEF Finds
  <2> QED BY <2>4, <2>5
<1> QED BY <1>2, <1>3

\* The depth-first search of the validation (visit, planner.py:171) raises exactly when some
\* of the tasks all wait for each other.
THEOREM SearchIsExact ==
  ASSUME NEW graph, IsGraph(graph)
  PROVE  Cyclic(graph) <=> ~Orderable(graph, DOMAIN graph)
<1>1. PICK f : Solves(graph, f, Places(graph)) /\ Search(graph) = f[<<DOMAIN graph, {}, {}>>]
  BY SearchIs
<1> DEFINE Good == {at \in Places(graph) : Right(graph, f, at)}
           all  == <<DOMAIN graph, {}, {}>>
<1>2. \A at \in Places(graph) : Below(graph, Weight(graph, at)) \subseteq Good => at \in Good
  BY <1>1, LoopRight
<1>3. Places(graph) \subseteq Good
  <2> HIDE DEF Good
  <2> QED BY <1>2, PlaceInduction
<1>4. all \in Places(graph)
  BY DEF Places
<1>5. Right(graph, f, all) /\ f[all] \in Findings(graph)
  BY <1>1, <1>3, <1>4 DEF Solves
<1>6. Finds(graph, DOMAIN graph, {}, {}, f[all])
  <2>1. all[1] = DOMAIN graph /\ all[2] = {} /\ all[3] = {}
    OBVIOUS
  <2>2. Settled(graph, {}) /\ OnPath(graph, {}, DOMAIN graph)
    BY DEF Settled, Orderable, OnPath
  <2> HIDE DEF all
  <2> QED BY <1>5, <2>1, <2>2 DEF Right
<1>7. f[all].visited \subseteq DOMAIN graph
  BY <1>5 DEF Findings
<1>8. Cyclic(graph) <=> f[all].cyclic
  BY <1>1 DEF Cyclic
<1>9. ASSUME ~f[all].cyclic PROVE Orderable(graph, DOMAIN graph)
  <2>1. f[all].visited = DOMAIN graph
    BY <1>6, <1>7, <1>9 DEF Finds
  <2> QED BY <1>6, <1>9, <2>1 DEF Finds, Settled
<1> QED BY <1>6, <1>8, <1>9 DEF Finds

-----------------------------------------------------------------------------
(* The validation of the planner's answer.                                  *)

\* The tests before the search find unknown tasks and tasks that depend on themselves,
\* the search finds the other cycles; what passes can be carried out, and the reverse.
LEMMA AcceptsIsExact ==
  ASSUME NEW p, IsFiniteSet(p.tasks), NEW m
  PROVE  Accepts(p, m) <=> /\ Executable(p) /\ Cardinality(p.tasks) <= m
                           /\ p.fields /\ ~p.repeated
<1> DEFINE graph == [t \in p.tasks |-> p.needs[t]]
<1>1. DOMAIN graph = p.tasks /\ \A t \in p.tasks : graph[t] = p.needs[t]
  OBVIOUS
<1>2. Accepts(p, m) <=>
        /\ p.tasks # {} /\ Cardinality(p.tasks) <= m /\ p.fields /\ ~p.repeated
        /\ \A t \in p.tasks : p.needs[t] \subseteq p.tasks /\ t \notin p.needs[t]
        /\ ~Cyclic(graph)
  BY DEF Accepts
<1> HIDE DEF graph
<1>3. ASSUME \A t \in p.tasks : p.needs[t] \subseteq p.tasks
      PROVE  ~Cyclic(graph) <=>
               \A left \in (SUBSET p.tasks) \ {{}} : \E t \in left : p.needs[t] \cap left = {}
  <2>1. IsGraph(graph)
    BY <1>1, <1>3 DEF IsGraph
  <2>2. ~Cyclic(graph) <=> Orderable(graph, p.tasks)
    BY <1>1, <2>1, SearchIsExact
  <2>3. Orderable(graph, p.tasks) <=>
          \A left \in (SUBSET p.tasks) \ {{}} : \E t \in left : p.needs[t] \cap left = {}
    BY <1>1 DEF Orderable
  <2> QED BY <2>2, <2>3
<1>4. ASSUME Executable(p), NEW t \in p.tasks PROVE t \notin p.needs[t]
  <2>1. {t} \in (SUBSET p.tasks) \ {{}}
    OBVIOUS
  <2>2. p.needs[t] \cap {t} = {}
    BY <1>4, <2>1 DEF Executable
  <2> QED BY <2>2
<1> QED BY <1>2, <1>3, <1>4 DEF Executable

\* Whatever the planner answers, to whatever job: the plan is stored exactly if it can be
\* carried out and respects the limits, and never given up for the fallback task otherwise
\* (Planner.validate, planner.py:131).
THEOREM ValidationIsExactHolds == Spec => []ValidationIsExact
<1>1. Base => ValidationIsExact
  <2> SUFFICES ASSUME Base, runner = "answered", answer # None
               PROVE  Accepts(answer, scenario.maxTasks) <=>
                        /\ Executable(answer) /\ Cardinality(answer.tasks) <= scenario.maxTasks
                        /\ answer.fields /\ ~answer.repeated
    BY DEF ValidationIsExact
  <2>1. scenario \in Scenarios /\ answer \in Proposals[scenario.planner]
    BY DEF Base, TypeOK
  <2>2. IsFiniteSet(answer.tasks)
    BY <2>1, PlansAssumption
  <2> QED BY <2>2, AcceptsIsExact
<1> QED BY <1>1, BaseHolds, PTL

-----------------------------------------------------------------------------
(* The scheduler never stalls.  PlanOK: the stored plan can be carried out. *)
(* HaltedOK, StaleOK and OwnedOK: whatever stops, failures, crashes and     *)
(* resumes make of its rows, a runner that is about to schedule finds every *)
(* task where it can go on from, or in the hands of its own coroutines.     *)

\* A created job stays, an acceptance is not taken back.
LEMMA JobRowKept ==
  ASSUME Base, [Next]_vars
  PROVE  /\ State' = Absent => State = Absent
         /\ phase'[Job] = "none" => phase[Job] = "none"
<1>1. Rows!TypeOK
  BY TypeParts DEF Base
<1>2. Rows!KeptJob(Job)
  BY <1>1, EveryRowsStep, SameRows, Rows!JobKept, StoreAssumptions DEF RowsStep
<1> QED BY <1>2, SameTables DEF Rows!KeptJob, State

\* All planned tasks of an accepted job are completed.
AllDone == \A t \in Tasks : taskState[Job][t] \in {Absent, "completed"}

LEMMA AcceptedIsDone ==
  ASSUME Rows!StoreInv, phase[Job] # "none"
  PROVE  AllDone
BY SameTables DEF Rows!StoreInv, Rows!JobInv, Rows!RowsOK, AllDone

Planned == {t \in Tasks : InPlan(t)}

\* Tasks depend on tasks of the plan, and the plan can be carried out.
PlanOK ==
  /\ \A t \in Tasks : deps[t] \subseteq Planned
  /\ Orderable(deps, Planned)

LEMMA PlanKept == Base /\ DependOK /\ PlanOK /\ [Next]_vars => PlanOK'
<1> SUFFICES ASSUME Base, DependOK, PlanOK, [Next]_vars PROVE PlanOK'
  OBVIOUS
<1>0. Rows!TypeOK
  BY TypeParts DEF Base
<1>1. ASSUME deps' = deps, \A t \in Tasks : InPlan(t)' => InPlan(t) PROVE PlanOK'
  <2>1. Planned' = Planned
    BY <1>1, TasksKept DEF Planned
  <2> QED BY <1>1, <2>1 DEF PlanOK, Orderable
<1>2. CASE Client \/ Request \/ Shutdown \/ Crash \/ Daemon
  BY <1>1, <1>2, DaemonBegins DEF NothingBegins
<1>3. CASE RunnerStep /\ ~RunnerStoresPlan
  BY <1>1, <1>3, RunnerBegins DEF NothingBegins
<1>4. CASE RunnerStoresPlan
  <2>1. \A t \in Tasks : ~InPlan(t)
    BY <1>4 DEF RunnerStoresPlan, DependOK
  <2>2. ASSUME NEW new \in SUBSET Tasks, Store!AddTasks(Job, new) PROVE Planned' = new
    BY <1>0, <2>1, <2>2, AddTasksDoes DEF Planned, InPlan, Absent
  <2>3. CASE /\ answer # None /\ Accepts(answer, scenario.maxTasks)
             /\ Store!AddTasks(Job, answer.tasks)
             /\ deps' = [t \in Tasks |-> IF t \in answer.tasks THEN answer.needs[t] ELSE {}]
    <3>1. scenario \in Scenarios /\ answer \in Proposals[scenario.planner]
      BY <2>3 DEF Base, TypeOK
    <3>2. IsFiniteSet(answer.tasks) /\ answer.tasks \in SUBSET Tasks
      BY <3>1, PlansAssumption
    <3>3. Executable(answer)
      BY <2>3, <3>2, AcceptsIsExact
    <3>4. Planned' = answer.tasks
      BY <2>2, <2>3, <3>2
    <3>5. /\ \A t \in Tasks : deps'[t] \subseteq answer.tasks
          /\ \A t \in answer.tasks : deps'[t] = answer.needs[t]
      BY <2>3, <3>2, <3>3 DEF Executable
    <3> QED BY <3>3, <3>4, <3>5 DEF PlanOK, Orderable, Executable
  <2>4. CASE Store!AddTasks(Job, {Fallback}) /\ UNCHANGED deps
    <3>1. Planned' = {Fallback}
      BY <2>2, <2>4, PlansAssumption
    <3>2. \A t \in Tasks : deps'[t] = {}
      BY <2>1, <2>4 DEF PlanOK, Planned
    <3> QED BY <3>1, <3>2, PlansAssumption DEF PlanOK, Orderable
  <2> QED BY <1>4, <2>3, <2>4 DEF RunnerStoresPlan
<1>5. ASSUME NEW r \in Runs, NEW t \in Tasks, WorkerStep(r, t) PROVE PlanOK'
  <2>1. /\ \A u \in Tasks : u # t => taskState'[Job][u] = taskState[Job][u]
        /\ deps' = deps /\ InPlan(t)
    BY <1>5, WorkerBeginsOne DEF DependOK
  <2> QED BY <1>1, <2>1 DEF InPlan
<1>6. CASE UNCHANGED vars
  <2>1. deps' = deps /\ taskState' = taskState
    BY <1>6 DEF vars, rows, planned
  <2> QED BY <1>1, <2>1 DEF InPlan
<1> QED BY <1>2, <1>3, <1>4, <1>5, <1>6 DEF Next

\* The columns of the row are those of a job that has no task yet, until it is created.
EmptyOK == State = Absent => \A t \in Tasks : ~InPlan(t)

LEMMA EmptyKept == Base /\ DependOK /\ EmptyOK /\ [Next]_vars => EmptyOK'
<1> SUFFICES ASSUME Base, DependOK, EmptyOK, [Next]_vars, State' = Absent
             PROVE  \A t \in Tasks : ~InPlan(t)'
  BY DEF EmptyOK
<1>0. Rows!TypeOK
  BY TypeParts DEF Base
<1>1. \A t \in Tasks : ~InPlan(t)
  BY JobRowKept DEF EmptyOK
<1>2. CASE Client \/ Request \/ Shutdown \/ Crash \/ Daemon
  BY <1>1, <1>2, DaemonBegins DEF NothingBegins
<1>3. CASE RunnerStep /\ ~RunnerStoresPlan
  BY <1>1, <1>3, RunnerBegins DEF NothingBegins
<1>4. ~RunnerStoresPlan
  <2>1. ASSUME NEW new \in SUBSET Tasks, Store!AddTasks(Job, new) PROVE FALSE
    BY <1>0, <2>1, AddTasksDoes DEF SameState, State, Absent
  <2>2. answer # None => answer.tasks \in SUBSET Tasks
    BY PlansAssumption DEF Base, TypeOK
  <2>3. {Fallback} \in SUBSET Tasks
    BY PlansAssumption
  <2> QED BY <2>1, <2>2, <2>3 DEF RunnerStoresPlan
<1>5. ASSUME NEW r \in Runs, NEW t \in Tasks, WorkerStep(r, t) PROVE FALSE
  BY <1>1, <1>5, WorkerBeginsOne DEF DependOK
<1>6. CASE UNCHANGED vars
  BY <1>1, <1>6 DEF vars, rows, InPlan
<1> QED BY <1>2, <1>3, <1>4, <1>5, <1>6 DEF Next

\* A worker takes its task on, gives it back or completes it, but never stops it.
LEMMA WorkerHalts ==
  ASSUME Base, NEW r \in Runs, NEW t \in Tasks, WorkerStep(r, t), NEW u \in Tasks,
         taskState'[Job][u] \in {"stopped", "blocked"}
  PROVE  taskState'[Job][u] = taskState[Job][u]
<1>0. Rows!TypeOK
  BY TypeParts DEF Base
<1>1. CASE \E s \in TaskStates \ {"stopped", "blocked"} : Store!UpdateTask(Job, t, s)
  BY <1>0, <1>1, UpdateTaskDoes
<1>2. CASE \/ WorkerBegins(r, t) \/ WorkerExhausted(r, t) \/ WorkerTriesAgain(r, t)
           \/ WorkerGatesPass(r, t) \/ WorkerMerges(r, t) \/ WorkerCompletes(r, t)
  BY <1>1, <1>2 DEF WorkerBegins, WorkerExhausted, WorkerTriesAgain,
    WorkerGatesPass, WorkerMerges, WorkerCompletes, TaskStates
<1>3. CASE \/ WorkerPrepared(r, t) \/ WorkerSeesStop(r, t) \/ WorkerAgentDone(r, t)
           \/ WorkerReviewPasses(r, t) \/ WorkerCleansUp(r, t) \/ WorkerRaises(r, t)
           \/ WorkerInterrupted(r, t) \/ WorkerRolledBack(r, t)
  BY <1>3 DEF WorkerPrepared, WorkerSeesStop, WorkerAgentDone, WorkerReviewPasses, WorkerCleansUp,
    WorkerRaises, WorkerInterrupted, WorkerRolledBack, rows
<1>4. CASE WorkerStartsAttempt(r, t)
  BY <1>0, <1>4, NumbersFit, StartAttemptDoes DEF WorkerStartsAttempt, Inside
<1>5. CASE WorkerRejected(r, t) \/ WorkerMerged(r, t)
  BY <1>0, <1>5, NumbersFit, FinishAttemptDoes DEF WorkerRejected, WorkerMerged, FinishAs, At
<1>6. CASE WorkerCancelled(r, t)
  BY <1>0, <1>6, NumbersFit, FinishAttemptDoes DEF WorkerCancelled, FinishAs, rows
<1> QED BY <1>2, <1>3, <1>4, <1>5, <1>6 DEF WorkerStep

\* Settled work waits for the end of its stop, and for nothing else: no runner takes a job
\* over while a task of it is stopped.  (Nothing blocks a task.)
Halted(t) == taskState[Job][t] \in {"stopped", "blocked"}
HaltedOK ==
  /\ \A t \in Tasks : Halted(t) => runner \in {"none", "stopped"} /\ State \in {"stopping", "stopped"}
  /\ loop \in {InStop, InClose} => State = "stopping"

LEMMA BulkHalts ==
  ASSUME NEW from, NEW to \in {"pending", "failed", "stopped"}, Bulk(from, to), NEW t \in Tasks, Halted(t)'
  PROVE  Halted(t) \/ to = "stopped"
BY DEF Bulk, Halted

LEMMA ResumeHalts ==
  ASSUME Rows!TypeOK, HaltedOK, ResumeNow
  PROVE  \A t \in Tasks : ~Halted(t)'
<1>1. CASE Resumable /\ Store!PrepareResume(Job)
  <2>1. Bulk(TaskStates \ {"completed"}, "pending")
    BY <1>1, PrepareResumeDoes
  <2> QED BY <2>1 DEF Bulk, Halted, TaskStates
<1>2. CASE Waiting /\ UNCHANGED rows
  BY <1>2 DEF Waiting, HaltedOK, Halted, rows
<1> QED BY <1>1, <1>2 DEF ResumeNow

LEMMA DaemonHalted ==
  ASSUME Base, PhaseOK, HaltedOK, Client \/ Request \/ Shutdown \/ Crash \/ Daemon
  PROVE  HaltedOK'
<1>0. Rows!TypeOK /\ Rows!StoreInv /\ LoopOK
  BY TypeParts DEF Base
<1> USE LoopNames
<1>1. CASE Submit
  <2>1. State = Absent /\ SameGraph /\ loop' = Free
    BY <1>0, <1>1, CreateJobDoes DEF Submit, Spawn
  <2> QED BY <2>1 DEF HaltedOK, Halted, SameGraph, Absent
<1>2. CASE Stop
  <2>1. SameGraph /\ State' = "stopping" /\ State \notin {"stopped"}
    BY <1>0, <1>2, RequestStopDoes DEF Stop, SameGraph, rows, State
  <2>2. runner' = runner
    BY <1>2 DEF Stop
  <2> QED BY <2>1, <2>2 DEF HaltedOK, Halted, SameGraph
<1>3. CASE StopSettles
  <2>1. runner = "none" /\ runner' = "none" /\ State = "stopping" /\ loop' \in {InClose, Free}
    BY <1>0, <1>3 DEF StopSettles, Within, LoopOK, HaltedOK
  <2>2. State' = State
    BY <1>0, <1>3, SettleInflightDoes DEF StopSettles, SameState, rows, State
  <2> QED BY <2>1, <2>2 DEF HaltedOK
<1>4. CASE StopCloses
  <2>1. runner = "none" /\ runner' = "none" /\ State = "stopping" /\ loop' = Free
    BY <1>0, <1>4 DEF StopCloses, Within, LoopOK, HaltedOK
  <2>2. State' = "stopped"
    BY <1>0, <1>4, UpdateJobDoes, JobTypes DEF StopCloses, JobStates
  <2> QED BY <2>1, <2>2 DEF HaltedOK
<1>5. ASSUME UNCHANGED rows, runner' \in {runner, "none"}, loop' \in {loop, Free} PROVE HaltedOK'
  BY <1>5 DEF HaltedOK, Halted, rows, State
<1>6. CASE Resume \/ ResumeWakes
  <2>1. CASE ResumeNow
    <3>1. loop' = Free
      BY <2>1 DEF ResumeNow, Spawn
    <3> QED BY <1>0, <2>1, <3>1, ResumeHalts DEF HaltedOK
  <2>2. CASE ~ResumeNow
    BY <1>5, <1>6, <2>2 DEF Resume, ResumeWakes
  <2> QED BY <2>1, <2>2
<1>7. CASE ResumeTimesOut \/ Shutdown \/ Crash \/ ShutdownEnds
  BY <1>5, <1>7 DEF ResumeTimesOut, Shutdown, Crash, ShutdownEnds, Gone
<1>8. CASE Start
  <2>1. runner = "none" /\ loop = Free /\ loop' = Free
    BY <1>0, <1>8 DEF Start, LoopOK, Spawn
  <2>2. State' = Store!RecoveredState(Job) /\ taskState'[Job] = Store!RecoveredTasks(Job)
    BY <1>0, <1>8, RecoverDoes DEF Start
  <2>3. CASE Store!RecoversStopped(Job)
    <3>1. State' = "stopped"
      BY <2>2, <2>3 DEF Store!RecoveredState, Store!RecoversStopped
    <3>2. runner' = "none"
      BY <1>8, <2>1, <2>3 DEF Start, RecoverySpawns, Store!RecoversStopped, Store!RecoversOrdinary
    <3> QED BY <2>1, <3>1, <3>2 DEF HaltedOK
  <2>4. CASE Store!RecoversActive(Job)
    <3>1. State \notin {"stopping", "stopped"}
      BY <2>4, SameTables DEF Store!RecoversActive, Store!RecoversOrdinary, Store!Incomplete, State,
        TerminalJobStates
    <3>2. Bulk(InflightTaskStates, "pending")
      BY <2>2, <2>4, SameTables DEF Store!RecoveredTasks, Store!MovedTasks, Bulk
    <3> QED BY <2>1, <3>1, <3>2, BulkHalts DEF HaltedOK
  <2>5. CASE Store!RecoversAccepted(Job)
    <3>1. AllDone
      BY <1>0, <2>5, AcceptedIsDone DEF Store!RecoversAccepted
    <3>2. taskState'[Job] = taskState[Job]
      BY <2>2, <2>5 DEF Store!RecoveredTasks, Store!RecoversActive, Store!RecoversStopped,
        Store!RecoversOrdinary
    <3> QED BY <2>1, <3>1, <3>2 DEF HaltedOK, Halted, AllDone, Absent
  <2>6. CASE ~(\/ Store!RecoversStopped(Job) \/ Store!RecoversActive(Job) \/ Store!RecoversAccepted(Job))
    <3>1. State' = State /\ taskState'[Job] = taskState[Job]
      BY <2>2, <2>6 DEF Store!RecoveredTasks, Store!RecoveredState, State
    <3>2. runner' = "none"
      BY <1>8, <2>1, <2>6 DEF Start, RecoverySpawns
    <3> QED BY <2>1, <3>1, <3>2 DEF HaltedOK, Halted
  <2> QED BY <2>3, <2>4, <2>5, <2>6
<1> QED BY <1>1, <1>2, <1>3, <1>4, <1>6, <1>7, <1>8 DEF Client, Request, Daemon

LEMMA RunnerHalted ==
  ASSUME Base, StopOK, PhaseOK, HaltedOK, RunnerStep
  PROVE  HaltedOK'
<1>0. Rows!TypeOK /\ LoopOK
  BY TypeParts DEF Base
<1> USE LoopNames
<1>1. loop' \notin {InStop, InClose} /\ runner # "none"
  BY <1>0 DEF RunnerStep, RunnerStarts, RunnerPrepared, RunnerPlans, RunnerStoresPlan, RunnerHasPlan,
    RunnerFails, RunnerSchedules, RunnerLeavesGraph, RunnerCollects, RunnerFinalizes, RunnerAccepts,
    RunnerCannotBuild, RunnerResumesAccepted, RunnerReconciles, RunnerCannotReconcile, RunnerEnds,
    RunnerCancelled, RunnerEscapes, RunnerSettles, RunnerCloses, Unwind, Wake, Within, Unwinding
<1>2. ASSUME \A t \in Tasks : ~Halted(t)' PROVE HaltedOK'
  BY <1>1, <1>2 DEF HaltedOK
<1>3. CASE runner = "stopped"
  <2>1. RunnerCloses
    BY <1>3 DEF RunnerStep, RunnerStarts, RunnerPrepared, RunnerPlans, RunnerStoresPlan, RunnerHasPlan,
      RunnerFails, RunnerSchedules, RunnerLeavesGraph, RunnerCollects, RunnerFinalizes, RunnerAccepts,
      RunnerCannotBuild, RunnerResumesAccepted, RunnerReconciles, RunnerCannotReconcile, RunnerEnds,
      RunnerCancelled, RunnerEscapes, RunnerSettles, Unwinding
  <2>2. State' = "stopped"
    BY <1>0, <1>3, <2>1, UpdateJobDoes, JobTypes DEF RunnerCloses, JobStates
  <2>3. runner' = "none"
    BY <2>1 DEF RunnerCloses
  <2> QED BY <1>1, <2>2, <2>3 DEF HaltedOK
<1>4. CASE runner # "stopped"
  <2>1. \A t \in Tasks : ~Halted(t)
    BY <1>1, <1>4 DEF HaltedOK
  <2>2. CASE taskState'[Job] = taskState[Job]
    BY <1>2, <2>1, <2>2 DEF Halted
  <2>3. CASE RunnerSettles
    <3>1. CASE runner = "cancelling" /\ stopRequested[Job] /\ Store!SettleInflight(Job, "stopped", "cancelled")
               /\ runner' = "stopped"
      <4>1. State' = State /\ State \in {"stopping", "stopped"}
        BY <1>0, <3>1, SettleInflightDoes DEF StopOK, SameState, State
      <4> QED BY <1>1, <3>1, <4>1 DEF HaltedOK
    <3>2. CASE \/ Store!SettleInflight(Job, "pending", "cancelled")
               \/ Store!SettleInflight(Job, "failed", "failed")
      <4>1. \E to \in {"pending", "failed"} : Bulk(InflightTaskStates, to)
        BY <1>0, <3>2, SettleInflightDoes
      <4> QED BY <1>2, <2>1, <4>1, BulkHalts
    <3> QED BY <2>3, <3>1, <3>2 DEF RunnerSettles
  <2>4. CASE RunnerStoresPlan
    <3>1. answer # None => answer.tasks \in SUBSET Tasks
      BY PlansAssumption DEF Base, TypeOK
    <3>2. {Fallback} \in SUBSET Tasks
      BY PlansAssumption
    <3>3. PICK new \in SUBSET Tasks : Store!AddTasks(Job, new)
      BY <2>4, <3>1, <3>2 DEF RunnerStoresPlan
    <3>4. \A t \in Tasks : taskState'[Job][t] \in {"pending", taskState[Job][t]}
      BY <1>0, <3>3, AddTasksDoes
    <3> QED BY <1>2, <2>1, <3>4 DEF Halted
  <2>5. taskState'[Job] = taskState[Job] \/ RunnerSettles \/ RunnerStoresPlan
    BY RunnerTasks DEF Base
  <2> QED BY <2>2, <2>3, <2>4, <2>5
<1> QED BY <1>3, <1>4

LEMMA HaltedKept == Base /\ StopOK /\ PhaseOK /\ HaltedOK /\ [Next]_vars => HaltedOK'
<1> SUFFICES ASSUME Base, StopOK, PhaseOK, HaltedOK, [Next]_vars PROVE HaltedOK'
  OBVIOUS
<1>1. CASE Client \/ Request \/ Shutdown \/ Crash \/ Daemon
  BY <1>1, DaemonHalted
<1>2. CASE RunnerStep
  BY <1>2, RunnerHalted
<1>3. ASSUME NEW r \in Runs, NEW t \in Tasks, WorkerStep(r, t) PROVE HaltedOK'
  <2>1. \A u \in Tasks : Halted(u)' => Halted(u)
    BY <1>3, WorkerHalts DEF Halted
  <2>2. runner' = runner /\ (State \in {"stopping", "stopped"} => State' = State)
        /\ loop' \notin {InStop, InClose}
    BY <1>3, WorkerKeepsJob, LoopNames
  <2> QED BY <2>1, <2>2 DEF HaltedOK
<1>4. CASE UNCHANGED vars
  BY <1>4 DEF vars, rows, HaltedOK, Halted, State
<1> QED BY <1>1, <1>2, <1>3, <1>4 DEF Next

\* A coroutine that has been cancelled and will find out at its next step.
Leaving(r, t) == worker[r][t].hit /\ Pc(r, t) \notin Inner

\* It does nothing more for its task than to close its attempt.
LEMMA LeavingStep ==
  ASSUME Base, NEW r \in Runs, NEW t \in Tasks, WorkerStep(r, t), Leaving(r, t)
  PROVE  taskState'[Job] = taskState[Job] /\ (Live(r, t)' => Leaving(r, t)')
<1>0. worker \in Workers /\ Rows!TypeOK
  BY TypeParts DEF Base
<1>1. WorkerCancelled(r, t) \/ WorkerInterrupted(r, t) \/ WorkerRolledBack(r, t)
  BY DEF Leaving, Inner, WorkerStep, WorkerPrepared, WorkerBegins, WorkerSeesStop, WorkerExhausted,
    WorkerStartsAttempt, WorkerRejected, WorkerTriesAgain, WorkerAgentDone, WorkerGatesPass,
    WorkerReviewPasses, WorkerMerges, WorkerMerged, WorkerCompletes, WorkerCleansUp, WorkerRaises,
    At, Inside
<1>2. taskState'[Job] = taskState[Job]
  <2>1. CASE WorkerInterrupted(r, t) \/ WorkerRolledBack(r, t)
    BY <2>1 DEF WorkerInterrupted, WorkerRolledBack, rows
  <2>2. CASE WorkerCancelled(r, t)
    BY <1>0, <2>2, NumbersFit, FinishAttemptDoes DEF WorkerCancelled, FinishAs, rows
  <2> QED BY <1>1, <2>1, <2>2
<1>3. ASSUME NEW how \in {"done", "failed", "error", "cancelled"}, Exit(r, t, how) PROVE ~Live(r, t)'
  BY <1>0, <1>3, ExitDoes DEF Moves, Live, Pc
<1>4. CASE WorkerCancelled(r, t) \/ WorkerRolledBack(r, t)
  BY <1>2, <1>3, <1>4 DEF WorkerCancelled, WorkerRolledBack
<1>5. CASE WorkerInterrupted(r, t)
  BY <1>0, <1>2, <1>5, InterruptDoes DEF Moves, Leaving, Inner, Pc
<1> QED BY <1>1, <1>4, <1>5

\* The runner has workers that it has not cancelled only while it schedules, waits or builds.
Working == Fresh \cup {"dag", "waiting", "final", "building"}

\* Coroutines of an earlier run, or of a run that unwinds, have all been cancelled.
StaleOK ==
  phase[Job] = "none" =>
    \A r \in Runs, t \in Tasks : Live(r, t) /\ (r # run \/ runner \notin Working) => Leaving(r, t)

\* A runner leaves its work by unwinding, or because the job has been accepted.
LEMMA WorkingEnds ==
  ASSUME Base, Controls, ~Vanish, ~Unwinds, run' = run, runner \in {"dag", "waiting", "final", "building"}
  PROVE  runner' \in {"dag", "waiting", "final", "building"} \/ phase'[Job] # "none"
<1>0. Rows!TypeOK /\ LoopOK /\ run \in Nat
  BY TypeParts DEF Base
<1>1. CASE Client \/ Request \/ Shutdown
  BY <1>0, <1>1 DEF Client, Request, Submit, Stop, Resume, ResumeTimesOut, StopSettles, StopCloses,
    ResumeWakes, Shutdown, ResumeNow, Spawn, RunnerOnly
<1>2. CASE Crash \/ Daemon
  BY <1>0, <1>2 DEF Daemon, Crash, ShutdownEnds, Gone, Vanish, Start, Spawn, LoopOK
<1>3. CASE RunnerStep
  <2>1. CASE RunnerFails \/ RunnerCannotBuild \/ RunnerCancelled \/ RunnerLeavesGraph \/ RunnerCollects
    BY <2>1 DEF RunnerFails, RunnerCannotBuild, RunnerCancelled, RunnerLeavesGraph, RunnerCollects,
      RunnerOnly, Unwinds
  <2>2. CASE RunnerAccepts
    BY <1>0, <2>2, PrepareAcceptedDoes DEF RunnerAccepts, Rows!Intents
  <2>3. CASE RunnerSchedules \/ RunnerFinalizes
    BY <2>3 DEF RunnerSchedules, RunnerFinalizes
  <2>4. CASE \/ RunnerStarts \/ RunnerPrepared \/ RunnerPlans \/ RunnerStoresPlan \/ RunnerHasPlan
             \/ RunnerResumesAccepted \/ RunnerReconciles \/ RunnerCannotReconcile \/ RunnerEnds
             \/ RunnerEscapes \/ RunnerSettles \/ RunnerCloses
    BY <2>4 DEF RunnerStarts, RunnerPrepared, RunnerPlans, RunnerStoresPlan, RunnerHasPlan,
      RunnerResumesAccepted, RunnerReconciles, RunnerCannotReconcile, RunnerEnds, RunnerEscapes,
      RunnerSettles, RunnerCloses, Unwinding
  <2> QED BY <1>3, <2>1, <2>2, <2>3, <2>4 DEF RunnerStep
<1> QED BY <1>1, <1>2, <1>3 DEF Controls

LEMMA StaleKept == Base /\ PhaseOK /\ DependOK /\ InnerOK /\ EmptyOK /\ StaleOK /\ [Next]_vars => StaleOK'
<1> SUFFICES ASSUME Base, PhaseOK, DependOK, InnerOK, EmptyOK, StaleOK, [Next]_vars, phase'[Job] = "none",
                    NEW r \in Runs, NEW t \in Tasks, Live(r, t)', (r # run \/ runner \notin Working)'
             PROVE  Leaving(r, t)'
  BY DEF StaleOK
<1>0. worker \in Workers /\ run \in Nat /\ phase[Job] = "none" /\ LoopOK
  BY TypeParts, JobRowKept DEF Base
<1>1. ASSUME Live(r, t), r # run \/ runner \notin Working PROVE Leaving(r, t)
  BY <1>0, <1>1 DEF StaleOK
<1> USE DEF Live, Leaving, Pc
<1>2. CASE Controls
  <2>1. CASE StaysPut /\ ~Vanish /\ ~Unwinds
    <3>1. worker' = worker /\ run' = run /\ Live(r, t)
      BY <2>1 DEF StaysPut
    <3>2. CASE r # run \/ runner \notin Working
      BY <1>1, <3>1, <3>2
    <3>3. CASE r = run /\ runner \in Working
      <4>1. runner' \notin Working
        BY <3>1, <3>3
      <4>2. runner \notin Fresh
        BY <3>1, <3>3, IdleIs DEF Base, BudgetOK, Untouched
      <4>3. runner \in {"dag", "waiting", "final", "building"}
        BY <3>3, <4>2 DEF Working
      <4> QED BY <1>2, <2>1, <3>1, <4>1, <4>3, WorkingEnds DEF Working
    <3> QED BY <3>2, <3>3
  <2>2. CASE Spawns
    <3>1. worker' = worker /\ run' = run + 1 /\ Live(r, t)
      BY <2>2 DEF Spawns, Spawn
    <3>2. r # run'
      BY <1>0, <3>1, IdleIs DEF Base, BudgetOK, Unborn
    <3>3. runner = "none"
      <4>1. State # Absent
        BY <3>1 DEF DependOK, EmptyOK
      <4>2. ~Submit
        BY <4>1, CreateJobDoes, TypeParts DEF Base, Submit
      <4>3. Resume \/ ResumeWakes \/ Start
        BY <1>0, <1>2, <2>2, <4>2 DEF Spawns, Spawn, Controls, Client, Request, Daemon, Stop, ResumeTimesOut,
          StopSettles, StopCloses, Shutdown, Crash, ShutdownEnds, Gone, RunnerStep, RunnerStarts,
          RunnerPrepared, RunnerPlans, RunnerStoresPlan, RunnerHasPlan, RunnerFails, RunnerSchedules,
          RunnerLeavesGraph, RunnerCollects, RunnerFinalizes, RunnerAccepts, RunnerCannotBuild,
          RunnerResumesAccepted, RunnerReconciles, RunnerCannotReconcile, RunnerEnds,
          RunnerCancelled, RunnerEscapes, RunnerSettles, RunnerCloses, RunnerOnly
      <4>4. ResumeNow \/ Start
        BY <1>0, <2>2, <4>3 DEF Spawns, Spawn, Resume, ResumeWakes
      <4> QED BY <1>0, <4>4 DEF ResumeNow, Resumable, Waiting, Start, LoopOK
    <3>4. runner \notin Working
      BY <3>3 DEF Working, Fresh
    <3> QED BY <1>1, <3>1, <3>4
  <2>3. CASE Vanish
    BY <2>3, IdleIs DEF Vanish
  <2>4. CASE Unwinds
    <3>1. run \in Runs
      BY <2>4 DEF Unwinds, Base, LoopOK
    <3>2. /\ r # run => worker'[r][t] = worker[r][t]
          /\ r = run => worker'[r][t] = Told(r, t)
      BY <1>0, <2>4, <3>1, UnwindDoes DEF Unwinds
    <3>3. worker[r][t] \in Record
      BY <1>0 DEF Workers
    <3>4. Told(r, t).pc = worker[r][t].pc /\ Told(r, t).hit = (worker[r][t].hit \/ Live(r, t))
      BY <3>3 DEF Told, Record
    <3>5. worker[r][t].pc \notin Inner
      <4>1. ~Vanish
        BY <2>4 DEF Unwinds, Unwind, Vanish
      <4> QED BY <1>2, <4>1, ControlOutside, LoopNames DEF InnerOK
    <3>6. CASE r = run
      BY <3>2, <3>4, <3>5, <3>6
    <3>7. CASE r # run
      BY <1>1, <3>2, <3>7
    <3> QED BY <3>6, <3>7
  <2>5. CASE Schedules
    <3>1. run' = run /\ runner' \in Working
      BY <2>5 DEF Schedules, Working
    <3>2. r # run /\ worker'[r][t] = worker[r][t]
      BY <2>5, <3>1, SchedulesDoes
    <3> QED BY <1>1, <3>2
  <2>6. CASE Collects
    <3>1. run' = run /\ runner' \in Working
      BY <2>6 DEF Collects, Working
    <3>2. r # run /\ worker'[r][t] = worker[r][t]
      BY <2>6, <3>1, CollectsDoes
    <3> QED BY <1>1, <3>2
  <2> QED BY <1>2, <2>1, <2>2, <2>3, <2>4, <2>5, <2>6, ControlKinds
<1>3. ASSUME NEW q \in Runs, NEW u \in Tasks, WorkerStep(q, u) PROVE Leaving(r, t)'
  <2>1. run' = run /\ runner' = runner /\ Live(q, u) /\ OthersKept(q, u)
    BY <1>3, WorkerProgress DEF Progress
  <2>2. CASE q = r /\ u = t
    <3>1. Leaving(r, t)
      BY <1>1, <2>1, <2>2
    <3> QED BY <1>3, <2>2, <3>1, LeavingStep
  <2>3. CASE q # r \/ u # t
    <3>1. worker'[r][t] = worker[r][t]
      BY <2>1, <2>3 DEF OthersKept
    <3> QED BY <1>1, <2>1, <3>1
  <2> QED BY <2>2, <2>3
<1>4. CASE UNCHANGED vars
  BY <1>1, <1>4 DEF vars
<1> QED BY <1>2, <1>3, <1>4 DEF Next, Controls

\* A task that the scheduler can go on from, or that its own coroutine answers for: one that
\* is still alive, or one whose bad result is about to end the run.
Owned(t) ==
  \/ taskState[Job][t] \in {Absent, "pending", "completed", "failed"}
  \/ Live(run, t)
  \/ Exited(t) /\ worker[run][t].result # "done"

Scheduling == Fresh \cup {"dag", "waiting"}
OwnedOK == runner \in Scheduling => \A t \in Tasks : Owned(t)

\* Until its runner unwinds, the daemon and the runner only reset the tasks of the job.
LEMMA ControlOwns ==
  ASSUME Base, HaltedOK, EmptyOK, Controls, runner' \in Scheduling
  PROVE  \/ \A t \in Tasks : taskState'[Job][t] \in {Absent, "pending", "completed", "failed"}
         \/ /\ runner \in Scheduling /\ run' = run
            /\ \A t \in Tasks : taskState'[Job][t] \in {taskState[Job][t], "pending"}
<1> DEFINE Ready4 == {Absent, "pending", "completed", "failed"}
           Calm   == \A t \in Tasks : taskState'[Job][t] \in Ready4
<1>0. Rows!TypeOK /\ Rows!StoreInv /\ LoopOK
  BY TypeParts DEF Base
<1>1. \A t \in Tasks : taskState[Job][t] \in TaskStates \cup {Absent}
  BY <1>0, JobTypes
<1>2. ASSUME NEW t \in Tasks, ~Halted(t), taskState[Job][t] \notin InflightTaskStates
      PROVE  taskState[Job][t] \in Ready4
  BY <1>1, <1>2 DEF Halted, TaskStates, InflightTaskStates
<1>3. CASE Submit
  <2>1. State = Absent /\ SameGraph
    BY <1>0, <1>3, CreateJobDoes DEF Submit
  <2> QED BY <2>1 DEF EmptyOK, InPlan, SameGraph
<1>4. CASE ResumeNow
  <2>1. CASE Resumable /\ Store!PrepareResume(Job)
    <3>1. Bulk(TaskStates \ {"completed"}, "pending")
      BY <1>0, <2>1, PrepareResumeDoes
    <3>2. Calm
      BY <1>1, <3>1 DEF Bulk
    <3> QED BY <3>2
  <2>2. CASE Waiting /\ UNCHANGED rows
    <3>1. \A t \in Tasks : ~Halted(t)
      BY <2>2 DEF Waiting, HaltedOK
    <3>2. \A t \in Tasks : taskState[Job][t] \notin InflightTaskStates
      BY <1>0, <2>2, SameTables DEF Waiting, State, Rows!StoreInv, Rows!JobInv, Rows!RowsOK
    <3>3. Calm
      BY <1>2, <2>2, <3>1, <3>2 DEF rows
    <3> QED BY <3>3
  <2> QED BY <1>4, <2>1, <2>2 DEF ResumeNow
<1>5. CASE Start
  <2>1. runner = "none" /\ RecoverySpawns
    BY <1>0, <1>5 DEF Start, LoopOK, Scheduling, Fresh
  <2>2. taskState'[Job] = Store!RecoveredTasks(Job)
    BY <1>0, <1>5, RecoverDoes DEF Start
  <2>3. CASE Store!RecoversActive(Job)
    <3>1. \A t \in Tasks : ~Halted(t)
      BY <2>3, SameTables DEF Store!RecoversActive, Store!RecoversOrdinary, Store!Incomplete, State,
        TerminalJobStates, HaltedOK
    <3>2. Bulk(InflightTaskStates, "pending")
      BY <2>2, <2>3, SameTables DEF Store!RecoveredTasks, Store!MovedTasks, Bulk
    <3>3. Calm
      BY <1>2, <3>1, <3>2 DEF Bulk
    <3> QED BY <3>3
  <2>4. CASE Store!RecoversAccepted(Job)
    <3>1. AllDone
      BY <1>0, <2>4, AcceptedIsDone DEF Store!RecoversAccepted
    <3>2. taskState'[Job] = taskState[Job]
      BY <2>2, <2>4 DEF Store!RecoveredTasks, Store!RecoversActive, Store!RecoversStopped,
        Store!RecoversOrdinary
    <3> QED BY <3>1, <3>2 DEF AllDone
  <2> QED BY <2>1, <2>3, <2>4 DEF RecoverySpawns
<1>6. CASE (Client \/ Request \/ Shutdown) /\ ~Submit /\ ~ResumeNow
  <2>1. runner \in Scheduling /\ run' = run
    BY <1>6 DEF Client, Request, Stop, Resume, ResumeTimesOut, StopSettles, StopCloses, ResumeWakes,
      Shutdown, RunnerOnly
  <2>2. taskState'[Job] = taskState[Job]
    <3>1. loop \notin {InStop, InClose}
      BY <1>0, <2>1 DEF LoopOK, Scheduling, Fresh
    <3>2. ~StopSettles /\ ~StopCloses
      BY <3>1 DEF StopSettles, StopCloses, Within
    <3> QED BY <1>0, <1>6, <3>2, RequestStopDoes DEF Client, Request, Stop, Resume, ResumeTimesOut,
          ResumeWakes, Shutdown, SameGraph, rows
  <2> QED BY <2>1, <2>2
<1>7. CASE Crash \/ ShutdownEnds
  BY <1>7 DEF Crash, ShutdownEnds, Gone, Scheduling, Fresh
<1>8. CASE RunnerStep
  <2>1. runner \in Scheduling /\ run' = run /\ ~RunnerSettles
    BY <1>8 DEF RunnerStep, RunnerStarts, RunnerPrepared, RunnerPlans, RunnerStoresPlan, RunnerHasPlan,
      RunnerFails, RunnerSchedules, RunnerLeavesGraph, RunnerCollects, RunnerFinalizes, RunnerAccepts,
      RunnerCannotBuild, RunnerResumesAccepted, RunnerReconciles, RunnerCannotReconcile, RunnerEnds,
      RunnerCancelled, RunnerEscapes, RunnerSettles, RunnerCloses, Unwind, RunnerOnly, Scheduling, Fresh
  <2>2. \A t \in Tasks : taskState'[Job][t] \in {taskState[Job][t], "pending"}
    <3>1. CASE RunnerStoresPlan
      <4>1. answer # None => answer.tasks \in SUBSET Tasks
        BY PlansAssumption DEF Base, TypeOK
      <4>2. {Fallback} \in SUBSET Tasks
        BY PlansAssumption
      <4>3. PICK new \in SUBSET Tasks : Store!AddTasks(Job, new)
        BY <3>1, <4>1, <4>2 DEF RunnerStoresPlan
      <4> QED BY <1>0, <4>3, AddTasksDoes
    <3>2. CASE taskState'[Job] = taskState[Job]
      BY <3>2
    <3> QED BY <1>8, <2>1, <3>1, <3>2, RunnerTasks
  <2> QED BY <2>1, <2>2
<1> QED BY <1>3, <1>4, <1>5, <1>6, <1>7, <1>8 DEF Controls, Daemon

LEMMA OwnedKept == Base /\ HaltedOK /\ EmptyOK /\ StaleOK /\ OwnedOK /\ [Next]_vars => OwnedOK'
<1> SUFFICES ASSUME Base, HaltedOK, EmptyOK, StaleOK, OwnedOK, [Next]_vars, runner' \in Scheduling,
                    NEW t \in Tasks
             PROVE  Owned(t)'
  BY DEF OwnedOK
<1>0. worker \in Workers /\ LoopOK
  BY TypeParts DEF Base
<1> USE DEF Live, Exited, Pc
<1>1. ASSUME runner \in Scheduling, run' = run, worker'[run][t] = worker[run][t],
             taskState'[Job][t] \in {taskState[Job][t], "pending"}
      PROVE  Owned(t)'
  BY <1>1 DEF Owned, OwnedOK
<1>2. CASE Controls
  <2>1. CASE taskState'[Job][t] \in {Absent, "pending", "completed", "failed"}
    BY <2>1 DEF Owned
  <2>2. CASE /\ runner \in Scheduling /\ run' = run
             /\ taskState'[Job][t] \in {taskState[Job][t], "pending"}
    <3>1. run \in Runs /\ run # run + 1
      BY <1>0, <2>2 DEF LoopOK, Scheduling, Fresh, Runs
    <3>2. CASE StaysPut
      BY <1>1, <2>2, <3>2 DEF StaysPut
    <3>3. ~Spawns /\ ~Vanish /\ ~Unwinds
      BY <2>2, <3>1 DEF Spawns, Spawn, Vanish, Unwinds, Unwind, Scheduling, Fresh
    <3>4. CASE Schedules
      <4>1. worker'[run][t] \in {worker[run][t], Scheduled(t)}
        BY <3>4, SchedulesDoes
      <4>2. Scheduled(t).pc = "preparing"
        BY DEF Scheduled, Idle
      <4> QED BY <1>1, <2>2, <4>1, <4>2 DEF Owned
    <3>5. CASE Collects
      <4>1. worker'[run][t] = IF Exited(t) THEN Idle ELSE worker[run][t]
        BY <3>5, CollectsDoes
      <4>2. CASE Exited(t)
        <5>1. worker[run][t].result = "done"
          BY <3>5, <4>2 DEF Collects, Results
        <5>2. taskState[Job][t] = "completed"
          BY <3>1, <4>2, <5>1 DEF Base, BudgetOK, Finished
        <5> QED BY <2>2, <5>2 DEF Owned
      <4>3. CASE ~Exited(t)
        BY <1>1, <2>2, <4>1, <4>3
      <4> QED BY <4>2, <4>3
    <3> QED BY <1>2, <3>2, <3>3, <3>4, <3>5, ControlKinds
  <2> QED BY <1>2, <2>1, <2>2, ControlOwns
<1>3. ASSUME NEW q \in Runs, NEW u \in Tasks, WorkerStep(q, u) PROVE Owned(t)'
  <2>1. Progress(q, u) /\ run' = run /\ runner' = runner /\ OthersKept(q, u)
    BY <1>3, WorkerProgress DEF Progress
  <2>2. run \in Runs
    BY <1>0, <2>1 DEF LoopOK, Scheduling, Fresh
  <2>3. u # t => taskState'[Job][t] = taskState[Job][t]
    BY <1>3, WorkerBeginsOne
  <2>4. CASE u # t
    BY <1>1, <2>1, <2>2, <2>3, <2>4 DEF OthersKept
  <2>5. CASE u = t /\ q = run
    <3>1. worker'[run][t].pc \in WorkerSteps \ {"none"}
      BY <2>1, <2>2, <2>5 DEF Progress, Workers, Record
    <3>2. worker'[run][t].pc = "exited" /\ worker'[run][t].result = "done" => taskState'[Job][t] = "completed"
      BY <2>1, <2>5 DEF Progress
    <3> QED BY <2>1, <3>1, <3>2 DEF Owned
  <2>6. CASE u = t /\ q # run
    <3>1. CASE phase[Job] = "none"
      <4>1. Leaving(q, u)
        BY <2>1, <2>6, <3>1 DEF StaleOK, Progress
      <4>2. taskState'[Job] = taskState[Job]
        BY <1>3, <4>1, LeavingStep
      <4> QED BY <1>1, <2>1, <2>2, <2>6, <4>2 DEF OthersKept
    <3>2. CASE phase[Job] # "none"
      <4>1. Rows!StoreInv /\ Rows!StoreInv'
        BY StoreInvKept DEF Base
      <4>2. phase'[Job] # "none"
        BY <3>2, JobRowKept
      <4>3. taskState'[Job][t] \in {Absent, "completed"}
        BY <4>1, <4>2, SameTables DEF Rows!StoreInv, Rows!JobInv, Rows!RowsOK
      <4> QED BY <4>3 DEF Owned
    <3> QED BY <3>1, <3>2
  <2> QED BY <2>4, <2>5, <2>6
<1>4. CASE UNCHANGED vars
  BY <1>1, <1>4 DEF vars, rows
<1> QED BY <1>2, <1>3, <1>4 DEF Next, Controls

\* The invariant of the scheduler, whatever clients do.
ScheduleInv == Whole /\ PlanOK /\ EmptyOK /\ HaltedOK /\ StaleOK /\ OwnedOK

LEMMA ScheduleKept == ScheduleInv /\ [Next]_vars => ScheduleInv'
<1> SUFFICES ASSUME ScheduleInv, [Next]_vars PROVE ScheduleInv'
  OBVIOUS
<1>1. Whole'
  BY BaseKept, StopKept, PhaseKept, DependKept, InnerKept DEF ScheduleInv, Whole
<1>2. PlanOK' /\ EmptyOK'
  BY PlanKept, EmptyKept DEF ScheduleInv, Whole
<1>3. HaltedOK' /\ StaleOK' /\ OwnedOK'
  BY HaltedKept, StaleKept, OwnedKept DEF ScheduleInv, Whole
<1> QED BY <1>1, <1>2, <1>3 DEF ScheduleInv

LEMMA ScheduleInit == Init => ScheduleInv
<1> SUFFICES ASSUME Init PROVE ScheduleInv
  OBVIOUS
<1>1. Whole
  BY OrderInit DEF OrderInv
<1>2. \A t \in Tasks : taskState[Job][t] = Absent
  BY SameTables DEF Init, Store!Init
<1>3. Planned = {} /\ EmptyOK
  BY <1>2 DEF Planned, InPlan, EmptyOK
<1>4. PlanOK
  BY <1>3 DEF Init, PlanOK, Orderable
<1>5. HaltedOK
  BY <1>2 DEF Init, HaltedOK, Halted, Absent, Free, InStop, InClose
<1>6. StaleOK /\ OwnedOK
  BY IdleIs DEF Init, StaleOK, OwnedOK, Live, Pc, Scheduling, Fresh
<1> QED BY <1>1, <1>3, <1>4, <1>5, <1>6 DEF ScheduleInv

LEMMA ScheduleHolds == Spec => []ScheduleInv
BY ScheduleInit, ScheduleKept, PTL DEF Spec

\* Whatever plan was accepted and whatever stops, failures, crashes, restarts and resumes have
\* made of its rows, a scheduler that has neither been stopped nor seen a failure finds a task
\* to start or has one at work: "task graph stalled" is never reached (orchestrator.py:354).
THEOREM DagNeverStallsHolds == Spec => []DagNeverStalls
<1>1. ScheduleInv => DagNeverStalls
  <2> SUFFICES ASSUME ScheduleInv, runner = "dag", ~SomeFailed, ~AllCompleted, Quiet(run)
               PROVE  Ready # {}
    BY DEF DagNeverStalls
  <2> DEFINE left == Planned \ Done
  <2>1. left \in (SUBSET Planned) \ {{}}
    BY DEF AllCompleted, Planned
  <2>2. PICK t \in left : deps[t] \cap left = {}
    BY <2>1 DEF ScheduleInv, PlanOK, Orderable
  <2>3. t \in Tasks /\ InPlan(t) /\ t \notin Done
    BY <2>2 DEF Planned
  <2>4. deps[t] \subseteq Done
    BY <2>2, <2>3 DEF ScheduleInv, PlanOK
  <2>5. Pc(run, t) # "exited" /\ ~Live(run, t)
    BY <2>3 DEF ScheduleInv, Whole, Base, BudgetOK, Collected, Quiet
  <2>6. Owned(t)
    BY <2>3 DEF ScheduleInv, OwnedOK, Scheduling
  <2>7. taskState[Job][t] = "pending"
    BY <2>3, <2>5, <2>6 DEF Owned, Exited, InPlan, SomeFailed, Done
  <2> QED BY <2>3, <2>4, <2>5, <2>7 DEF Ready
<1> QED BY <1>1, ScheduleHolds, PTL

\* Whoever is still alive works for the current run, whatever stops, crashes and resumes have
\* overtaken; and once that run unwinds or the job is accepted, its coroutines change the state
\* of no task: they have been cancelled, and do no more than close their attempts, or have
\* only a worktree to remove (_cancel_active, orchestrator_integration.py:549;
\* orchestrator_task.py:153).
LeftoversWriteNothing ==
  \A r \in Runs, t \in Tasks :
    Live(r, t) =>
      /\ r = run
      /\ runner \notin Working /\ WorkerStep(r, t) => taskState'[Job] = taskState[Job]

THEOREM LeftoversWriteNothingHolds == Spec => [][LeftoversWriteNothing]_vars
<1>0. OrderInv => \A r \in Runs, t \in Tasks : Live(r, t) => r = run
  BY DEF OrderInv, Orderly, LiveWorkersOK, LiveOK
<1>1. OrderInv /\ ScheduleInv /\ [Next]_vars => LeftoversWriteNothing
  <2> SUFFICES ASSUME ScheduleInv, [Next]_vars, NEW r \in Runs, NEW t \in Tasks, Live(r, t),
                      runner \notin Working, WorkerStep(r, t)
               PROVE  taskState'[Job] = taskState[Job]
    BY <1>0 DEF LeftoversWriteNothing
  <2>1. Base /\ DependOK /\ StaleOK
    BY DEF ScheduleInv, Whole
  <2>2. CASE phase[Job] = "none"
    <3>1. Leaving(r, t)
      BY <2>1, <2>2 DEF StaleOK
    <3> QED BY <2>1, <3>1, LeavingStep
  <2>3. CASE phase[Job] # "none"
    <3>1. Rows!StoreInv /\ Rows!TypeOK
      BY <2>1, TypeParts DEF Base
    <3>2. taskState[Job][t] = "completed"
      BY <2>1, <2>3, <3>1, AcceptedIsDone DEF DependOK, AllDone, InPlan
    <3>3. taskState'[Job][t] = taskState[Job][t]
      BY <2>1, <3>2, TasksKept
    <3>4. \A u \in Tasks : taskState'[Job][u] = taskState[Job][u]
      BY <2>1, <3>3, WorkerBeginsOne
    <3>5. Rows!TypeOK'
      BY <2>1, StoreInvKept DEF Rows!StoreInv
    <3>6. /\ taskState[Job] \in [Tasks -> TaskStates \cup {Absent}]
          /\ taskState'[Job] \in [Tasks -> TaskStates \cup {Absent}]
      BY <3>1, <3>5, SameTables DEF Rows!TypeOK
    <3> QED BY <3>4, <3>6
  <2> QED BY <2>2, <2>3
<1>2. OrderInv /\ ScheduleInv /\ [Next]_vars => [LeftoversWriteNothing]_vars
  BY <1>1
<1> QED BY <1>2, OrderHolds, ScheduleHolds, PTL DEF Spec

-----------------------------------------------------------------------------
(* Every call of the store is accepted.  FinalOK and CloseOK: what has been *)
(* found out or settled stays so until the call that relies on it.          *)

\* The runner finalizes completed plans only.
FinalOK == runner \in {"final", "building"} => Planned \subseteq Done

LEMMA FinalKept == Base /\ DependOK /\ FinalOK /\ [Next]_vars => FinalOK'
<1> SUFFICES ASSUME Base, DependOK, FinalOK, [Next]_vars, runner' \in {"final", "building"}
             PROVE  Planned' \subseteq Done'
  BY DEF FinalOK
<1>1. ASSUME \A t \in Tasks : InPlan(t)' => InPlan(t), Planned \subseteq Done PROVE Planned' \subseteq Done'
  BY <1>1, DoneGrows DEF Planned
<1>2. CASE Client \/ Request \/ Shutdown \/ Crash \/ Daemon
  <2>1. runner' = runner
    BY <1>2 DEF Client, Request, Daemon, Submit, Stop, Resume, ResumeTimesOut, StopSettles, StopCloses,
      ResumeWakes, ResumeNow, Shutdown, Crash, ShutdownEnds, Gone, Start, Spawn
  <2> QED BY <1>1, <1>2, <2>1, DaemonBegins DEF FinalOK, NothingBegins
<1>3. CASE RunnerStep
  <2>1. runner \in {"final", "building"} \/ RunnerLeavesGraph
    BY <1>3 DEF RunnerStep, RunnerStarts, RunnerPrepared, RunnerPlans, RunnerStoresPlan, RunnerHasPlan,
      RunnerFails, RunnerSchedules, RunnerCollects, RunnerFinalizes, RunnerAccepts,
      RunnerCannotBuild, RunnerResumesAccepted, RunnerReconciles, RunnerCannotReconcile, RunnerEnds,
      RunnerCancelled, RunnerEscapes, RunnerSettles, RunnerCloses, Unwind
  <2>2. RunnerLeavesGraph => Planned \subseteq Done
    BY DEF RunnerLeavesGraph, Unwind, AllCompleted, Planned
  <2>3. ~RunnerStoresPlan
    BY DEF RunnerStoresPlan
  <2> QED BY <1>1, <1>3, <2>1, <2>2, <2>3, RunnerBegins DEF FinalOK, NothingBegins
<1>4. ASSUME NEW r \in Runs, NEW t \in Tasks, WorkerStep(r, t) PROVE Planned' \subseteq Done'
  <2>1. \A u \in Tasks : InPlan(u)' => InPlan(u)
    BY <1>4, WorkerBeginsOne DEF DependOK, InPlan
  <2>2. runner' = runner
    BY <1>4, WorkerKeepsJob
  <2> QED BY <1>1, <2>1, <2>2 DEF FinalOK
<1>5. CASE UNCHANGED vars
  BY <1>1, <1>5 DEF vars, rows, FinalOK, InPlan
<1> QED BY <1>2, <1>3, <1>4, <1>5 DEF Next

\* Between the settling of the rows and the closing of the job nothing comes in flight again.
NoneInflight == \A t \in Tasks : taskState[Job][t] \notin InflightTaskStates
CloseOK ==
  /\ runner \in {"stopped", "queued", "failed"} => NoneInflight
  /\ loop = InClose => NoneInflight /\ phase[Job] = "none"

LEMMA CloseKept == Base /\ CloseOK /\ [Next]_vars => CloseOK'
<1> SUFFICES ASSUME Base, CloseOK, [Next]_vars PROVE CloseOK'
  OBVIOUS
<1>0. Rows!TypeOK /\ LoopOK
  BY TypeParts DEF Base
<1>1. ASSUME NEW s \in {"pending", "failed", "stopped"}, Bulk(InflightTaskStates, s) PROVE NoneInflight'
  BY <1>1 DEF Bulk, NoneInflight, InflightTaskStates
<1>2. CASE UNCHANGED vars
  BY <1>2 DEF vars, rows, CloseOK, NoneInflight
<1>3. ASSUME Next, runner' \in {"stopped", "queued", "failed"} PROVE NoneInflight'
  <2>1. CASE Client \/ Request \/ Shutdown \/ Crash \/ Daemon
    <3>1. runner' = runner /\ loop # InRunner
      BY <1>0, <1>3, <2>1, LoopNames DEF Client, Request, Daemon, Submit, Stop, Resume, ResumeTimesOut, StopSettles,
        StopCloses, ResumeWakes, ResumeNow, Shutdown, Crash, ShutdownEnds, Gone, Start, Spawn, Wake, Within, LoopOK
    <3> QED BY <1>0, <1>3, <3>1 DEF LoopOK, GoesOn
  <2>2. CASE RunnerStep
    <3>1. RunnerSettles
      BY <1>0, <1>3, <2>2, LoopNames DEF LoopOK, GoesOn, RunnerStep, RunnerStarts, RunnerPrepared, RunnerPlans,
        RunnerStoresPlan, RunnerHasPlan, RunnerFails, RunnerSchedules, RunnerLeavesGraph, RunnerCollects,
        RunnerFinalizes, RunnerAccepts, RunnerCannotBuild, RunnerResumesAccepted, RunnerReconciles,
        RunnerCannotReconcile, RunnerEnds, RunnerCancelled, RunnerEscapes, RunnerCloses, Unwind
    <3> QED BY <1>0, <1>1, <3>1, SettleInflightDoes DEF RunnerSettles
  <2>3. ASSUME NEW r \in Runs, NEW t \in Tasks, WorkerStep(r, t) PROVE FALSE
    <3>1. runner' = runner /\ loop \in {Free, InWorker(r, t)}
      BY <2>3, WorkerKeepsJob
    <3> QED BY <1>0, <1>3, <3>1, LoopNames DEF LoopOK, GoesOn
  <2> QED BY <1>3, <2>1, <2>2, <2>3 DEF Next
<1>4. ASSUME Next, loop' = InClose PROVE NoneInflight' /\ phase'[Job] = "none"
  <2>1. CASE Client \/ Request \/ Shutdown \/ Crash \/ Daemon
    <3>1. StopSettles /\ phase[Job] = "none"
      BY <1>0, <1>4, <2>1, LoopNames DEF Client, Request, Daemon, Submit, Stop, Resume, ResumeTimesOut, StopSettles,
        StopCloses, ResumeWakes, ResumeNow, Shutdown, Crash, ShutdownEnds, Gone, Start, Spawn, Wake, Within, LoopOK
    <3>2. Store!SettleInflight(Job, "stopped", "cancelled")
      BY <3>1 DEF StopSettles
    <3> QED BY <1>0, <1>1, <3>1, <3>2, SettleInflightDoes DEF SamePhase
  <2>2. CASE RunnerStep
    BY <1>4, <2>2, LoopNames DEF RunnerStep, RunnerStarts, RunnerPrepared, RunnerPlans,
        RunnerStoresPlan, RunnerHasPlan, RunnerFails, RunnerSchedules, RunnerLeavesGraph, RunnerCollects,
        RunnerFinalizes, RunnerAccepts, RunnerCannotBuild, RunnerResumesAccepted, RunnerReconciles,
        RunnerCannotReconcile, RunnerEnds, RunnerCancelled, RunnerEscapes, RunnerSettles, RunnerCloses, Unwind,
        Wake, Within, HandlerResumes
  <2>3. ASSUME NEW r \in Runs, NEW t \in Tasks, WorkerStep(r, t) PROVE FALSE
    BY <1>4, <2>3, WorkerKeepsJob, LoopNames
  <2> QED BY <1>4, <2>1, <2>2, <2>3 DEF Next
<1> QED BY <1>2, <1>3, <1>4 DEF CloseOK

\* The validator's rules about a set of rows, read task by task.
LEMMA PassesMeans ==
  ASSUME NEW state, NEW stop, NEW tasks, NEW owners \in SUBSET Tasks, NEW acceptance,
         state = "completed" => ~stop /\ \A t \in Tasks : tasks[t] \in {Absent, "completed"},
         state \in {"queued", "stopped", "failed"} => \A t \in Tasks : tasks[t] \notin InflightTaskStates,
         state = "stopped" => stop,
         \A t \in owners : state \in {"running", "stopping"} /\ tasks[t] \in InflightTaskStates,
         acceptance # "none" => owners = {} /\ \A t \in Tasks : tasks[t] \in {Absent, "completed"},
         acceptance \in {"accepted", "applying"} => state \in {"running", "stopping"},
         acceptance = "published" <=> state = "completed"
  PROVE  Passes(state, stop, tasks, owners, acceptance)
BY DEF Passes, SnapshotValid

\* What the invariant of the rows says about the job.
LEMMA RowsFacts ==
  ASSUME Rows!StoreInv
  PROVE  /\ Owners \in SUBSET Tasks
         /\ \A t \in Owners : State \in {"running", "stopping"} /\ taskState[Job][t] \in InflightTaskStates
         /\ \A t \in Tasks : taskState[Job][t] \in InflightTaskStates => State \in {"running", "stopping"}
         /\ State = "stopped" => stopRequested[Job]
         /\ phase[Job] # "none" =>
              /\ \A t \in Tasks : taskState[Job][t] \in {Absent, "completed"} /\ t \notin Owners
              /\ acceptedCommit[Job] = "candidate" /\ dossier[Job] = "dossier"
         /\ phase[Job] = "applying" => intent[Job] = "requested"
         /\ published[Job] <=> State = "completed"
<1>1. Rows!JobInv(Job)
  BY DEF Rows!StoreInv
<1>2. \A t \in Tasks : t \in Owners <=> Rows!HasRunningAttempt(Job, t)
  BY DEF Owners, Store!HasRunningAttempt, Rows!HasRunningAttempt
<1>3. Owners \in SUBSET Tasks
  BY DEF Owners
<1>4. /\ \A t \in Owners : State \in {"running", "stopping"} /\ taskState[Job][t] \in InflightTaskStates
      /\ State = "stopped" => stopRequested[Job]
      /\ phase[Job] # "none" => \A t \in Tasks : taskState[Job][t] \in {Absent, "completed"} /\ t \notin Owners
  BY <1>1, <1>2, <1>3, SameTables DEF Rows!JobInv, Rows!RowsOK, Rows!Active, State
<1>5. \A t \in Tasks : taskState[Job][t] \in InflightTaskStates => State \in {"running", "stopping"}
  BY <1>1, SameTables DEF Rows!JobInv, Rows!ActiveOK, Rows!Active, State
<1>6. /\ phase[Job] # "none" => acceptedCommit[Job] = "candidate" /\ dossier[Job] = "dossier"
      /\ phase[Job] = "applying" => intent[Job] = "requested"
      /\ published[Job] <=> State = "completed"
  BY <1>1 DEF Rows!JobInv, Rows!PublicationOK, State
<1> QED BY <1>3, <1>4, <1>5, <1>6

\* update_task, on a task of a running or stopping job that is not accepted.
LEMMA TaskCalls ==
  ASSUME Rows!StoreInv, phase[Job] = "none", State \in {"running", "stopping"},
         NEW t \in Tasks, NEW s \in TaskStates, taskState[Job][t] \in TaskStates,
         s \in TaskTransitions[taskState[Job][t]], s \in InflightTaskStates \/ t \notin Owners
  PROVE  TakesTask(t, s)
<1>1. Rows!TypeOK
  BY DEF Rows!StoreInv
<1> DEFINE after == [taskState[Job] EXCEPT ![t] = s]
<1>2. taskState[Job] \in [Tasks -> TaskStates \cup {Absent}]
  BY <1>1, SameTables DEF Rows!TypeOK
<1>3. after[t] = s /\ \A u \in Tasks : u # t => after[u] = taskState[Job][u]
  BY <1>2
<1>4. \A u \in Owners : after[u] \in InflightTaskStates
  BY <1>3, RowsFacts
<1>5. Owners \in SUBSET Tasks
  BY RowsFacts
<1>6. Passes(State, stopRequested[Job], after, Owners, phase[Job])
  <2> HIDE DEF after
  <2> QED BY <1>4, <1>5, PassesMeans
<1>7. Store!ActivatedJobState(Job, s) = State
  BY DEF Store!ActivatedJobState, State
<1>8. InPlan(t)
  BY DEF InPlan, Absent, TaskStates
<1>9. s = "completed" => t \notin Owners
  BY DEF InflightTaskStates
<1> QED BY <1>6, <1>7, <1>8, <1>9 DEF TakesTask

\* update_job, while the job is not accepted.
LEMMA JobCalls ==
  ASSUME Rows!StoreInv, phase[Job] = "none", State # Absent, NEW s \in JobStates, NEW stop,
         s \in JobTransitions[State], s # "completed", s = "stopped" => stop,
         s \in {"running", "stopping"} \/ NoneInflight
  PROVE  TakesJob(s, stop)
<1>1. Owners \in SUBSET Tasks /\ \A t \in Owners : taskState[Job][t] \in InflightTaskStates
  BY RowsFacts
<1>2. \A t \in Owners : s \in {"running", "stopping"}
  BY <1>1 DEF NoneInflight
<1>3. s \in {"queued", "stopped", "failed"} => \A t \in Tasks : taskState[Job][t] \notin InflightTaskStates
  BY DEF NoneInflight
<1>4. Passes(s, stop, taskState[Job], Owners, phase[Job])
  BY <1>1, <1>2, <1>3, PassesMeans
<1> QED BY <1>4 DEF TakesJob

\* settle_inflight.
LEMMA SettlingCalls ==
  ASSUME Rows!StoreInv, phase[Job] = "none", State # Absent, NEW s \in {"pending", "failed", "stopped"}
  PROVE  TakesSettling(s)
<1> DEFINE after == Store!MovedTasks(Job, InflightTaskStates, s)
<1>1. \A t \in Tasks : after[t] \notin InflightTaskStates
  BY DEF Store!MovedTasks, InflightTaskStates
<1>2. State # "completed" /\ (State = "stopped" => stopRequested[Job])
  BY PhaseMeans, RowsFacts
<1>3. Passes(State, stopRequested[Job], after, {}, phase[Job])
  <2> HIDE DEF after
  <2> QED BY <1>1, <1>2, PassesMeans
<1> QED BY <1>3 DEF TakesSettling

\* publish_completed_job.
LEMMA OutcomeCalls ==
  ASSUME Rows!StoreInv, phase[Job] \in {"accepted", "applying"}, NEW o,
         \/ intent[Job] = "not-requested" /\ o = "not-requested"
         \/ phase[Job] = "applying" /\ o \in {"applied", "skipped"}
  PROVE  TakesOutcome(o)
<1>1. State \in {"running", "stopping"}
  BY PhaseMeans
<1>2. /\ \A t \in Tasks : taskState[Job][t] \in {Absent, "completed"}
      /\ Owners = {} /\ acceptedCommit[Job] = "candidate" /\ dossier[Job] = "dossier" /\ ~published[Job]
  BY <1>1, RowsFacts
<1>3. "completed" \in JobTransitions[State]
  BY <1>1 DEF JobTransitions
<1>4. Store!OutcomeFits(Job, o)
  BY RowsFacts DEF Store!OutcomeFits
<1>5. Passes("completed", FALSE, taskState[Job], Owners, "published")
  BY <1>2, PassesMeans
<1> QED BY <1>2, <1>3, <1>4, <1>5 DEF TakesOutcome

CallInv == ScheduleInv /\ OrderInv /\ FinalOK /\ CloseOK

LEMMA CallHolds == Spec => []CallInv
<1>1. Init => FinalOK /\ CloseOK
  BY DEF Init, FinalOK, CloseOK, Free, InClose
<1>2. ScheduleInv /\ FinalOK /\ CloseOK /\ [Next]_vars => FinalOK' /\ CloseOK'
  BY FinalKept, CloseKept DEF ScheduleInv, Whole
<1> QED BY <1>1, <1>2, ScheduleHolds, OrderHolds, PTL DEF Spec, CallInv

LEMMA WorkerCalls ==
  ASSUME CallInv, NEW r \in Runs, NEW t \in Tasks
  PROVE  WorkerCallsFit(r, t)
<1>1. Rows!StoreInv /\ LiveWorkersOK /\ worker \in Workers
  BY TypeParts DEF CallInv, OrderInv, Whole, Orderly, Base
<1>2. CASE ~Live(r, t) \/ Pc(r, t) \in {"preparing", "cleanup", "rollback"}
  BY <1>2 DEF Live, WorkerCallsFit
<1>3. CASE Live(r, t) /\ Pc(r, t) \notin {"preparing", "cleanup", "rollback"}
  <2>1. WorkerOK(r, t) /\ phase[Job] = "none" /\ State \in {"running", "stopping"}
    BY <1>1, <1>3, PhaseMeans DEF LiveWorkersOK, LiveOK
  <2>2. MyNumber(r, t) = Number(r, t)
    BY DEF MyNumber, Number
  <2>3. /\ \A s \in InflightTaskStates : "pending" \in TaskTransitions[s] /\ s \in TaskStates
        /\ \A s \in {"running", "failed"} : s \in TaskTransitions["pending"]
        /\ "reviewing" \in TaskTransitions["running"]
        /\ "integrating" \in TaskTransitions["reviewing"] /\ "completed" \in TaskTransitions["integrating"]
        /\ {"running", "reviewing", "integrating"} = InflightTaskStates
        /\ {"pending", "failed", "completed"} \subseteq TaskStates
    BY DEF InflightTaskStates, TaskTransitions, TaskStates
  <2>4. t \in Owners => taskState[Job][t] \in InflightTaskStates
    BY <1>1, RowsFacts
  <2>5. Store!HasRunningAttempt(Job, t) <=> t \in Owners
    BY DEF Owners
  <2>6. CASE Pc(r, t) = "head"
    <3>1. taskState[Job][t] = "pending" /\ t \notin Owners
      BY <2>1, <2>4, <2>6 DEF WorkerOK, InflightTaskStates
    <3>2. TakesTask(t, "failed") /\ TakesTask(t, "running")
      BY <1>1, <2>1, <2>3, <3>1, TaskCalls
    <3> QED BY <2>6, <3>2 DEF WorkerCallsFit
  <2>7. CASE Pc(r, t) = "starting"
    <3>1. /\ State = "running" /\ taskState[Job][t] = "running"
          /\ attemptState[Job][t][Number(r, t)] = Absent /\ ~Store!HasRunningAttempt(Job, t)
      BY <2>1, <2>7 DEF WorkerOK
    <3>2. Store!MayStart(Job, t, MyNumber(r, t))
      BY <2>1, <2>2, <3>1, SameTables DEF Store!MayStart, State
    <3>3. Passes(State, stopRequested[Job], taskState[Job], Owners \cup {t}, phase[Job])
      <4>1. \A u \in Owners \cup {t} : taskState[Job][u] \in InflightTaskStates
        BY <1>1, <2>3, <3>1, RowsFacts
      <4>2. Owners \cup {t} \in SUBSET Tasks
        BY <1>1, RowsFacts
      <4> QED BY <2>1, <3>1, <4>1, <4>2, PassesMeans
    <3> QED BY <2>7, <3>2, <3>3 DEF WorkerCallsFit
  <2>8. CASE Pc(r, t) \in {"agent", "gates", "reviewing", "waiting", "merging"}
    <3>1. attemptState[Job][t][MyNumber(r, t)] = "running"
      BY <2>1, <2>2, <2>8 DEF WorkerOK
    <3>2. Pc(r, t) = "gates" => TakesTask(t, "reviewing")
      BY <1>1, <2>1, <2>3, TaskCalls DEF WorkerOK
    <3>3. Pc(r, t) = "waiting" => TakesTask(t, "integrating")
      BY <1>1, <2>1, <2>3, TaskCalls DEF WorkerOK
    <3> QED BY <2>8, <3>1, <3>2, <3>3 DEF WorkerCallsFit
  <2>9. CASE Pc(r, t) = "passed"
    <3>1. TakesTask(t, "completed")
      BY <1>1, <2>1, <2>3, <2>5, <2>9, TaskCalls DEF WorkerOK
    <3> QED BY <2>9, <3>1 DEF WorkerCallsFit
  <2>10. CASE Pc(r, t) = "again"
    <3>1. TakesTask(t, "pending")
      BY <1>1, <2>1, <2>3, <2>5, <2>10, TaskCalls DEF WorkerOK
    <3> QED BY <2>10, <3>1 DEF WorkerCallsFit
  <2>11. Pc(r, t) \in {"head", "starting", "agent", "gates", "reviewing", "again", "waiting", "merging", "passed"}
    BY <1>1, <1>3 DEF Workers, Record, WorkerSteps, Live, Pc
  <2> QED BY <2>6, <2>7, <2>8, <2>9, <2>10, <2>11
<1> QED BY <1>2, <1>3

LEMMA RunnerCalls ==
  ASSUME CallInv
  PROVE  RunnerCallsFit
<1>1. Rows!StoreInv /\ StateOK /\ StopOK /\ PhaseOK /\ DependOK /\ LoopOK /\ FinalOK /\ CloseOK
  BY DEF CallInv, OrderInv, Whole, Orderly, Base
<1>2. /\ \A s \in {"planning", "running", "stopping"} : s \in JobTransitions["queued"]
      /\ "running" \in JobTransitions["planning"] /\ "stopped" \in JobTransitions["stopping"]
      /\ \A s \in {"queued", "planning", "running", "stopping"} :
           "queued" \in JobTransitions[s] /\ "failed" \in JobTransitions[s] /\ s # Absent
      /\ {"queued", "planning", "running", "stopping", "stopped", "failed"} \subseteq JobStates
  BY DEF JobTransitions, JobStates, Absent
<1>3. State \notin {"running", "stopping"} => NoneInflight
  BY <1>1, RowsFacts DEF NoneInflight
<1>4. CASE runner = "preparing" /\ ~cancelled
  <2>1. State = "queued" /\ phase[Job] = "none"
    BY <1>1, <1>4 DEF StateOK, StopOK, PhaseOK
  <2>2. \A s \in {"planning", "running"} : TakesJob(s, stopRequested[Job])
    BY <1>1, <1>2, <1>3, <2>1, JobCalls
  <2> QED BY <1>4, <2>2 DEF RunnerCallsFit, Unwinding
<1>5. CASE runner = "answered"
  <2>1. State = "planning" /\ phase[Job] = "none" /\ \A t \in Tasks : ~InPlan(t)
    BY <1>1, <1>5 DEF StateOK, StopOK, PhaseOK, LoopOK, GoesOn, DependOK
  <2> QED BY <1>5, <2>1 DEF RunnerCallsFit, Unwinding
<1>6. CASE runner = "planned"
  <2>1. State = "planning" /\ phase[Job] = "none"
    BY <1>1, <1>6 DEF StateOK, StopOK, PhaseOK, LoopOK, GoesOn
  <2>2. TakesJob("running", stopRequested[Job])
    BY <1>1, <1>2, <1>3, <2>1, JobCalls
  <2> QED BY <1>6, <2>2 DEF RunnerCallsFit, Unwinding
<1>7. CASE runner = "building"
  <2>1. State \in {"running", "stopping"} /\ phase[Job] = "none"
    BY <1>1, <1>7 DEF StateOK, PhaseOK
  <2>2. \A t \in Tasks : taskState[Job][t] \in {Absent, "completed"}
    BY <1>1, <1>7 DEF FinalOK, Planned, InPlan, Done
  <2>3. Owners = {}
    BY <1>1, <2>2, RowsFacts DEF InflightTaskStates, Absent
  <2>4. Passes(State, FALSE, taskState[Job], Owners, "accepted")
    BY <2>1, <2>2, <2>3, PassesMeans
  <2> QED BY <1>7, <2>1, <2>4 DEF RunnerCallsFit, Unwinding
<1>8. CASE runner = "accepted"
  <2>1. phase[Job] \in {"accepted", "applying"}
    BY <1>1, <1>8 DEF PhaseOK
  <2>2. intent[Job] = "not-requested" => TakesOutcome("not-requested")
    BY <1>1, <2>1, OutcomeCalls
  <2>3. acceptedCommit[Job] = "candidate"
    BY <1>1, <2>1, RowsFacts
  <2> QED BY <1>8, <2>1, <2>2, <2>3 DEF RunnerCallsFit, Unwinding
<1>9. CASE runner = "applying"
  <2>1. phase[Job] = "applying"
    BY <1>1, <1>9 DEF PhaseOK
  <2>2. \A o \in {"applied", "skipped"} : TakesOutcome(o)
    BY <1>1, <2>1, OutcomeCalls
  <2> QED BY <1>9, <2>2 DEF RunnerCallsFit, Unwinding
<1>10. CASE Unwinding
  <2>1. phase[Job] = "none" /\ State # Absent
    BY <1>1, <1>2, <1>10 DEF Unwinding, PhaseOK, StateOK
  <2>2. \A s \in {"pending", "failed", "stopped"} : TakesSettling(s)
    BY <1>1, <2>1, SettlingCalls
  <2> QED BY <1>10, <2>2 DEF RunnerCallsFit, Unwinding
<1>11. CASE runner \in {"stopped", "queued", "failed"}
  <2>1. /\ phase[Job] = "none" /\ NoneInflight /\ State \in {"queued", "planning", "running", "stopping"}
        /\ runner = "stopped" => State = "stopping" /\ stopRequested[Job]
    BY <1>1, <1>11 DEF PhaseOK, StateOK, CloseOK
  <2>2. TakesJob(runner, stopRequested[Job])
    BY <1>1, <1>2, <1>11, <2>1, JobCalls
  <2> QED BY <1>11, <2>2 DEF RunnerCallsFit, Unwinding
<1> QED BY <1>4, <1>5, <1>6, <1>7, <1>8, <1>9, <1>10, <1>11 DEF RunnerCallsFit

LEMMA DaemonCalls ==
  ASSUME CallInv
  PROVE  DaemonCallsFit
<1>1. Rows!StoreInv /\ Rows!TypeOK /\ PhaseOK /\ HaltedOK /\ CloseOK /\ LoopOK
  BY TypeParts DEF CallInv, ScheduleInv, Whole, Base
<1>2. State \in JobStates \cup {Absent}
  BY <1>1, JobTypes
<1>3. loop = InStop => TakesSettling("stopped") \/ RefusedStop
  <2> SUFFICES ASSUME loop = InStop PROVE TakesSettling("stopped") \/ RefusedStop
    OBVIOUS
  <2>1. State = "stopping" /\ runner = "none"
    BY <1>1, LoopNames DEF HaltedOK, LoopOK
  <2>2. phase[Job] = "none" => TakesSettling("stopped")
    BY <1>1, <2>1, SettlingCalls DEF Absent
  <2>3. phase[Job] # "none" => Accepted
    BY <1>1, <2>1, PhaseMeans DEF Accepted
  <2> QED BY <2>1, <2>2, <2>3 DEF RefusedStop
<1>4. loop = InClose => TakesJob("stopped", stopRequested[Job])
  <2> SUFFICES ASSUME loop = InClose PROVE TakesJob("stopped", stopRequested[Job])
    OBVIOUS
  <2>1. State = "stopping" /\ phase[Job] = "none" /\ NoneInflight /\ stopRequested[Job]
    BY <1>1 DEF HaltedOK, CloseOK, PhaseOK
  <2> QED BY <1>1, <2>1, JobCalls DEF JobTransitions, JobStates, Absent
<1>5. State \notin TerminalJobStates \cup {Absent, "stopping"} => TakesJob("stopping", TRUE)
  <2> SUFFICES ASSUME State \in {"queued", "planning", "running"} PROVE TakesJob("stopping", TRUE)
    BY <1>2 DEF JobStates, TerminalJobStates
  <2>1. "stopping" \in JobTransitions[State] /\ State # Absent
    BY DEF JobTransitions, Absent
  <2>2. /\ phase[Job] # "none" => Owners = {} /\ \A t \in Tasks : taskState[Job][t] \in {Absent, "completed"}
        /\ phase[Job] # "published" /\ Owners \in SUBSET Tasks
        /\ \A t \in Owners : taskState[Job][t] \in InflightTaskStates
    BY <1>1, RowsFacts, PhaseMeans
  <2>3. Passes("stopping", TRUE, taskState[Job], Owners, phase[Job])
    BY <2>2, PassesMeans
  <2> QED BY <2>1, <2>3 DEF TakesJob
<1>6. Resumable => phase[Job] = "none"
  BY <1>1, PhaseMeans DEF Resumable
<1>7. Store!RecoveryChecks(Job)
  <2>1. Store!RecoversAccepted(Job) => jobState[Job] \in {"running", "stopping"}
    BY <1>1, PhaseMeans DEF Store!RecoversAccepted, State
  <2>2. \A s \in {"queued", "planning", "running"} :
          "queued" \in JobTransitions[s] /\ "stopping" \in JobTransitions[s]
    BY DEF JobTransitions
  <2>3. Store!RecoversOrdinary(Job) => jobState[Job] \in {"queued", "planning", "running", "stopping"}
    BY <1>2, SameTables DEF Store!RecoversOrdinary, Store!Incomplete, Store!Exists, JobStates, TerminalJobStates, State
  <2>4. "stopped" \in JobTransitions["stopping"]
    BY DEF JobTransitions
  <2> QED BY <2>1, <2>2, <2>3, <2>4, SameTables DEF Store!RecoveryChecks, Store!RecoversActive, Store!RecoversStopped
<1> QED BY <1>3, <1>4, <1>5, <1>6, <1>7 DEF DaemonCallsFit

\* Whatever a worker, the runner, a request or a restart is about to write, the store accepts:
\* no transition, attempt number, open attempt or snapshot is refused with an exception the
\* caller would not survive (db.py:186, 267; db_recovery.py; state_machine.py:113), but for the
\* stop of accepted work that has lost its runner (daemon.py:254, db_recovery.py:79).
THEOREM RefusesOnlyLateStopsHolds == Spec => []RefusesOnlyLateStops
<1>1. CallInv => RefusesOnlyLateStops
  BY WorkerCalls, RunnerCalls, DaemonCalls DEF RefusesOnlyLateStops
<1> QED BY <1>1, CallHolds, PTL
=============================================================================
