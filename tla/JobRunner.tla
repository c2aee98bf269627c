----------------------------- MODULE JobRunner -----------------------------
(***************************************************************************)
(* One job from submission to its end: the daemon (daemon.py) that spawns, *)
(* stops, resumes and restarts, the runner coroutine (Orchestrator.run_job *)
(* and _execute_dag) and one worker coroutine per scheduled task           *)
(* (_run_task_with_slot), all over the durable store of module JobStore.   *)
(*                                                                         *)
(* Everything lives on one asyncio loop, so a coroutine runs undisturbed   *)
(* from one await to the next; a crash can still fall between two          *)
(* transactions of such a segment.  `loop` says who is inside a segment: a *)
(* step from an await needs "free", a step inside a segment its own name.  *)
(* Every store call is a transaction of JobStore and one step here.        *)
(*                                                                         *)
(* A cancelled coroutine raises CancelledError at its next step, except in *)
(* the parts run under finish_before_cancel (util.py), which end first.    *)
(***************************************************************************)
EXTENDS StateMachine, Naturals, FiniteSets, PlanValidation

CONSTANTS Tasks,                \* the identifiers a plan may use
          Fallback,             \* the task that stands for the goal without a plan
          None,                 \* where there is no answer, no commit or no dossier
          MaxParallel,          \* engine.max_parallel
          MaxAttempts,          \* engine.max_attempts, per run of a task
          AutoApply,            \* jobs.auto_apply
          ReconcileMayFail,     \* Git may refuse the final reconciliation
          MaxRuns,              \* bound of the runners of a job
          Proposals,            \* the answers of each kind of planner
          Scenarios             \* what the environment may do, one of:
                                \*   planner: kind of the planner
                                \*   maxTasks: engine.max_tasks
                                \*   stops, resumes, restarts: bounds
                                \*   early: clients also stop before the first step
                                \*     of a runner, which then ends without a handler
                                \*   again: clients also stop a job that is unwinding
                                \*   spurious: a command may raise CancelledError
                                \*     of its own accord (module ProcessRun)

ASSUME BoundsAssumption == MaxAttempts \in Nat /\ MaxRuns \in Nat /\ AutoApply \in BOOLEAN
ASSUME ScenariosAssumption ==
  \A s \in Scenarios : /\ s.stops \in Nat /\ s.resumes \in Nat /\ s.restarts \in Nat
                       /\ s.early \in BOOLEAN /\ s.again \in BOOLEAN
ASSUME PlansAssumption ==
  /\ Fallback \in Tasks
  /\ \A s \in Scenarios : \A a \in Proposals[s.planner] :
       IsFiniteSet(a.tasks) /\ a.tasks \subseteq Tasks

VARIABLES jobState, stopRequested, autoApply, phase, acceptedCommit, intent, outcome,
          dossier, published, taskState, attemptState,   \* the store, as in JobStore
          attempts,             \* tasks.attempts
          daemon,               \* "up", "closing" (shutdown waits for the runner it has
                                \* cancelled), "leaving" (nothing waits any more), "down"
          runner,               \* where the runner is suspended; "none": no live runner
          cancelled,            \* the runner has a cancellation to deliver
          run,                  \* number of the current runner's Orchestrator
          worker,               \* worker[r][t]: the coroutine of task t in Orchestrator r
          loop,                 \* who is inside a segment
          resuming,             \* the run a resume request waits for, 0 if none
          deps,                 \* tasks.depends_on
          answer,               \* what the planner has returned to the runner
          scenario,
          stops, resumes, restarts   \* spent environment bounds

Free == <<"free">>
InRunner == <<"runner">>
InStop   == <<"stop">>
InClose  == <<"close">>
InWorker(r, t) == <<"worker", r, t>>

Job   == "job"
Runs  == 1..MaxRuns
Numbers == 1..(MaxAttempts * MaxRuns)

Store == INSTANCE JobStore WITH
           Jobs <- {Job}, Commits <- {"candidate"}, Dossiers <- {"dossier"},
           NoCommit <- None, NoDossier <- None

ASSUME NoneAssumption ==
  None \notin {"candidate", "dossier"} \cup Store!Outcomes
             \cup ({"candidate"} \X Store!Intents \X {"dossier"})

rows    == <<jobState, stopRequested, autoApply, phase, acceptedCommit, intent, outcome,
             dossier, published, taskState, attemptState>>
planned == <<deps, answer, scenario>>
budgets == <<stops, resumes, restarts>>
vars    == <<rows, attempts, daemon, runner, cancelled, run, worker, loop, resuming, planned, budgets>>

Idle == [pc |-> "none", n |-> 1, left |-> 0, hit |-> FALSE, result |-> "none"]
WorkerSteps == {"none", "preparing", "head", "starting", "agent", "gates", "reviewing",
                "again", "waiting", "merging", "rollback", "passed", "cleanup", "exited"}
RunnerSteps == {"none", "spawned", "preparing", "planning", "answered", "planned", "dag", "waiting",
                "final", "building", "accepted", "applying", "published",
                "cancelling", "failing", "stopped", "queued", "failed"}

TypeOK ==
  /\ Store!TypeOK
  /\ attempts \in [Tasks -> Numbers \cup {0}]
  /\ daemon \in {"up", "closing", "leaving", "down"}
  /\ runner \in RunnerSteps /\ cancelled \in BOOLEAN /\ run \in Runs \cup {0}
  /\ worker \in [Runs -> [Tasks -> [pc : WorkerSteps, n : Nat, left : 0..MaxAttempts,
                   hit : BOOLEAN, result : {"none", "done", "failed", "error", "cancelled"}]]]
  /\ loop \in {Free, InRunner, InStop, InClose} \cup {InWorker(r, t) : r \in Runs, t \in Tasks}
  /\ resuming \in Runs \cup {0}
  /\ scenario \in Scenarios
  /\ answer = None \/ (runner = "answered" /\ answer \in Proposals[scenario.planner])
  /\ deps \in [Tasks -> SUBSET Tasks]
  /\ stops \in 0..scenario.stops /\ resumes \in 0..scenario.resumes
  /\ restarts \in 0..scenario.restarts

Init ==
  /\ Store!Init
  /\ attempts = [t \in Tasks |-> 0]
  /\ daemon = "up" /\ runner = "none" /\ cancelled = FALSE /\ run = 0
  /\ worker = [r \in Runs |-> [t \in Tasks |-> Idle]]
  /\ loop = Free /\ resuming = 0
  /\ deps = [t \in Tasks |-> {}] /\ answer = None /\ scenario \in Scenarios
  /\ stops = 0 /\ resumes = 0 /\ restarts = 0

-----------------------------------------------------------------------------
State     == jobState[Job]
Accepted  == phase[Job] \in {"accepted", "applying"}
Pc(r, t)  == worker[r][t].pc
Live(r, t) == Pc(r, t) \notin {"none", "exited"}
Quiet(r)  == \A t \in Tasks : ~Live(r, t)
RepoFree  == \A r \in Runs, t \in Tasks : Pc(r, t) \notin {"merging", "rollback"}

Wake        == daemon # "down" /\ loop = Free
Within(who) == daemon # "down" /\ loop = who

RunnerOnly == UNCHANGED <<attempts, daemon, run, resuming, planned, budgets>>
WorkerOnly == UNCHANGED <<daemon, runner, cancelled, run, resuming, planned, budgets>>

\* _cancel_active: cancel the Orchestrator's live workers, then wait for them;
\* with none to wait for there is no await and the handler goes straight on.
Told(r, t)   == [worker[r][t] EXCEPT !.hit = worker[r][t].hit \/ Live(r, t)]
Unwind(kind) ==
  /\ runner' = kind /\ cancelled' = FALSE
  /\ worker' = [worker EXCEPT ![run] = [t \in Tasks |-> Told(run, t)]]
  /\ loop' = IF Quiet(run) THEN InRunner ELSE Free

Spawn ==
  /\ run + 1 \in Runs
  /\ run' = run + 1 /\ runner' = "spawned" /\ cancelled' = FALSE
  /\ loop' = Free

-----------------------------------------------------------------------------
(* daemon.py: requests, shutdown, crash and restart.                       *)

Submit ==
  /\ Wake /\ daemon = "up"
  /\ Store!CreateJob(Job, AutoApply)
  /\ Spawn
  /\ UNCHANGED <<attempts, daemon, worker, resuming, planned, budgets>>

Unwinding == runner \in {"cancelling", "failing"}

\* Mutant: the request is recorded but the runner is left running.
StopCancels_Never == FALSE
StopCancels == runner # "none"

\* The stop request: durable first, then the cancellation of a live runner;
\* without a live runner the request itself settles the job.
Stop ==
  /\ Wake /\ daemon = "up" /\ stops < scenario.stops
  /\ State \notin {Absent, "completed", "stopped", "failed"}
  /\ ~scenario.early => runner # "spawned"
  /\ ~scenario.again => ~Unwinding /\ ~cancelled
  /\ IF State = "stopping" THEN UNCHANGED rows ELSE Store!RequestStop(Job)
  /\ stops' = stops + 1
  /\ cancelled' = StopCancels
  /\ loop' = IF runner # "none" THEN Free ELSE InStop
  /\ UNCHANGED <<attempts, daemon, runner, run, worker, resuming, planned, resumes, restarts>>

\* settle_inflight refuses accepted work: the request then fails half-way.
StopSettles ==
  /\ Within(InStop)
  /\ IF phase[Job] = "none"
       THEN Store!SettleInflight(Job, "stopped", "cancelled") /\ loop' = InClose
       ELSE UNCHANGED rows /\ loop' = Free
  /\ UNCHANGED <<runner, cancelled, worker>> /\ RunnerOnly

StopCloses ==
  /\ Within(InClose)
  /\ Store!UpdateJob(Job, "stopped", stopRequested[Job], autoApply[Job])
  /\ loop' = Free
  /\ UNCHANGED <<runner, cancelled, worker>> /\ RunnerOnly

\* What resume does once no live runner is in its way.
Resumable == State \in {"failed", "stopped"} /\ runner = "none"
Waiting   == State = "queued" /\ runner = "none"

ResumeNow ==
  \/ Resumable /\ Store!PrepareResume(Job) /\ Spawn
  \/ Waiting /\ UNCHANGED rows /\ Spawn

\* A resume of a stopping job waits for its runner first, and looks again after.
Resume ==
  /\ Wake /\ daemon = "up" /\ resumes < scenario.resumes
  /\ resumes' = resumes + 1
  /\ \/ State # "stopping" /\ ResumeNow /\ UNCHANGED resuming
     \/ /\ State = "stopping" /\ runner # "none" /\ resuming = 0
        /\ resuming' = run
        /\ UNCHANGED <<rows, runner, cancelled, run, loop>>
  /\ UNCHANGED <<attempts, daemon, worker, planned, stops, restarts>>

\* The runner may also have ended because of a shutdown, which does not know of the
\* new runner and leaves while that one is at work.
ResumeWakes ==
  /\ Wake /\ resuming # 0
  /\ run # resuming \/ runner = "none"
  /\ resuming' = 0
  /\ \/ ResumeNow /\ daemon' = IF daemon = "up" THEN "up" ELSE "leaving"
     \/ /\ ~Resumable /\ ~Waiting
        /\ UNCHANGED <<rows, daemon, runner, cancelled, run, loop>>
  /\ UNCHANGED <<attempts, worker, planned, budgets>>

ResumeTimesOut ==
  /\ Wake /\ resuming # 0 /\ resuming' = 0
  /\ UNCHANGED <<rows, attempts, daemon, runner, cancelled, run, worker, loop, planned, budgets>>

Shutdown ==
  /\ Wake /\ daemon = "up" /\ restarts < scenario.restarts
  /\ daemon' = "closing" /\ cancelled' = (runner # "none")
  /\ UNCHANGED <<rows, attempts, runner, run, worker, resuming, loop, planned, budgets>>

\* The process is gone: every coroutine with it, only the rows remain.
Gone ==
  /\ daemon' = "down" /\ runner' = "none" /\ cancelled' = FALSE /\ loop' = Free
  /\ worker' = [r \in Runs |-> [t \in Tasks |-> Idle]] /\ resuming' = 0 /\ answer' = None
  /\ UNCHANGED <<rows, attempts, run, deps, scenario, stops, resumes>>

ShutdownEnds ==
  /\ Wake
  /\ daemon = "leaving" \/ (daemon = "closing" /\ runner = "none")
  /\ Gone /\ UNCHANGED restarts

Crash == daemon # "down" /\ restarts < scenario.restarts /\ Gone /\ UNCHANGED restarts

\* Mutants: the restart forgets the interrupted work, or the accepted work.
RecoverySpawns_Accepted == Store!RecoversAccepted(Job)
RecoverySpawns_Ordinary == Store!RecoversActive(Job)
RecoverySpawns == Store!RecoversAccepted(Job) \/ Store!RecoversActive(Job)

Start ==
  /\ daemon = "down" /\ daemon' = "up"
  /\ restarts' = restarts + 1
  /\ Store!RecoverIncomplete
  /\ IF RecoverySpawns
       THEN Spawn ELSE UNCHANGED <<runner, cancelled, run, loop>>
  /\ UNCHANGED <<attempts, worker, resuming, planned, stops, resumes>>

-----------------------------------------------------------------------------
(* run_job, up to the task graph.                                          *)

RunnerStarts ==
  /\ Wake /\ runner = "spawned"
  /\ \/ cancelled /\ runner' = "none" /\ loop' = Free        \* cancelled before its first step
     \/ ~cancelled /\ Accepted /\ runner' = "accepted" /\ loop' = InRunner
     \/ ~cancelled /\ ~Accepted /\ runner' = "preparing" /\ loop' = Free
  /\ cancelled' = FALSE
  /\ UNCHANGED <<rows, worker>> /\ RunnerOnly

\* The integration worktree is ready: plan, or go on with the stored plan.
RunnerPrepared ==
  /\ Wake /\ runner = "preparing" /\ ~cancelled
  /\ IF \A t \in Tasks : taskState[Job][t] = Absent
       THEN /\ Store!UpdateJob(Job, "planning", stopRequested[Job], autoApply[Job])
            /\ runner' = "planning" /\ loop' = Free
       ELSE /\ Store!UpdateJob(Job, "running", stopRequested[Job], autoApply[Job])
            /\ runner' = "dag" /\ loop' = InRunner
  /\ UNCHANGED <<cancelled, worker>> /\ RunnerOnly

\* The planner answers, or fails.
RunnerPlans ==
  /\ Wake /\ runner = "planning" /\ ~cancelled
  /\ answer' \in Proposals[scenario.planner] \cup {None}
  /\ runner' = "answered" /\ loop' = InRunner
  /\ UNCHANGED <<rows, cancelled, worker, attempts, daemon, run, resuming, deps, scenario, budgets>>

RunnerStoresPlan ==
  /\ Within(InRunner) /\ runner = "answered"
  /\ \/ /\ answer # None /\ Accepts(answer, scenario.maxTasks)
        /\ Store!AddTasks(Job, answer.tasks)
        /\ deps' = [t \in Tasks |-> IF t \in answer.tasks THEN answer.needs[t] ELSE {}]
     \/ /\ answer # None => ~Accepts(answer, scenario.maxTasks)
        /\ Store!AddTasks(Job, {Fallback})
        /\ UNCHANGED deps
  /\ runner' = "planned" /\ answer' = None
  /\ UNCHANGED <<cancelled, worker, loop, attempts, daemon, run, resuming, scenario, budgets>>

RunnerHasPlan ==
  /\ Within(InRunner) /\ runner = "planned"
  /\ Store!UpdateJob(Job, "running", stopRequested[Job], autoApply[Job])
  /\ runner' = "dag"
  /\ UNCHANGED <<cancelled, worker, loop>> /\ RunnerOnly

\* Git, the choice of the planner or the finalization raise: the failure handler.
RunnerFails ==
  /\ Wake /\ runner \in {"preparing", "planning", "final"} /\ ~cancelled
  /\ Unwind("failing")
  /\ UNCHANGED rows /\ RunnerOnly

-----------------------------------------------------------------------------
(* _execute_dag.                                                           *)

InPlan(t)    == taskState[Job][t] # Absent
Done         == {t \in Tasks : taskState[Job][t] = "completed"}
SomeFailed   == \E t \in Tasks : taskState[Job][t] = "failed"
AllCompleted == {t \in Tasks : InPlan(t)} \subseteq Done

\* Mutant: a task is ready as soon as one of its dependencies is completed.
Ready_AnyDependency ==
  {t \in Tasks : /\ taskState[Job][t] = "pending" /\ ~Live(run, t)
                 /\ deps[t] = {} \/ deps[t] \cap Done # {}}
Ready == {t \in Tasks : /\ taskState[Job][t] = "pending" /\ ~Live(run, t)
                        /\ deps[t] \subseteq Done}
Capacity == MaxParallel - Cardinality({t \in Tasks : Live(run, t)})

\* _run_task_with_slot goes on counting from tasks.attempts.
\* Mutant: attempt numbers start from one in every run.
Scheduled_FromOne(t) == [Idle EXCEPT !.pc = "preparing", !.left = MaxAttempts]
Scheduled(t) == [Idle EXCEPT !.pc = "preparing", !.n = attempts[t] + 1, !.left = MaxAttempts]

RunnerSchedules ==
  /\ Within(InRunner) /\ runner = "dag"
  /\ ~stopRequested[Job] /\ ~SomeFailed /\ ~AllCompleted
  /\ \E S \in SUBSET Ready :
       /\ S = Ready \/ Cardinality(S) = Capacity
       /\ Cardinality(S) <= Capacity
       /\ worker' = [worker EXCEPT ![run] =
                       [t \in Tasks |-> IF t \in S THEN Scheduled(t) ELSE @[t]]]
  /\ runner' = "waiting" /\ loop' = Free
  /\ UNCHANGED <<rows, cancelled>> /\ RunnerOnly

RunnerLeavesGraph ==
  /\ Within(InRunner) /\ runner = "dag"
  /\ \/ /\ stopRequested[Job] \/ SomeFailed
        /\ Unwind(IF stopRequested[Job] THEN "cancelling" ELSE "failing")
     \/ /\ ~stopRequested[Job] /\ ~SomeFailed /\ AllCompleted
        /\ runner' = "final" /\ loop' = Free
        /\ UNCHANGED <<cancelled, worker>>
  /\ UNCHANGED rows /\ RunnerOnly

Exited(t) == Pc(run, t) = "exited"
Results   == {worker[run][t].result : t \in {u \in Tasks : Exited(u)}}

\* asyncio.wait returns: the results of the finished workers are looked at in
\* the arbitrary order of a set, and the first bad one decides.
RunnerCollects ==
  /\ Wake /\ runner = "waiting" /\ ~cancelled /\ Results # {}
  /\ \/ "cancelled" \in Results /\ Unwind("cancelling")
     \/ Results \cap {"failed", "error"} # {} /\ Unwind("failing")
     \/ /\ Results = {"done"}
        /\ worker' = [worker EXCEPT ![run] = [t \in Tasks |-> IF Exited(t) THEN Idle ELSE @[t]]]
        /\ runner' = "dag" /\ loop' = InRunner /\ UNCHANGED cancelled
  /\ UNCHANGED rows /\ RunnerOnly

-----------------------------------------------------------------------------
(* Finalization, acceptance and the two exception handlers of run_job.     *)

RunnerFinalizes ==
  /\ Wake /\ runner = "final" /\ ~cancelled
  /\ runner' = "building" /\ loop' = Free
  /\ UNCHANGED <<rows, cancelled, worker>> /\ RunnerOnly

\* From here to publication runs under finish_before_cancel: a cancellation
\* waits until the acceptance has either failed or been published.
RunnerAccepts ==
  /\ Wake /\ runner = "building"
  /\ Store!PrepareAcceptedJob(Job, "candidate",
       IF autoApply[Job] THEN "requested" ELSE "not-requested", "dossier")
  /\ runner' = "accepted" /\ loop' = InRunner
  /\ UNCHANGED <<cancelled, worker>> /\ RunnerOnly

RunnerCannotBuild ==
  /\ Wake /\ runner = "building"
  /\ Unwind(IF cancelled THEN "cancelling" ELSE "failing")
  /\ UNCHANGED rows /\ RunnerOnly

\* _resume_accepted_job, after an acceptance and after a restart alike.
RunnerResumesAccepted ==
  /\ Within(InRunner) /\ runner = "accepted"
  /\ \/ /\ intent[Job] = "not-requested"
        /\ Store!PublishCompletedJob(Job, "dossier", "not-requested")
        /\ runner' = "published"
     \/ /\ intent[Job] = "requested" /\ phase[Job] = "accepted"
        /\ Store!MarkApplyStarted(Job, "candidate")
        /\ runner' = "applying"
     \/ /\ intent[Job] = "requested" /\ phase[Job] = "applying"
        /\ UNCHANGED rows
        /\ runner' = "applying"
  /\ loop' = Free
  /\ UNCHANGED <<cancelled, worker>> /\ RunnerOnly

RunnerReconciles ==
  /\ Wake /\ runner = "applying" /\ RepoFree
  /\ \E o \in {"applied", "skipped"} : Store!PublishCompletedJob(Job, "dossier", o)
  /\ runner' = "published"
  /\ UNCHANGED <<cancelled, worker, loop>> /\ RunnerOnly

\* Accepted work is never regressed: the handlers leave the job as it is for
\* the next daemon start.
RunnerCannotReconcile ==
  /\ Wake /\ runner = "applying" /\ ReconcileMayFail
  /\ runner' = "none" /\ cancelled' = FALSE
  /\ UNCHANGED <<rows, worker, loop>> /\ RunnerOnly

\* Cleanup of the worktrees is housekeeping; cancelled or not, the runner ends.
RunnerEnds ==
  /\ Wake /\ runner = "published"
  /\ runner' = "none" /\ cancelled' = FALSE
  /\ UNCHANGED <<rows, worker, loop>> /\ RunnerOnly

\* The runner's own agents and gates may end as cancelled without a cancellation.
RunnerCancelled ==
  /\ Wake /\ runner \in {"preparing", "planning", "waiting", "final"}
  /\ cancelled \/ (scenario.spurious /\ runner \in {"planning", "final"})
  /\ Unwind("cancelling")
  /\ UNCHANGED rows /\ RunnerOnly

\* A second cancellation reaches the handler while it waits in _cancel_active: gather passes
\* it on to the workers and, once all of them are done, raises it, so that run_job ends with
\* the rest of the handler undone.
RunnerEscapes ==
  /\ Wake /\ cancelled /\ Unwinding /\ Quiet(run)
  /\ runner' = "none" /\ cancelled' = FALSE
  /\ UNCHANGED <<rows, worker, loop>> /\ RunnerOnly

\* Mutant: the handler goes on without waiting for the workers it cancelled.
HandlerResumes_AtOnce == loop = InRunner \/ (loop = Free /\ ~cancelled)
HandlerResumes == loop = InRunner \/ (loop = Free /\ ~cancelled /\ Quiet(run))

RunnerSettles ==
  /\ daemon # "down" /\ Unwinding /\ HandlerResumes
  /\ \/ /\ runner = "cancelling" /\ stopRequested[Job]
        /\ Store!SettleInflight(Job, "stopped", "cancelled")
        /\ runner' = "stopped"
     \/ /\ runner = "cancelling" /\ ~stopRequested[Job]
        /\ Store!SettleInflight(Job, "pending", "cancelled")
        /\ runner' = "queued"
     \/ /\ runner = "failing"
        /\ Store!SettleInflight(Job, "failed", "failed")
        /\ runner' = "failed"
  /\ loop' = InRunner
  /\ UNCHANGED <<cancelled, worker>> /\ RunnerOnly

RunnerCloses ==
  /\ Within(InRunner) /\ runner \in {"stopped", "queued", "failed"}
  /\ Store!UpdateJob(Job, runner, stopRequested[Job], autoApply[Job])
  /\ runner' = "none" /\ cancelled' = FALSE /\ loop' = Free
  /\ UNCHANGED worker /\ RunnerOnly

-----------------------------------------------------------------------------
(* _run_task_with_slot and _integrate_task: one worker coroutine.          *)

Goto(r, t, pc) ==
  /\ worker' = [worker EXCEPT ![r][t].pc = pc]
  /\ loop' = IF pc \in {"head", "starting", "again", "passed"} THEN InWorker(r, t) ELSE Free

Exit(r, t, how) ==
  /\ worker' = [worker EXCEPT ![r][t].pc = "exited", ![r][t].result = how]
  /\ loop' = Free

At(r, t, pc)     == Wake /\ Pc(r, t) = pc /\ ~worker[r][t].hit
Inside(r, t, pc) == Within(InWorker(r, t)) /\ Pc(r, t) = pc
MyNumber(r, t)   == worker[r][t].n
FinishAs(r, t, how) == Store!FinishAttempt(Job, t, MyNumber(r, t), how)

\* Slot, locks and worktree are there.
WorkerPrepared(r, t) ==
  /\ At(r, t, "preparing") /\ Goto(r, t, "head")
  /\ UNCHANGED <<rows, attempts>> /\ WorkerOnly

\* The head of the attempt loop: budget first, then the stop request.
WorkerBegins(r, t) ==
  /\ Inside(r, t, "head") /\ worker[r][t].left > 0 /\ ~stopRequested[Job]
  /\ Store!UpdateTask(Job, t, "running")
  /\ attempts' = [attempts EXCEPT ![t] = MyNumber(r, t)]
  /\ Goto(r, t, "starting") /\ WorkerOnly

WorkerSeesStop(r, t) ==
  /\ Inside(r, t, "head") /\ worker[r][t].left > 0 /\ stopRequested[Job]
  /\ Exit(r, t, "cancelled")
  /\ UNCHANGED <<rows, attempts>> /\ WorkerOnly

WorkerExhausted(r, t) ==
  /\ Inside(r, t, "head") /\ worker[r][t].left = 0
  /\ Store!UpdateTask(Job, t, "failed")
  /\ Exit(r, t, "failed") /\ UNCHANGED attempts /\ WorkerOnly

WorkerStartsAttempt(r, t) ==
  /\ Inside(r, t, "starting")
  /\ Store!StartAttempt(Job, t, MyNumber(r, t))
  /\ Goto(r, t, "agent") /\ UNCHANGED attempts /\ WorkerOnly

\* The agent, the gates, the reviewer or the integration say no: the attempt
\* has failed and the task goes back to pending for the next one.
WorkerRejected(r, t) ==
  /\ \E pc \in {"agent", "gates", "reviewing", "merging"} : At(r, t, pc)
  /\ FinishAs(r, t, "failed")
  /\ Goto(r, t, "again") /\ UNCHANGED attempts /\ WorkerOnly

WorkerTriesAgain(r, t) ==
  /\ Inside(r, t, "again")
  /\ Store!UpdateTask(Job, t, "pending")
  /\ worker' = [worker EXCEPT ![r][t].pc = "head", ![r][t].n = @ + 1, ![r][t].left = @ - 1]
  /\ UNCHANGED <<attempts, loop>> /\ WorkerOnly

WorkerAgentDone(r, t) ==
  /\ At(r, t, "agent") /\ Goto(r, t, "gates")
  /\ UNCHANGED <<rows, attempts>> /\ WorkerOnly

WorkerGatesPass(r, t) ==
  /\ At(r, t, "gates")
  /\ Store!UpdateTask(Job, t, "reviewing")
  /\ Goto(r, t, "reviewing") /\ UNCHANGED attempts /\ WorkerOnly

WorkerReviewPasses(r, t) ==
  /\ At(r, t, "reviewing") /\ Goto(r, t, "waiting")
  /\ UNCHANGED <<rows, attempts>> /\ WorkerOnly

WorkerMerges(r, t) ==
  /\ At(r, t, "waiting") /\ RepoFree
  /\ Store!UpdateTask(Job, t, "integrating")
  /\ Goto(r, t, "merging") /\ UNCHANGED attempts /\ WorkerOnly

WorkerMerged(r, t) ==
  /\ At(r, t, "merging")
  /\ FinishAs(r, t, "passed")
  /\ Goto(r, t, "passed") /\ UNCHANGED attempts /\ WorkerOnly

WorkerCompletes(r, t) ==
  /\ Inside(r, t, "passed")
  /\ Store!UpdateTask(Job, t, "completed")
  /\ Goto(r, t, "cleanup") /\ UNCHANGED attempts /\ WorkerOnly

WorkerCleansUp(r, t) ==
  /\ At(r, t, "cleanup") /\ Exit(r, t, "done")
  /\ UNCHANGED <<rows, attempts>> /\ WorkerOnly

\* A Git error, the last one while the head before the merge is read, or the lack of any
\* worker leaves the task and its attempt as they are; the runner's handler settles them.
WorkerRaises(r, t) ==
  /\ \/ \E pc \in {"preparing", "gates", "reviewing", "merging"} : At(r, t, pc)
     \/ Inside(r, t, "head") /\ worker[r][t].left > 0 /\ ~stopRequested[Job]
  /\ Exit(r, t, "error")
  /\ UNCHANGED <<rows, attempts>> /\ WorkerOnly

\* During an agent's turn the CancelledError handler closes the attempt; an
\* attempt that somebody else has closed meanwhile makes that call raise.
WorkerCancelled(r, t) ==
  /\ Wake
  /\ worker[r][t].hit \/ (scenario.spurious /\ Pc(r, t) \in {"agent", "gates", "reviewing"})
  /\ \/ /\ Pc(r, t) \in {"preparing", "gates", "reviewing", "waiting", "cleanup"}
              \cup (IF worker[r][t].hit THEN {"merging"} ELSE {})
        /\ Exit(r, t, "cancelled") /\ UNCHANGED rows
     \/ /\ Pc(r, t) = "agent"
        /\ IF attemptState[Job][t][MyNumber(r, t)] = "running"
             THEN FinishAs(r, t, "cancelled") /\ Exit(r, t, "cancelled")
             ELSE UNCHANGED rows /\ Exit(r, t, "error")
  /\ UNCHANGED attempts /\ WorkerOnly

\* An interrupted integration rolls back under finish_before_cancel, which raises what
\* interrupted it, or the cancellation that arrived meanwhile.
WorkerInterrupted(r, t) ==
  /\ Wake /\ Pc(r, t) = "merging"
  /\ \E how \in (IF worker[r][t].hit THEN {"cancelled"}
                 ELSE {"error"} \cup (IF scenario.spurious THEN {"cancelled"} ELSE {})) :
       worker' = [worker EXCEPT ![r][t].pc = "rollback", ![r][t].result = how]
  /\ UNCHANGED <<rows, attempts, loop>> /\ WorkerOnly

WorkerRolledBack(r, t) ==
  /\ Wake /\ Pc(r, t) = "rollback"
  /\ Exit(r, t, IF worker[r][t].hit \/ worker[r][t].result = "cancelled" THEN "cancelled" ELSE "error")
  /\ UNCHANGED <<rows, attempts>> /\ WorkerOnly

-----------------------------------------------------------------------------
Client == Submit \/ Stop \/ Resume \/ ResumeTimesOut
Request == StopSettles \/ StopCloses \/ ResumeWakes
Daemon == ShutdownEnds \/ Start
RunnerStep ==
  \/ RunnerStarts \/ RunnerPrepared \/ RunnerPlans \/ RunnerStoresPlan \/ RunnerHasPlan \/ RunnerFails
  \/ RunnerSchedules \/ RunnerLeavesGraph \/ RunnerCollects
  \/ RunnerFinalizes \/ RunnerAccepts \/ RunnerCannotBuild \/ RunnerResumesAccepted
  \/ RunnerReconciles \/ RunnerCannotReconcile \/ RunnerEnds
  \/ RunnerCancelled \/ RunnerEscapes \/ RunnerSettles \/ RunnerCloses
WorkerStep(r, t) ==
  \/ WorkerPrepared(r, t) \/ WorkerBegins(r, t) \/ WorkerSeesStop(r, t)
  \/ WorkerExhausted(r, t) \/ WorkerStartsAttempt(r, t) \/ WorkerRejected(r, t)
  \/ WorkerTriesAgain(r, t) \/ WorkerAgentDone(r, t) \/ WorkerGatesPass(r, t)
  \/ WorkerReviewPasses(r, t) \/ WorkerMerges(r, t) \/ WorkerMerged(r, t)
  \/ WorkerCompletes(r, t) \/ WorkerCleansUp(r, t) \/ WorkerRaises(r, t)
  \/ WorkerCancelled(r, t) \/ WorkerInterrupted(r, t) \/ WorkerRolledBack(r, t)

Next == \/ Client \/ Request \/ Shutdown \/ Crash \/ Daemon \/ RunnerStep
        \/ \E r \in Runs, t \in Tasks : WorkerStep(r, t)

\* Agents, gates and Git commands run under timeouts, so every await ends; the
\* service manager restarts the daemon.  Clients and crashes owe nothing.
Fairness ==
  /\ WF_vars(Request) /\ WF_vars(Daemon) /\ WF_vars(RunnerStep)
  /\ \A r \in Runs, t \in Tasks : WF_vars(WorkerStep(r, t))

Spec == Init /\ [][Next]_vars /\ Fairness

-----------------------------------------------------------------------------
(* Safety.                                                                 *)

\* Nothing but the removal of a completed task's worktree is going on.
AtRest(r) == \A t \in Tasks : Pc(r, t) \in {"none", "exited", "cleanup"}

\* Work on a job is over when the job is settled for its user (stopped, failed, completed, or
\* back in the queue with no runner), and already when its candidate is accepted: no coroutine
\* of any run changes the integration branch or a worktree the candidate was built from any
\* more, whenever stops, failures and restarts come, also while the handler of an earlier one
\* is waiting for the workers (_cancel_active, orchestrator_integration.py:549).
OrderlyEnd ==
  \/ State \in TerminalJobStates \/ (State = "queued" /\ runner = "none")
  \/ phase[Job] # "none"
  => \A r \in Runs : AtRest(r)

\* A task has only ever been started after all of its dependencies were
\* durably completed, whatever was stopped, failed, crashed and resumed since
\* (_execute_dag, orchestrator.py:339).
DependenciesFirst ==
  \A t \in Tasks : taskState[Job][t] \in InflightTaskStates \cup {"completed"} =>
    deps[t] \subseteq Done

\* A transaction refuses a call when its tests or the validator do: what a call needs, the
\* validator reading the rows that it would leave.
Passes(state, stop, tasks, owners, acceptance) ==
  SnapshotValid(state, {tasks[t] : t \in {u \in Tasks : tasks[u] # Absent}}, stop,
                {tasks[t] : t \in owners}, acceptance)
Owners == {t \in Tasks : Store!HasRunningAttempt(Job, t)}

TakesJob(s, stop) ==
  /\ State # Absent /\ s \in JobTransitions[State]
  /\ Passes(s, stop, taskState[Job], Owners, phase[Job])
TakesTask(t, s) ==
  /\ phase[Job] = "none" /\ InPlan(t) /\ s \in TaskTransitions[taskState[Job][t]]
  /\ s = "completed" => t \notin Owners
  /\ Passes(Store!ActivatedJobState(Job, s), stopRequested[Job],
            [taskState[Job] EXCEPT ![t] = s], Owners, phase[Job])
TakesSettling(s) ==
  /\ State # Absent /\ phase[Job] = "none"
  /\ Passes(State, stopRequested[Job], Store!MovedTasks(Job, InflightTaskStates, s), {}, phase[Job])
TakesOutcome(o) ==
  /\ dossier[Job] = "dossier" /\ acceptedCommit[Job] = "candidate"
  /\ Store!OutcomeFits(Job, o) /\ ~published[Job] /\ "completed" \in JobTransitions[State]
  /\ Passes("completed", FALSE, taskState[Job], Owners, "published")

\* The calls of the coroutine of a task, from where it is.
WorkerCallsFit(r, t) ==
  LET pc == Pc(r, t) IN
  /\ pc = "head" /\ worker[r][t].left = 0 => TakesTask(t, "failed")
  /\ pc = "head" /\ worker[r][t].left > 0 /\ ~stopRequested[Job] => TakesTask(t, "running")
  /\ pc = "starting" => /\ Store!MayStart(Job, t, MyNumber(r, t))
                        /\ Passes(State, stopRequested[Job], taskState[Job], Owners \cup {t}, phase[Job])
  /\ pc \in {"agent", "gates", "reviewing", "waiting", "merging"} =>
       attemptState[Job][t][MyNumber(r, t)] = "running"
  /\ pc = "gates" => TakesTask(t, "reviewing")
  /\ pc = "waiting" => TakesTask(t, "integrating")
  /\ pc = "passed" => TakesTask(t, "completed")
  /\ pc = "again" => TakesTask(t, "pending")

\* The calls of the runner.
RunnerCallsFit ==
  /\ runner = "preparing" /\ ~cancelled =>
       TakesJob(IF \A t \in Tasks : ~InPlan(t) THEN "planning" ELSE "running", stopRequested[Job])
  /\ runner = "answered" =>
       State \in {"queued", "planning"} /\ phase[Job] = "none" /\ \A t \in Tasks : ~InPlan(t)
  /\ runner = "planned" => TakesJob("running", stopRequested[Job])
  /\ runner = "building" => /\ phase[Job] = "none" /\ State \in {"running", "stopping"}
                            /\ Passes(State, FALSE, taskState[Job], Owners, "accepted")
  /\ runner = "accepted" /\ intent[Job] = "not-requested" => TakesOutcome("not-requested")
  /\ runner = "accepted" /\ intent[Job] = "requested" =>
       acceptedCommit[Job] = "candidate" /\ phase[Job] \in {"accepted", "applying"}
  /\ runner = "applying" => \A o \in {"applied", "skipped"} : TakesOutcome(o)
  /\ Unwinding /\ HandlerResumes =>
       TakesSettling(IF runner = "failing" THEN "failed"
                     ELSE IF stopRequested[Job] THEN "stopped" ELSE "pending")
  /\ runner \in {"stopped", "queued", "failed"} => TakesJob(runner, stopRequested[Job])

\* A stop of accepted work whose reconciliation has raised finds no runner to cancel and tries
\* to settle the job itself: the store refuses, and the request, already recorded, raises.
RefusedStop == Accepted /\ runner = "none" /\ State = "stopping"

\* The calls of a request and of a restart.
DaemonCallsFit ==
  /\ loop = InStop => TakesSettling("stopped") \/ RefusedStop
  /\ loop = InClose => TakesJob("stopped", stopRequested[Job])
  /\ State \notin TerminalJobStates \cup {Absent, "stopping"} => TakesJob("stopping", TRUE)
  /\ Resumable => phase[Job] = "none"
  /\ daemon = "down" => Store!RecoveryChecks(Job)

\* Wherever a coroutine or a request is about to call the store, the store accepts the call:
\* no transition, attempt number, open attempt or snapshot is refused with an exception that
\* the caller would not survive (db.py:186, 267; state_machine.py:113).  The one exception is
\* RefusedStop (daemon.py:254, db_recovery.py:79), which leaves the accepted work untouched
\* for the next restart.
RefusesOnlyLateStops ==
  (\A r \in Runs, t \in Tasks : WorkerCallsFit(r, t)) /\ RunnerCallsFit /\ DaemonCallsFit

\* Whatever the planner answers, the scheduler always has something to do: the "task
\* graph stalled" branch (orchestrator.py:354) is never reached, not even after the
\* resets of stop, failure, crash and resume.
DagNeverStalls ==
  runner = "dag" /\ ~stopRequested[Job] /\ ~SomeFailed /\ ~AllCompleted =>
    Ready # {} \/ ~Quiet(run)

\* The validation accepts exactly the plans that can be carried out: a graph that it
\* lets through has no cycle and no unknown dependency, and none that could be done is
\* thrown away for the fallback task (Planner.validate, planner.py:131).
ValidationIsExact ==
  runner = "answered" /\ answer # None =>
    (Accepts(answer, scenario.maxTasks) <=>
       /\ Executable(answer) /\ Cardinality(answer.tasks) <= scenario.maxTasks
       /\ answer.fields /\ ~answer.repeated)

\* An explicit stop is durable: only the user's resume, or an acceptance that was
\* already under way, takes the request back, never a crash or a restart.
StopIsSticky ==
  [][stopRequested[Job] /\ ~stopRequested'[Job] =>
       \/ State = "stopped" /\ State' = "queued" /\ (resumes' > resumes \/ resuming # 0)
       \/ phase'[Job] # "none"]_vars

-----------------------------------------------------------------------------
(* Liveness.                                                               *)

\* A requested stop settles: the job becomes stopped, or its acceptance wins
\* (OPERATOR_GUIDE.md:168: in stopping, bounded work is settling).
StopSettlesDown == State = "stopping" ~> State \in {"stopped", "completed"}

\* Every submitted job comes to an end, through failures, crashes and restarts.
JobEnds == State # Absent ~> State \in TerminalJobStates

\* Accepted work is published, even if the daemon dies on the way or a late stop
\* arrives (HOW_IT_WORKS.md, section 28).
AcceptedCompletes == Accepted ~> State = "completed"
=============================================================================
