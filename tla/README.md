# A verification of Omarchy-YOLO

Omarchy-YOLO is a daemon that turns a goal into a plan of tasks, lets coding agents work on them in separate Git
worktrees, checks what they did with gates and reviewers, merges it into an integration branch and, if asked to,
fast-forwards the user's branch to the accepted result. What can go wrong in it is seldom in one function: it is in the
order in which clients, coroutines, agents, Git commands, the user and crashes get their turns. The modules here model
these orders. File and line numbers are relative to `src/omarchy_yolo/` of the repository unless they name another path.

## 1. The system

| Component | Where | State it keeps | Operations | Meets others through |
|---|---|---|---|---|
| Durable store | `db*.py`, `state_machine.py`, `model.py` | rows of jobs, tasks, attempts and dossiers | one transaction per method; bulk recovery | every other component calls it |
| Daemon | `daemon.py` | live runners, the socket, a singleton lock | start, submit, stop, resume, shutdown | store, cancels and awaits runners, other daemons |
| Runner | `orchestrator.py` | its worker coroutines, the phase it is in | plan, schedule, collect, finalize, accept, unwind | store, workers, runtime, Git |
| Worker | `orchestrator_task.py` | attempt number, attempts left | attempt, gates, review, integrate, clean up | store, integration, runtime, agents |
| Task integration | `orchestrator_integration.py`, `git.py` | integration branch and worktree, merge lock | merge, resolve, gates, repair, roll back | agents, gates, Git |
| Final review | `orchestrator_integration.py`, `reviewer.py`, `review_source.py` | cycle, verdicts | gates, shards, syntheses, repair | agents, Git, acceptance |
| Source application | `git.py`, `orchestrator.py` | the user's checkout, the acceptance journal | reconcile, publish | the user, the store |
| Shared runtime | `runtime.py` | worker slots, one lock per repository | `worker_slot`, `repo_lock` | all jobs |
| Planner, task review | `planner.py`, `reviewer.py` | none | plan, validate, review | agents |
| Processes, gates | `process.py`, `gates.py` | process group, pumps of its pipes | run, drain, terminate | the operating system, cancelled by workers and runners |
| Cancellation helpers | `util.py` | a held back cancellation | `finish_before_cancel`, `atomic_to_thread` | everything that must not be cut short |
| Schema, migrations | `db_core.py`, `db_schema_contract.py` | tables, schema version, backups | create, migrate, verify | before everything else, in every process that opens the store |
| Provenance | `provenance.py`, `dossier_cli.py` | none | build and verify a dossier | store |
| Agents, prompts, configuration, sandbox, clients, installation | the other files | none that changes | | |

What is hard in it:

* **Interleaving.** Everything in the daemon runs on one asyncio loop: a coroutine is undisturbed between two awaits, and
  at an await anything may happen, a cancellation of itself included. A stop may meet a runner that has not started, is
  waiting, is inside a part that must finish, or is already unwinding.
* **Crashes.** A crash falls between two transactions, between two Git commands, between two statements of a script, or between
  the two worlds, SQLite and Git, which no transaction spans.
* **Others in the same tree.** Agents change the worktrees as they like; the user works in the source checkout.
* **Processes that do not end.** A command may ignore signals, and its descendants may keep its pipes; a timeout, a stop, a failing
  pump and the drain may all terminate it at once.
* **Several processes.** Daemons and tools open one database before any of them has the lock.
* **Cancellation of resources.** A semaphore unit or a lock is given to a coroutine that is just being cancelled.
* **Ending.** Attempts, review cycles and resolution turns are bounded; dependencies and locks must not block for ever.

What makes each component correct:

* store: rows stay consistent through every order of legal calls, recovery never refuses them, an acceptance is write-once,
  history is append-only;
* daemon, runner, workers: a settled job is quiet, the store refuses no call but the late stop of accepted work, dependencies come first,
  stops and jobs end, accepted work is published;
* integration: each integration is atomic, completed work is in the branch and stays there, only verified commits remain;
* final review: only a candidate that passed everything, as it is, is accepted, and the audit ends;
* source application: the source is never rewritten, only the job's branch moves, the published verdict is true;
* runtime and cancellation helpers: no slot or lock is lost or given twice, Git threads started inside the lock of a repository exclude
  each other, no cancellation is lost, the numbers reported are exact, waits end;
* planner: exactly the executable plans are accepted;
* processes and gates: nobody survives a termination, nothing passes that was not proved, every run ends;
* schema: the version is true, upgrades are saved first, a daemon comes up again after any crash.

## 2. The modules

| Module | Stands for | Built on |
|---|---|---|
| `StateMachine` | states, transition tables and the snapshot validator (`state_machine.py`) | |
| `AcceptanceLedger` | abstract: what the acceptance journal promises, a write-once decision and then a write-once result | |
| `JobStore` | the transactions of the store | `StateMachine`, implements `AcceptanceLedger` |
| `JobStoreProofs` | proofs about `JobStore` | |
| `PlanValidation` | `Planner.validate` and its depth-first search | |
| `JobRunner` | daemon, runner and workers of one job, and its plan | composes with `JobStore` (`Store == INSTANCE JobStore`) and `PlanValidation` |
| `JobRunnerProofs` | proofs about `JobRunner` | the theorems of `JobStoreProofs` |
| `AtomicApply` | abstract: the candidate is applied, or refused, in one step | |
| `SourceApply` | the reconciliation command by command, the user, the journal | implements `AtomicApply` |
| `SourceApplyProofs` | proofs about `SourceApply` | |
| `AtomicIntegration` | abstract: a task's work enters the branch in one step | |
| `Integration` | merge, resolution, gates, repair, rollback, recovery | implements `AtomicIntegration` |
| `IntegrationProofs` | proofs about `Integration` | |
| `FinalReview` | the cycles of gates, hierarchical review and repair | |
| `FinalReviewProofs` | proofs about `FinalReview` | |
| `WorkerSlots` | `worker_slot` over `asyncio.Semaphore` | |
| `RepoLocks` | `repo_lock` over `asyncio.Lock` and the table of locks | |
| `CriticalSection` | `finish_before_cancel` and `atomic_to_thread` over a thread | |
| `Coordinator` | the three of them as workers, runners and requests nest them | composes `WorkerSlots`, `RepoLocks` and `CriticalSection` |
| `CoordinatorProofs` | proofs about `Coordinator` and the three it composes | |
| `ProcessRun` | the commands of a gate list or an agent, their processes, pumps, drain and termination | |
| `ProcessRunProofs` | proofs about `ProcessRun` | |
| `Startup` | opening the database, the lock and the socket, by several processes | |
| `StartupProofs` | proofs about `Startup` | |
| `MC...` | the instances TLC checks | the module they are named after |

`PROJECT.json` maps every definition to the lines it stands for.

### How state and actions correspond to the code

**`JobStore`.** The variables are columns: `jobState`, `stopRequested`, `autoApply`, `phase` (`acceptance_phase`),
`acceptedCommit`, `intent`, `outcome` of the jobs table, the states of tasks and attempts, and the dossier row with its
`published` flag. An action is one method of `Database` and its mixins, which hold one lock and one transaction for their
whole body; a method that raises changes nothing, so its refusals are guards. The validators the methods call at their end are
guards too (`ValidRows`). Rows of text, times and the event log are left out: no decision of the store reads them.

**`JobRunner`.** `runner` and `worker[r][t]` say at which await a coroutine is suspended. `loop` names the coroutine that is
inside a segment between two awaits, so that nobody else steps in between while a crash still can: each transaction of a segment is
a step of its own. `cancelled` and `hit` are cancellations not yet delivered. A resumed or restarted job has a new Orchestrator:
workers are indexed by run, so that those an old run left behind are seen. All rows are written through the actions
of `JobStore`, whose guards are therefore what the code may run into: `RefusesOnlyLateStops` states the guard of every call, the validator at its
end included, at the place it is made from, and says that it holds there. Its one exception is `RefusedStop`: after a reconciliation that raised
an accepted job has no runner, a stop records its request, tries to settle the job itself (`daemon.py:254`) and is refused
(`db_recovery.py:79`); `StopSettles` has both outcomes. The job begins with an answer
of the planner, which `PlanValidation` accepts or refuses; a refusal leads to the fallback task. A *scenario* fixes, for a whole behaviour,
what the planner may answer, how many stops, resumes and restarts come, whether a stop may come before the first step of a runner (`early`) or
while it unwinds from an earlier cancellation (`again`), and whether commands end as cancelled of themselves (`spurious`): one run covers several of
them. `_cancel_active` awaits a `gather`, which passes a further cancellation on to the workers and is done only when all of them are: `RunnerEscapes`,
the runner that leaves its handler half-way, has to wait for them too.

**`PlanValidation`.** `Visit` is the recursive `visit()` with its two sets and `Loop` the loop around it. `Search` ties them together as one recursive
function of what is left to visit, what is being visited and what was; an exception ends it. The order of a loop is any fixed order.

**`SourceApply`.** A commit is the set of changes in it and "is an ancestor" is "is a subset". Each Git command of
`reconcile_fast_forward_source` is a step. The user edits, commits, and switches branches between any two of them. `moved` and
`landed` are history variables: what was really done, which the published verdict is compared with; `raced` is the history of a user who
did not keep out of the checkout meanwhile.

**`Integration`.** A commit is the set of the tasks and repairs in it; `verified` collects the commits on which gates passed.
A worker goes through the steps of `_integrate_task` under the merge lock and the repository lock, which are taken and given back
together. `dirty` is what lies in the worktree uncommitted: `"left"` by gates, which run there and may write (`docs/ARCHITECTURE.md:139-147`), or by a
resolver, and `"torn"` by a crash, an interruption or a failure. Nobody cleans up after gates, so what they leave meets the next merge and enters
the next `add -A`. `faults` is what may go wrong in a behaviour besides conflicts, red gates, errors, cancellations and leftovers: `"crash"`; `"git"`,
a command of a rollback that fails, or `finish_merge` that fails after it has committed; `"agent"`, agents that commit or abort the merge
themselves. It is one of `Scenarios` and never changes. A recovery may fail too (`RecoveryFails`), as `merge --abort` does when a merged file was edited.

**`FinalReview`.** A candidate is the number of shards of each changed file. `todo` is what a stage has still to judge and
`findings` what `_review_failure` will make of the verdicts so far. It starts in a worktree in which integrations may have left files. `gated` and `passed` are history: what the gates last passed on
and which verdicts of this audit were a pass.

**`WorkerSlots`, `RepoLocks`, `CriticalSection`, `Coordinator`.** The semaphore and the lock of asyncio are modelled as the library has them: a
release wakes the first waiter that is neither cancelled nor woken already, and one that is cancelled after it was woken hands on what it was given. `CriticalSection` is the
loop of `finish_before_cancel`: a wait behind a shield that each cancellation interrupts and that is taken up again until the thread has ended.
`Coordinator` composes their steps: a worker enters a repository lock only
while it has a slot and leaves the slot only outside of every lock (`_run_task`). A runner takes a slot for planning and for the final audit
(`orchestrator.py:104`, `114`) and the lock before and after, never both. Any number of Git commands run in threads in one visit to a lock, with agents and
gates between them that a cancellation cuts short (`CutShort`), followed by the commands of the rollback. Commits of attempts and of final
repairs run in threads too, in a slot but outside the lock (`orchestrator_task.py:180`, `orchestrator_integration.py:219`), in worktrees of their own:
`under` is the set of threads that were started inside a lock, and exclusion is claimed of them, as `docs/ARCHITECTURE.md:48` claims it of shared
topology. Commands that only read are left out. The merge
lock of one Orchestrator is not there: the workers are of different jobs, for which it is never contended.

**`ProcessRun`.** `leader` and `child` are the processes; the leader forks at most one child, which may ignore SIGTERM, keep or close the pipes,
and leave the group. `known` is the moment asyncio has the exit code, later than the exit and the reaping. `kill[a]` is where each
actor (the run, the drain, each pump) stands in its own call of `_terminate_process_group`. A graceful wait and each poll may end at any time
before the deadline, so time is not counted. `GateRunner.run` is the sequence of commands, an agent's turn is one command.

**`Startup`.** `tables`, `shape` and `version` are what is on disk: which tables exist, which version their columns are of, and `user_version`. A process
walks through `__init__`, one SQLite statement or transaction at a time, then `start`, `serve` and `shutdown`. The dossier command opens the
database and closes it. `halves` says whether processes also die inside the script that creates a new database.

## 3. What is checked

| Run | Instance | What it shows |
|---|---|---|
| `store` | 1 job, 2 tasks, 2 attempt numbers, 2 dossiers | any order of calls and restarts keeps the rows consistent, recoverable and append-only; the journal implements `AcceptanceLedger` |
| `runner` | six scenarios over up to 3 tasks: one task with a stop, a resume and 2 restarts at any await; two tasks with 2 stops and a resume, or a stop and a restart; a join with 2 stops at any moment, before the first step and during the unwinding included, and a resume, or with a restart; any answer of a planner, with commands that end as cancelled; a reconciliation may raise | a settled or accepted job is quiet; of all calls of workers, runners, requests and restarts the store refuses only the stop of accepted work that has lost its runner; a stop request is not lost; dependencies come first; the graph never stalls; exactly the executable plans are accepted |
| `runner_live` | 1 task, 2 attempts, 1 stop, 1 resume, 1 restart | stops settle, jobs end, accepted work is published |
| `apply` | 3 user steps at any time, 2 crashes | the Git commands implement `AtomicApply` and the verdict is true until the user races with them; in any case no branch loses a commit and the verdict is published |
| `integration` | 2 tasks, 2 attempts, 2 runs; no faults, or crashes and failing Git commands, or these and agents that end the merge themselves; gates and resolvers leave files in each | without faults integrations are atomic and verified; completed work is in the branch and stays there; merges start without remains of what was cut short; the lock is given back |
| `final_closed` | 2 files of 1 or 2 shards, 2 repair cycles, 2 agents | only what passed everything, as it is, is accepted; audits end |
| `coordinator` | 2 workers and a runner for 2 slots and one repository, Git threads inside the lock and, of one worker, outside | Git threads started inside the lock exclude each other, no cancellation is lost, statistics are exact, and every wait for a slot, a lock or a thread ends |
| `process` | 2 commands, 2 pumps, 2 cancellations | nobody survives a termination, nothing is left at work, nothing passes unproved, runs end |
| `startup` | 2 daemons and a dossier command, databases of version 0 (new) to 5 (from the future), 1 crash, 1 shutdown | the version is true, upgrades are saved first, the socket leads to the daemon that works, one comes up |

Three runs are expected to find a violation. They state what the repository says of itself, quoted in `PROJECT.json` under "findings":

| Run | Property | What the code does |
|---|---|---|
| `runner_twice` | `StopSettlesDown` | a second stop reaches the handler of the first while it waits for the workers (`orchestrator_integration.py:549`): when they have ended, `gather` raises, the runner ends without settling, and the job stays in `stopping` until another stop or a restart |
| `apply_crash` | `SkippedIsTrue` | crash after the fast-forward, then a branch switch or an edit: "skipped" is published for a candidate that was applied |
| `process_drain` | `CancelledOnlyByCaller` | a drain that gives up on a pipe cancels its pump, whose `CancelledError` is raised before the timeout of the drain is looked at: an uncancelled run ends as cancelled |

The passing runs hold under the complementary assumption where they need one: the liveness of `runner_live` is about a stop that comes when the runner
has started and no other cancellation is under way (`early` and `again` are FALSE), while the safety properties of `runner` hold without that (scenario
`Join`), and `~raced` speaks of a user who keeps out of the checkout while it is being applied; `NeverRewrites` and `Publishes` say what holds without it. The scenario `Answers` lets commands end as cancelled: a worker that sees it unwinds as if
the job had been stopped, and still nothing is left running and no call refused.

The same models show more limits of the code, each by one change (for `OnlyVerifiedRemains` with `verified` kept in every scenario, not
only without faults); the passing runs exclude them by the condition that is changed:

| Change | Property that then fails | What the code does |
|---|---|---|
| `Life` with `early \|-> TRUE` (`runner_live`) | `StopSettlesDown` | a stop before the first step of a runner cancels a coroutine that never runs (`daemon.py:251`): the job stays in `stopping` until a restart or another stop |
| `AtomicApply` without its disjunct `Raced` | `ImplementsAtomicApply` | a branch switch or an edit between check and merge (`git.py:723`) moves a branch the check would have refused |
| `OnlyVerifiedRemains` for scenarios with crashes | `OnlyVerifiedRemains` | a crash between merge and gates leaves the merge in the branch (`orchestrator.py:92` resets to HEAD), although its task is scheduled again |
| the same for scenarios with `"agent"` | `OnlyVerifiedRemains` | a conflict that is given up after the agent has committed (`orchestrator_integration.py:66` only aborts) leaves its merge in the branch |
| `CompletedIsIntegrated` for scenarios with `"agent"` | `CompletedIsIntegrated` | an agent that aborts the merge and succeeds gets its task completed without being merged (`orchestrator_integration.py:162`) |
| `OnlyVerifiedRemains` for scenarios with `"git"` | `OnlyVerifiedRemains` | a `finish_merge` of the last turn that commits and then reports a failure (`orchestrator_integration.py:175`) counts as not resolved; `abort_merge` finds no merge, and the commit stays unverified |
| `StartsClean` with `dirty = {}` | `StartsClean` | files that gates left (`orchestrator_integration.py:69`), and what a resolver wrote beside a conflict that is given up, which `merge --abort` keeps (`orchestrator_integration.py:66`), lie there when the next merge starts; a later `add -A` commits them with it |
| `Verdicts = {"pass", "told", "blank"}` (`final_closed`) | `FailClosed` | a shard that is failed with blank findings only is not counted and the candidate is accepted (`orchestrator_integration.py:297`), although `docs/ARCHITECTURE.md:53` calls the review fail-closed |
| `NobodySurvives` with `kill[a] = "cut"` | `NobodySurvives` | the termination after a timeout or a stop is not shielded (`process.py:163`): another cancellation cuts it short and what ignores SIGTERM stays |
| `NobodySurvives` whenever a run has ended | `NobodySurvives` | a descendant that has closed the pipes survives a command that ends by itself: nothing terminates the group then |
| `ComesUp` without `~halves` | `ComesUp` | a crash inside the script of a new database, or before its version is stamped (`db_core.py:301`), leaves version 0 and current columns, which every later start takes for a legacy database and fails to migrate |

Deadlock is checked in `coordinator`, whose coroutines come and go for ever, and in `startup`, where somebody can always be launched. The other
systems really do stop: a job ends, its bounds are spent, a verdict is published, a command has ended.

### Bounds

* *Two tasks, or three in a join.* Interference is between two workers; the scheduler needs one task with two dependencies to tell
  "some" from "all" of them, and a cycle of three tasks is the first that no pair shows.
* *Two attempt numbers in the store* let an attempt be closed and another one opened. Two dossiers compete for the
  one decision.
* *A stop, a resume and two restarts, each at every await*, for one task; with two tasks or a join, where workers interfere,
  two of the three kinds at a time. One resume already mixes two Orchestrators of a job; two or three stops show one that comes during the
  unwinding of another.
* *Two runs of the integration*: one that is interrupted and one that starts from what it left behind. The theorems have no such bound.
* *Two cycles and two agents in the final review*: a first, a middle and a last cycle; a repair that fails and one that follows it.
  Its stops, crashes and resumes are not bounded.
* *Two workers and a runner for two slots*: one waits for a slot while two are served, and the three meet at one lock, so that a cancelled
  waiter has a successor. Two visits of a worker in one slot let it meet a lock object made anew. Only the other worker commits outside the lock
  (`Committers`). Commands per visit, slots taken one after the other and cancellations are not bounded.
* *Two commands, two pumps, one child, two cancellations*: a second command shows what the first left at work; the run, the drain and
  a pump or two terminate at the same time; the second cancellation falls into the handling of the first. A further
  child would only be killed with the first.
* *Two daemons and one tool, one crash, one shutdown*: a crash may hit any of them anywhere, and after it every state a process can meet
  is again one in which processes start; a second crash would start from one of these. Versions 1 (without a number) to 3 need a migration, 4 is current, 5 from the future.

`SYMMETRY` is used in `store` (tasks, dossiers) and `runner` (the two tasks without dependencies), which check no liveness.

### Fairness

Weak fairness of the steps of the program. Agents, gates and Git commands run under a timeout
(`process.py:160`, `gates.py`, `git.py:137`), store calls are synchronous, and asyncio resumes what is ready: a step that
stays enabled is taken. `systemd/omarchy-yolo.service` restarts a daemon that failed, which is the fairness of `Start` and `Restart` and of
`Launch` in `Startup`. Clients, the user, the processes of a command, crashes, cancellations and faults owe nothing.

Strong fairness is assumed in two places. In `Startup` a migration and the binding of the socket, tried again and again, succeed once: they can fail
only by disk and kernel, and a disk that is full for ever keeps any daemon down. In `Coordinator`, whose visits and slots have no bound on their
commands, somebody who again and again may leave a lock or a slot leaves it once: attempts, turns and commands are counted in the code
(`orchestrator_integration.py:126`, `187`; `orchestrator_task.py:112`).

## 4. What is proved

TLAPS checks these for every value of the constants, from the named assumptions next to the constants.

**The store** (`JobStoreProofs`). The inductive invariant `StoreInv` is the type invariant and, for every job, `JobInv`: the rows pass the
validator (`RowsOK`); attempts that run belong to a task in flight, one each (`AttemptsOK`); work is in flight only in an active
job (`ActiveOK`); phase, outcome, dossier and state of an acceptance agree (`PublicationOK`). None of the checked invariants is inductive
alone: that a bulk update closes the attempts it should needs that each has its task in flight, that recovery succeeds needs all four.
The proof goes by the groups of actions (`JobStep`, `TaskStep`, `LedgerStep`, `RecoverIncomplete`) and by the parts of
`JobInv`. From it follow `TypeCorrect`, `WorkOnlyWhileActiveHolds`, `OneRunningAttemptHolds`, `PublicationAgreesHolds`,
`RecoveryIsTotalHolds`, the action properties `AcceptanceIsFrozenHolds` and `HistoryIsKeptHolds`, and
`StoreImplementsLedger`: every step of the store is a step of the ledger or leaves it unchanged.

**The integration** (`IntegrationProofs`). `IInv` adds to the types who holds the lock (`LockInv`), when a merge can be in progress
(`MergeInv`) and that `preMerge` keeps what was completed and integrated (`KeepInv`). It gives `KeepsCompletedHolds` for every
scenario. `AgentInv`, that a worker past the merge has its task in `head`, needs agents that keep to their prompt:
`CompletedIsIntegratedHolds` is about scenarios without `"agent"`, and the table of limits shows that it must. `WholeInv` says, for
scenarios without faults, what the transaction has made of the verified `preMerge` at each of its steps. From it follow
`OnlyVerifiedRemainsHolds` and `IntegrationIsAtomic`: `Integrated` is the one step that shows, and it is a step of `AtomicIntegration`. `CleanInv` says, through crashes and failing rollbacks and as
long as the job runs, that the index has unresolved files only in a merge and that something torn lies in the worktree only while the owner of the locks
is repairing: `StartsCleanHolds`.

**The final review** (`FinalReviewProofs`). `GateInv` says that gates start with nothing torn in the worktree and that every later stage of an audit follows
gates that passed on its commit: `GatedAsAcceptedHolds`, with no assumption on reviewers. `AuditInv` says for each stage which
verdicts have been passes: `FailClosedHolds` assumes `"blank" \notin Verdicts`, and the table of limits shows that it must.

**Source application** (`SourceApplyProofs`). `JournalInv` ties each step to a phase of the journal, `LandedInv` keeps the history of the base
branch, `SeenInv` says that what reconciliation has looked at is still so unless the user raced with it, and `PublishedInv`
that a verdict stays true afterwards. They give `VerdictIsTrueHolds`, `NeverRewritesHolds` and `ApplyIsAtomic`, the refinement of
`AtomicApply`.

**Processes** (`ProcessRunProofs`). `KillInv`: once a group was killed or not found nobody joins it, and a termination that is over has seen the
leader reaped. It needs no more for `NobodySurvivesHolds`. `ActorInv` (who terminates is in the part of the code that waits for it) and `DrainInv`
(the drain is over only with the pumps) give `NothingIsLeftBehindHolds`; `NothingPassesUnprovenHolds` adds `PassedInv`.

**Startup** (`StartupProofs`). `VersionIsTrue` is inductive only with `UnversionedInv`, what a database without a version may look like, and `StageInv`, what a
process may still believe that has read the database before another one migrated it. `HolderInv`: only the holder of the lock goes near the socket.
They give `VersionIsTrueHolds`, `UpgradesAreSavedHolds` and `SocketLeadsToTheWorkerHolds`.

**The shared runtime** (`CoordinatorProofs`). The invariant `CoordinatorInv` is about every client at once and has a part for each layer. `SlotInv`: units
are conserved, the counts are exact, and the queue of the semaphore holds coroutines that wait, each once. `LockInv`: whoever is not idle has a lock
object, of those inside one there is one, and `WaitersAreCounted` keeps a lock in the table as long as anybody is at it, so that all who are at a
repository are at one object (`OneLockPerRepository`). `SectionInv`: a critical operation is one of somebody who has a slot or is inside a lock, and a thread
that was started inside a lock is still at work there. `ToldInv`: a worker cancelled in a critical
operation is on its way out. It is proved layer by layer over the composed steps, and gives `TypeCorrect`, `MutualExclusionHolds`, `StatisticsAreExactHolds`
and `CancellationIsKeptHolds`. It needs finitely many workers, because a count of waiters is the cardinality of a set. What the queues
do when one leaves from their middle (`RemoveFirst`) is a lemma on sequences.

**The job** (`JobRunnerProofs`). The rows of a job are those of `JobStore` with one job in it. The instance `Rows` of `JobStoreProofs` brings its
theorems along: the lemmas `Same...` show that each transaction means the same in both instances, so `StoreInv` holds of the rows, and
`...Does` say what each transaction writes. The invariant has layers, each inductive over those before it:

* `Base`: types, `StoreInv`, who may be inside a segment (`LoopOK`), and the budget of attempts (`BudgetOK`): a run adds at most `MaxAttempts` attempts to
  each task, so every number that is asked for exists. It gives `TypeCorrect` and `UsesTheStore`, the refinement: a job is a behaviour of the store.
* `StopOK`: under a stop request the runner has been cancelled or is unwinding, until the job is stopped: `StopIsStickyHolds`.
* `DependOK`: a live coroutine works on a planned task whose dependencies are completed, and completed tasks stay so, which is
  `HistoryIsKept` of the store: `DependenciesFirstHolds`.
* `PhaseOK` ties the runner to the phase of the acceptance, `InnerOK` says that one coroutine at a time is within a segment.
* `Orderly`: what the rows say of a task while its coroutine
  is at a place (`WorkerOK`), that only the current runner has live coroutines, only while the job is active (`LiveOK`), that unused attempt numbers
  have no row, that settling and acceptance come after the workers (`SettledOK`), and which states the job has at each place of the runner (`StateOK`).

`OrderInv`, all of them, gives `OrderlyEndHolds`. `RefusesOnlyLateStopsHolds` is about each call of the store where it is made. It takes `CallInv`: `OrderInv`, the
invariant of the scheduler below, and two facts that must outlast an await or a crash until the call that relies on them: the runner finalizes completed
plans only (`FinalOK`), and a job about to be closed has no task in flight (`CloseOK`). `PassesMeans` says what the validator of the snapshot asks of the rows, and
`TaskCalls`, `JobCalls`, `SettlingCalls` and `OutcomeCalls` what each kind of call needs. Both hold whenever stops come, also during the unwinding of an earlier one. Steps of the daemon and of the runner are classified once by what they do to the coroutines (`ControlKinds`) and once by what
they do to the rows under live ones (`RowsUnder`); a step of a worker changes its own record and the rows of its task only (`WorkerWrites`), so
the others keep what was true of them. The assumptions: bounds are natural numbers, the tasks of a plan are finitely many tasks, the fallback is one of them, and
`None` is no value of the store.

**The validation of plans** (also `JobRunnerProofs`). `SearchIsExact` is about every finite graph, which takes an induction over data that the
prover cannot instantiate as a principle. It is done by hand instead, over a weight of the places of the search (nodes off the path, then the
nodes left in the loop), as the least place of a set without one: `SmallestNumber`, from the well-foundedness of `<` on the naturals, and `PlaceInduction`.
What a place needs are findings of lighter ones (`LoopIsLocal`), so partial solutions of the recursion agree and extend (`SearchExtends`), and
the recursive function is a solution (`SearchIs`). `LoopRight` is the argument for the algorithm: visited nodes are closed under
dependencies and free of cycles (`Settled`), nodes being visited form a path (`OnPath`), so an edge back into the path is a cycle. With the
tests before the search, `AcceptsIsExact` and `ValidationIsExactHolds` follow.

**The scheduler never stalls** (also `JobRunnerProofs`, whatever clients do). `PlanOK`: the stored plan can be carried out, from `AcceptsIsExact` on. A set of open tasks
then has one without open dependencies; that this one is ready needs that no task is in a state nobody will take it out of. `HaltedOK`: a
task is `stopped` only until the stop has ended, and no runner takes over before a resume has reset it. `StaleOK`: coroutines of
a run that unwinds have all been cancelled and change no task any more (`LeavingStep`), so the rows a new run has reset stay reset. `OwnedOK`: the rest is in
the hands of the run's own coroutines, or of one whose bad result is about to end the run. It gives `DagNeverStallsHolds`, and `LeftoversWriteNothingHolds`: every live
coroutine is of the current run (`LiveOK`) and, while that run unwinds, writes no task's state. A plan must be finite, as an answer
in JSON is; `PlansAssumption` says so.

Only model-checked is liveness, which needs fairness and ENABLED, out of the prover's reach: `StopSettlesDown`, `JobEnds`, `AcceptedCompletes`, `Publishes`,
`LockIsReleased`, `AuditEnds`, `EveryWaitEnds`, `RunsEnd` and `ComesUp`. Every safety invariant and every action property of a passing run is a theorem.

## 5. What is not modelled

* The **text** of everything: prompts, logs, summaries, reasons, the dossier document and its digests.
* **Several jobs**: they meet in the store, where `JobStore` and its proofs have any number of them, and in the runtime, which `Coordinator`
  models for several. `JobRunner` follows one job.
* **Ignored files, and which files.** Gates may write into the worktree they run in (`docs/ARCHITECTURE.md:139-147`). `Integration` and `FinalReview` let
  them leave files that `git status` shows, which the next `add -A` commits. Ignored files are left out, and so is which files they are: a gate that
  depends on what an earlier gate of the same run wrote is not told apart.
* **Git itself**: a command does what it is documented to do or fails. A merge may conflict or not. Worktree creation, adoption and removal,
  and the settings against hostile repositories, are not modelled.
* **How a diff is split into shards** (`_split_text`): a file has one shard or more.
* **The failover between reviewers** (`_review_task_resilient`) and the choice of a worker: whoever answers, the answer is one of the verdicts
  `JobRunner` lets a review have; when all fail it is a refusal.
* **What is written to logs** and how captured output is cut: a pump reads to the end, or fails.
* **The columns of a version**: a migration adds all of its own or none, and fails where they are.
* **Configuration, sandbox, clients, installation**: nothing in them changes state after start.

## 6. Plan

Done, in this order: the store and its ledger; daemon, runner and workers over the store; source application; integration; final review; the
shared runtime; proofs about store, integration and final review; the cancellation helpers under the shared runtime; the validation of plans
inside the runner; processes and gates; the schema and the start of a daemon; proofs about source application, processes, startup and the
atomicity of integrations; proofs about the shared runtime, about `StartsClean`, and about the life of a job over the theorems of the store.

Next modules:

1. `Worktrees`: creation, adoption and removal of task worktrees and branches around crashes (`git.py`).
2. `TaskReview`: `_review_task_resilient` and `_choose_worker`, for the question whether an agent that is not available is ever asked.

Next runs: two jobs of one repository through `JobRunner`'s boundary with `RepoLocks`; a chain of review shards with synthesis limits.

Next theorems: that the coroutines of one job (`JobRunner`) keep what `Integration` and `Coordinator` assume of their callers, one live
coroutine per task, of which `LeftoversWriteNothingHolds` is a part; and `Integration`'s lock as a client of `RepoLocks`.
