---------------------------- MODULE Integration ----------------------------
(***************************************************************************)
(* The integration branch of one job: the transaction of _integrate_task   *)
(* (merge, conflict resolution by an agent, gates, repair by agents, roll  *)
(* back), the workers that compete for it, and the recovery of the         *)
(* integration worktree when run_job starts again after a stop, a failure  *)
(* or a crash.                                                             *)
(*                                                                         *)
(* A commit is the set of what it contains: tasks, and what else was       *)
(* committed while a task was integrated, repairs and leftovers.  Each     *)
(* step is one Git command, agent turn or gate run; git.py runs Git in     *)
(* threads that are never cut short, so a cancellation falls between two   *)
(* commands or inside an agent's turn or a gate.                           *)
(***************************************************************************)
EXTENDS Naturals, FiniteSets

CONSTANTS Tasks, NoTask,
          MaxAttempts,     \* attempts of a task in one run of the job
          MaxRuns,         \* bound: runs of the job
          Scenarios        \* sets of FaultKinds; one of them may happen in a behaviour

\* "crash": the daemon dies.  "git": a Git command of a rollback fails, or one reports a
\* failure after it has committed.  "agent": an agent does not keep to its prompt and commits
\* or aborts the merge itself.
FaultKinds == {"crash", "git", "agent"}

\* What may be in the worktree without being committed: what gates or a resolver have left
\* there; and what a crash, an interruption or a failure has cut short.
Dirt == {"left", "torn"}

ASSUME TasksAssumption  == NoTask \notin Tasks
ASSUME BoundsAssumption == MaxAttempts \in Nat \ {0} /\ MaxRuns \in Nat \ {0}
ASSUME ScenariosAssumption == Scenarios \subseteq SUBSET FaultKinds

VARIABLES head,        \* HEAD of the integration worktree
          mergeHead,   \* the task of MERGE_HEAD, NoTask without one
          unmerged,    \* the index has unresolved files
          dirty,       \* other changes in the worktree that git status shows
          owner,       \* who holds merge_lock and the repository lock
          preMerge,    \* pre_merge of the owner
          pc,          \* the next step of each worker
          turn,        \* cycle of the loop over agents the owner is in
          left,        \* attempts a task has left
          done,        \* tasks that are durably completed
          job,         \* "running", "ending" (workers are cancelled), "ended", "recovering"
          runs,
          faults,      \* the scenario: what may go wrong in this behaviour
          verified     \* history: of head and preMerge those on which gates have passed,
                       \* kept in the scenario without faults

worktree == <<head, mergeHead, unmerged, dirty>>
vars == <<worktree, owner, preMerge, pc, turn, left, done, job, runs, faults, verified>>

Fix(t)  == <<"fix", t>>
Changes == Tasks \cup {Fix(t) : t \in Tasks}
ASSUME FixAssumption == \A t \in Tasks : Fix(t) \notin Tasks

Transaction == {"merging", "resolving", "finishing", "gates", "repairing", "regates",
                "integrated"}
Steps == Transaction \cup {"working", "waiting", "rollback", "resetting", "exited"}

TypeOK ==
  /\ head \in SUBSET Changes /\ mergeHead \in Tasks \cup {NoTask}
  /\ unmerged \in BOOLEAN /\ dirty \in SUBSET Dirt
  /\ owner \in Tasks \cup {NoTask} /\ preMerge \in SUBSET Changes
  /\ pc \in [Tasks -> Steps] /\ turn \in 1..4 /\ left \in [Tasks -> 0..MaxAttempts]
  /\ done \in SUBSET Tasks /\ job \in {"running", "ending", "ended", "recovering"}
  /\ runs \in 1..MaxRuns /\ faults \in Scenarios /\ verified \in SUBSET SUBSET Changes

Init ==
  /\ head = {} /\ mergeHead = NoTask /\ unmerged = FALSE /\ dirty = {}
  /\ owner = NoTask /\ preMerge = {}
  /\ pc = [t \in Tasks |-> "working"] /\ turn = 1
  /\ left = [t \in Tasks |-> MaxAttempts]
  /\ done = {} /\ job = "running" /\ runs = 1 /\ verified = {}
  /\ faults \in Scenarios

-----------------------------------------------------------------------------
Up == job \in {"running", "ending"}
At(t, step) == Up /\ pc[t] = step
Goto(t, step) == pc' = [pc EXCEPT ![t] = step]
KeepLocks == UNCHANGED <<owner, preMerge>>
KeepJob   == UNCHANGED <<job, runs>>
KeepTask  == UNCHANGED <<left, done>>

Clean == mergeHead' = NoTask /\ unmerged' = FALSE /\ dirty' = {}

\* What an agent or a gate leaves when it is cut short or fails.
Tears == dirty' \in {dirty, dirty \cup {"torn"}}

\* Both locks are given back, and the locals of _integrate_task are gone.
Leave == owner' = NoTask /\ preMerge' = {} /\ turn' = 1

\* The attempt has failed: the next one, or the end of the task and of the job.
Release(t) ==
  /\ Leave
  /\ IF left[t] > 1
       THEN Goto(t, "working") /\ left' = [left EXCEPT ![t] = @ - 1] /\ KeepJob
       ELSE Goto(t, "exited") /\ job' = "ending" /\ UNCHANGED <<left, runs>>
  /\ UNCHANGED done

\* The task has an attempt that passed its own gates and review.
Reviewed(t) ==
  /\ At(t, "working") /\ job = "running" /\ Goto(t, "waiting")
  /\ UNCHANGED <<worktree, turn, verified>> /\ KeepLocks /\ KeepTask /\ KeepJob

\* Mutant: workers do not wait for each other.
LockFree_Always == TRUE
LockFree == owner = NoTask

Acquire(t) ==
  /\ At(t, "waiting") /\ job = "running" /\ LockFree
  /\ owner' = t /\ preMerge' = head /\ Goto(t, "merging")
  /\ UNCHANGED <<worktree, turn, verified>> /\ KeepTask /\ KeepJob

Merge(t) ==
  /\ At(t, "merging")
  /\ \/ head' = head \cup {t} /\ Goto(t, "gates") /\ UNCHANGED <<mergeHead, unmerged, dirty>>
     \/ /\ t \notin head
        /\ mergeHead' = t /\ unmerged' = TRUE /\ Goto(t, "resolving")
        /\ UNCHANGED <<head, dirty>>
  /\ turn' = 1 /\ UNCHANGED verified /\ KeepLocks /\ KeepTask /\ KeepJob

-----------------------------------------------------------------------------
(* _resolve_merge_conflict: two turns of an agent.                         *)

\* Mutant: a turn that failed is not counted.
NextTurn_Same == turn
NextTurn == turn + 1

\* The commit of finish_merge, after add -A; commit_all when the merge has been ended already.
CommitMerge(t) ==
  /\ ~unmerged
  /\ head' = head \cup ({mergeHead} \ {NoTask}) \cup (IF dirty # {} THEN {Fix(t)} ELSE {})
  /\ Clean
FinishMerge(t) == CommitMerge(t) /\ turn' = 1 /\ Goto(t, "gates")

\* finish_merge at the head of a turn; a failure that comes after the commit is swallowed.
AlreadyResolved(t) ==
  /\ At(t, "resolving") /\ turn < 3
  /\ FinishMerge(t) \/ ("git" \in faults /\ CommitMerge(t) /\ UNCHANGED <<pc, turn>>)
  /\ UNCHANGED verified /\ KeepLocks /\ KeepTask /\ KeepJob

\* What a turn of the agent does to the merge, and to anything beside it.
LeavesIt   == UNCHANGED <<head, mergeHead, unmerged>>
Resolves   == unmerged' = FALSE /\ UNCHANGED <<head, mergeHead>>
Commits(t) == "agent" \in faults /\ head' = head \cup {t} /\ mergeHead' = NoTask /\ unmerged' = FALSE
Aborts     == "agent" \in faults /\ mergeHead' = NoTask /\ unmerged' = FALSE /\ UNCHANGED head
Writes     == dirty' \in SUBSET (dirty \cup {"left"})

\* Also when nothing is unresolved any more, if finish_merge has just failed.
ResolverRuns(t) ==
  /\ At(t, "resolving") /\ turn < 3
  /\ LeavesIt \/ Resolves \/ Commits(t) \/ Aborts
  /\ Writes
  /\ \/ Goto(t, "finishing") /\ UNCHANGED turn
     \/ turn' = NextTurn /\ UNCHANGED pc        \* the agent exits with an error
  /\ UNCHANGED verified /\ KeepLocks /\ KeepTask /\ KeepJob

\* finish_merge refuses, fails, or is followed by a command that fails: a turn is spent.
ResolverFinishes(t) ==
  /\ At(t, "finishing")
  /\ \/ FinishMerge(t)
     \/ /\ turn' = NextTurn /\ Goto(t, "resolving")
        /\ UNCHANGED worktree \/ ("git" \in faults /\ CommitMerge(t))
  /\ UNCHANGED verified /\ KeepLocks /\ KeepTask /\ KeepJob

\* git merge --abort, with a merge in progress, undoes what is staged; edits that are not
\* staged and new files stay.
AbortMerge ==
  /\ mergeHead' = NoTask /\ UNCHANGED head
  /\ IF mergeHead = NoTask THEN UNCHANGED <<unmerged, dirty>>
     ELSE unmerged' = FALSE /\ dirty' \in SUBSET dirty

\* Local edits of a merged file make the abort fail: that is Raises.
GivesUp(t) ==
  /\ At(t, "resolving") /\ turn = 3
  /\ AbortMerge /\ Release(t)
  /\ UNCHANGED verified

-----------------------------------------------------------------------------
(* Post-merge gates and _repair_integration: at most three agents.         *)

\* Gates run in the integration worktree, may write into it, and nobody cleans up after them.
GatesWrite == dirty' \in {dirty, dirty \cup {"left"}} /\ UNCHANGED <<head, mergeHead, unmerged>>

GatesPass(t) ==
  /\ At(t, "gates") \/ At(t, "regates")
  /\ GatesWrite
  /\ verified' = (IF faults = {} THEN (verified \cap {preMerge}) \cup {head} ELSE verified)
  /\ Goto(t, "integrated")
  /\ UNCHANGED turn /\ KeepLocks /\ KeepTask /\ KeepJob

\* Gates that stay red after a repair are followed by the roll back at once (RollsBack).
GatesFail(t) ==
  /\ At(t, "gates") /\ Goto(t, "repairing")
  /\ GatesWrite
  /\ UNCHANGED <<turn, verified>> /\ KeepLocks /\ KeepTask /\ KeepJob

MoreAgents == turn < 4

\* Its changes, and whatever else lies there, are committed when the agent exits without an
\* error; one that fails, or whose commit fails, may have changed or committed something too.
RepairerRuns(t) ==
  /\ At(t, "repairing") /\ MoreAgents
  /\ head' \in {head, head \cup {Fix(t)}}
  /\ \/ dirty' = {} /\ Goto(t, "regates") /\ UNCHANGED turn
     \/ Tears /\ turn' = NextTurn /\ UNCHANGED pc
  /\ UNCHANGED <<mergeHead, unmerged, verified>> /\ KeepLocks /\ KeepTask /\ KeepJob

\* Mutant: a merge whose gates stay red is only aborted, not reset.
ResetHard_Abort == head' = head /\ Clean
ResetHard == head' = preMerge /\ Clean

RollsBack(t) ==
  /\ (At(t, "repairing") /\ turn > 1) \/ At(t, "regates")
  /\ ResetHard /\ Release(t)
  /\ UNCHANGED verified

\* Release of the locks, finish_attempt and update_task follow without an await.
Integrated(t) ==
  /\ At(t, "integrated")
  /\ Leave /\ done' = done \cup {t} /\ Goto(t, "exited")
  /\ UNCHANGED <<worktree, left, verified>> /\ KeepJob

-----------------------------------------------------------------------------
(* Interruptions: a cancellation of the job, or an exception of a step.    *)

CancelJob ==
  /\ job = "running" /\ job' = "ending"
  /\ UNCHANGED <<worktree, pc, turn, runs, verified>> /\ KeepLocks /\ KeepTask

\* A merge that failed, timed out or lost its daemon may have left anything behind, a part
\* of the merge without MERGE_HEAD included.
TornMerge(t) == mergeHead' \in {NoTask, t} /\ unmerged' \in BOOLEAN /\ Tears

\* An agent, a gate or a Git command raises.
Raises(t) ==
  /\ \E step \in Transaction : At(t, step)
  /\ IF pc[t] = "merging" THEN TornMerge(t) /\ head' \in {head, head \cup {t}}
     ELSE Tears /\ UNCHANGED <<head, mergeHead, unmerged>>
  /\ Goto(t, "rollback")
  /\ job' = "ending"
  /\ UNCHANGED <<turn, runs, verified>> /\ KeepLocks /\ KeepTask

\* Mutant: a cancelled worker leaves at once, the transaction as it stands.
RollbackStep_None == "exited"
RollbackStep == "rollback"

Cancelled(t) ==
  /\ job = "ending"
  /\ \/ /\ \E step \in Transaction : At(t, step)
        /\ Goto(t, RollbackStep) /\ Tears
        /\ owner' = IF RollbackStep = "exited" THEN NoTask ELSE owner
     \/ /\ At(t, "working") \/ At(t, "waiting")
        /\ Goto(t, "exited") /\ UNCHANGED <<owner, dirty>>
  /\ UNCHANGED <<head, mergeHead, unmerged, preMerge, turn, verified>> /\ KeepTask /\ KeepJob

\* The rollback runs under finish_before_cancel: first abort_merge, whose errors
\* are ignored, then reset_hard: reset --hard and clean -ffdx.
RollbackAborts(t) ==
  /\ At(t, "rollback") /\ Goto(t, "resetting")
  /\ AbortMerge \/ UNCHANGED worktree
  /\ UNCHANGED <<turn, verified>> /\ KeepLocks /\ KeepTask /\ KeepJob

OnlyReset == head' = preMerge /\ mergeHead' = NoTask /\ unmerged' = FALSE /\ UNCHANGED dirty

RollbackResets(t) ==
  /\ At(t, "resetting") /\ Goto(t, "exited")
  /\ ResetHard \/ ("git" \in faults /\ (OnlyReset \/ UNCHANGED worktree))
  /\ Leave
  /\ UNCHANGED verified /\ KeepTask /\ KeepJob

JobEnds ==
  /\ job = "ending" /\ \A t \in Tasks : pc[t] = "exited"
  /\ job' = "ended"
  /\ UNCHANGED <<worktree, pc, turn, runs, verified>> /\ KeepLocks /\ KeepTask

\* A crash may fall inside a Git command, an agent's turn or a gate.
Crash ==
  /\ "crash" \in faults /\ job # "ended" /\ runs < MaxRuns
  /\ \/ UNCHANGED worktree
     \/ owner # NoTask /\ Tears /\ UNCHANGED <<head, mergeHead, unmerged>>
     \/ owner # NoTask /\ pc[owner] = "merging" /\ TornMerge(owner) /\ UNCHANGED head
  /\ job' = "ended" /\ pc' = [t \in Tasks |-> "exited"] /\ Leave
  /\ UNCHANGED <<runs, verified>> /\ KeepTask

-----------------------------------------------------------------------------
(* run_job: the worktree is made usable again, then the graph goes on.     *)

Restart ==
  /\ job = "ended" /\ runs < MaxRuns
  /\ runs' = runs + 1 /\ job' = "recovering"
  /\ UNCHANGED <<worktree, pc, turn, verified>> /\ KeepLocks /\ KeepTask

RecoverMerge ==
  /\ job = "recovering" /\ mergeHead # NoTask
  /\ AbortMerge
  /\ UNCHANGED <<pc, turn, verified>> /\ KeepLocks /\ KeepTask /\ KeepJob

\* Mutant: uncommitted changes are left in the worktree.
RecoverDirty_Never == FALSE
RecoverDirty == dirty # {} \/ unmerged

\* A worktree that is not clean is reset to its own HEAD.
Recovered ==
  /\ job = "recovering" /\ mergeHead = NoTask
  /\ IF RecoverDirty THEN dirty' = {} /\ unmerged' = FALSE ELSE UNCHANGED <<dirty, unmerged>>
  /\ job' = "running"
  /\ pc' = [t \in Tasks |-> IF t \in done THEN "exited" ELSE "working"]
  /\ left' = [t \in Tasks |-> MaxAttempts]
  /\ UNCHANGED <<head, mergeHead, turn, done, runs, verified>> /\ KeepLocks

\* A Git command of the recovery fails, as merge --abort does when a merged file was edited.
RecoveryFails ==
  /\ job = "recovering" /\ job' = "ended"
  /\ UNCHANGED <<worktree, pc, turn, runs, verified>> /\ KeepLocks /\ KeepTask

WorkerStep(t) ==
  \/ Reviewed(t) \/ Acquire(t) \/ Merge(t)
  \/ AlreadyResolved(t) \/ ResolverRuns(t) \/ ResolverFinishes(t) \/ GivesUp(t)
  \/ GatesPass(t) \/ GatesFail(t) \/ RepairerRuns(t) \/ RollsBack(t) \/ Integrated(t)
  \/ Raises(t) \/ Cancelled(t) \/ RollbackAborts(t) \/ RollbackResets(t)
JobStep == JobEnds \/ RecoverMerge \/ Recovered \/ RecoveryFails
Next ==
  /\ (\E t \in Tasks : WorkerStep(t)) \/ JobStep \/ CancelJob \/ Crash \/ Restart
  /\ UNCHANGED faults

\* Git, agents and gates run under timeouts: no step waits for ever.
Spec == Init /\ [][Next]_vars /\ WF_vars(JobStep /\ UNCHANGED faults)
  /\ \A t \in Tasks : WF_vars(WorkerStep(t) /\ UNCHANGED faults)

-----------------------------------------------------------------------------
\* As long as agents keep to their prompt, a completed task is in the integration
\* branch and stays there: no rollback, recovery or crash of another task's
\* transaction ever takes it out again (invariants 2 and 7 of ARCHITECTURE.md).
CompletedIsIntegrated == "agent" \notin faults => done \subseteq head

\* Whatever an agent does to the merge it was asked to resolve, it cannot cost the
\* branch another task: what is completed and integrated stays integrated.
KeepsCompleted == [][done \cap head \subseteq head']_vars

\* Without faults the branch stands, outside a transaction, at a commit on which gates
\* have passed: whatever was merged, resolved, repaired or swept up has been verified or
\* taken back, cancellations and errors included (orchestrator_integration.py:36).  The
\* gates see the worktree, and leftovers that are not in the commit with it.
OnlyVerifiedRemains ==
  faults = {} /\ owner = NoTask /\ job = "running" => head \in verified \cup {{}}

\* A transaction starts without a merge in progress, with nothing unmerged and with nothing
\* that a crash, an interruption, a failed merge or a failed repair of another one has cut
\* short, in this run of the job or an earlier one.  What may lie there are files of gates
\* that passed (ARCHITECTURE.md:139-147) and what a resolver left beside a conflict that was
\* given up: merge --abort keeps it, and the next add -A commits it.
StartsClean ==
  [][\A t \in Tasks : pc[t] = "waiting" /\ pc'[t] = "merging" =>
       mergeHead = NoTask /\ ~unmerged /\ dirty \subseteq {"left"}]_vars

\* Whoever takes the repository lock gives it back.
LockIsReleased == \A t \in Tasks : owner = t ~> owner # t

\* Without faults the integration is atomic, cancellations and failures included.
Visible == IF faults # {} THEN {} ELSE IF owner = NoTask THEN head ELSE preMerge
Shown   == IF faults # {} THEN {} ELSE done
Atomic == INSTANCE AtomicIntegration WITH tree <- Visible, done <- Shown
ImplementsAtomicIntegration == Atomic!Spec
=============================================================================
