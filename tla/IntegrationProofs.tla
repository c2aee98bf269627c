------------------------- MODULE IntegrationProofs -------------------------
(***************************************************************************)
(* Proofs about Integration, for every set of tasks and every bound: a     *)
(* completed task is in the integration branch as long as agents keep to   *)
(* their prompt, and stays there whatever they do; without faults every    *)
(* integration is one atomic step from a verified commit to a verified one.*)
(***************************************************************************)
EXTENDS Integration, TLAPS

\* From the acquisition of the locks to their release.
Busy   == Transaction \cup {"rollback", "resetting"}
Merged == {"gates", "repairing", "regates", "integrated"}

\* The lock is held exactly by the worker that is in its transaction, that task
\* is not completed yet, and it is in one of its two turns.
LockInv ==
  /\ \A t \in Tasks : pc[t] \in Busy <=> owner = t
  /\ \A t \in done : pc[t] = "exited"
  /\ \A t \in Tasks : pc[t] = "finishing" => turn < 3
  /\ job \in {"ended", "recovering"} => \A t \in Tasks : pc[t] = "exited"

\* A rollback that may leave a merge behind happens only in a job that is ending;
\* while the job runs, a merge in progress is the owner's and only during its turn.
MergeInv ==
  /\ mergeHead \in {owner, NoTask} \/ job # "running"
  /\ \A t \in Tasks :
       /\ pc[t] \in {"rollback", "resetting"} => job = "ending"
       /\ pc[t] \in Busy => mergeHead \in {t, NoTask}
       /\ pc[t] \in Merged \cup {"merging"} => mergeHead = NoTask

\* pre_merge keeps everything that was completed and integrated before.
KeepInv == owner # NoTask => preMerge \subseteq head /\ done \cap head \subseteq preMerge

IInv == TypeOK /\ LockInv /\ MergeInv /\ KeepInv

\* With agents that keep to their prompt.
AgentInv ==
  /\ done \subseteq head
  /\ owner # NoTask => done \subseteq preMerge
  /\ \A t \in Tasks :
       /\ pc[t] \in Merged => t \in head
       /\ pc[t] \in {"resolving", "finishing"} => mergeHead = t \/ t \in head

\* Without faults: outside a transaction the branch stands at a verified commit; inside,
\* preMerge is one, and head is what the transaction has made of it so far.
WholeInv ==
  /\ owner = NoTask => head \in verified \cup {{}}
  /\ owner # NoTask => preMerge \in verified \cup {{}}
  /\ \A t \in Tasks :
       /\ pc[t] \in {"merging", "resolving", "finishing"} => head = preMerge
       /\ pc[t] \in Merged =>
            \E fixes \in SUBSET {Fix(t)} : head = preMerge \cup {t} \cup fixes
       /\ pc[t] = "integrated" => head \in verified

\* While the job runs, unresolved files belong to a merge in progress, and what was cut
\* short belongs to a repair that is not over.
CleanInv ==
  job = "running" =>
    /\ unmerged => mergeHead # NoTask
    /\ "torn" \in dirty => owner # NoTask /\ pc[owner] = "repairing"

-----------------------------------------------------------------------------
LEMMA InitInv == Init => IInv /\ AgentInv
<1> SUFFICES ASSUME Init PROVE IInv /\ AgentInv
  OBVIOUS
<1>1. TypeOK
  <2>1. left \in [Tasks -> 0..MaxAttempts] /\ runs \in 1..MaxRuns
    BY BoundsAssumption DEF Init
  <2>2. pc \in [Tasks -> Steps]
    BY DEF Init, Steps
  <2>3. head \in SUBSET Changes /\ preMerge \in SUBSET Changes /\ done \in SUBSET Tasks
    BY DEF Init
  <2>5. verified \in SUBSET SUBSET Changes
    BY Zenon DEF Init
  <2>4. mergeHead \in Tasks \cup {NoTask} /\ owner \in Tasks \cup {NoTask} /\ turn \in 1..4
    BY DEF Init
  <2>6. unmerged \in BOOLEAN /\ dirty \in SUBSET Dirt
    BY DEF Init, Dirt
  <2>7. job \in {"running", "ending", "ended", "recovering"} /\ faults \in Scenarios
    BY DEF Init
  <2> QED BY <2>1, <2>2, <2>3, <2>4, <2>5, <2>6, <2>7 DEF TypeOK
<1>2. LockInv
  BY TasksAssumption DEF Init, LockInv, Busy, Transaction
<1>3. MergeInv /\ KeepInv /\ AgentInv
  BY DEF Init, MergeInv, KeepInv, AgentInv, Busy, Merged, Transaction
<1> QED BY <1>1, <1>2, <1>3 DEF IInv

\* A task and its repair are changes.
LEMMA InChanges == \A t \in Tasks : t \in Changes /\ Fix(t) \in Changes
BY DEF Changes

\* An attempt that failed keeps the types.
LEMMA ReleaseType ==
  ASSUME TypeOK, NEW t \in Tasks, Release(t)
  PROVE  /\ owner' \in Tasks \cup {NoTask} /\ preMerge' \in SUBSET Changes
         /\ pc' \in [Tasks -> Steps] /\ left' \in [Tasks -> 0..MaxAttempts]
         /\ done' \in SUBSET Tasks /\ job' \in {"running", "ending", "ended", "recovering"}
         /\ runs' \in 1..MaxRuns /\ turn' \in 1..4
<1>1. \A n \in 0..MaxAttempts : n > 1 => n - 1 \in 0..MaxAttempts
  BY BoundsAssumption
<1>2. left[t] \in 0..MaxAttempts
  BY DEF TypeOK
<1>3. left' \in [Tasks -> 0..MaxAttempts]
  BY <1>1, <1>2 DEF TypeOK, Release
<1>4. pc' \in [Tasks -> Steps]
  BY DEF TypeOK, Release, Goto, Steps
<1> QED BY <1>3, <1>4 DEF TypeOK, Release, Leave, KeepJob

\* finish_merge and commit_all keep the types.
LEMMA CommitType ==
  ASSUME TypeOK, NEW t \in Tasks, CommitMerge(t)
  PROVE  /\ head' \in SUBSET Changes /\ mergeHead' \in Tasks \cup {NoTask}
         /\ unmerged' \in BOOLEAN /\ dirty' \in SUBSET Dirt
<1>1. mergeHead \in Changes \cup {NoTask} /\ Fix(t) \in Changes
  BY InChanges DEF TypeOK
<1>2. head' \in SUBSET Changes
  BY <1>1 DEF TypeOK, CommitMerge
<1>3. mergeHead' \in Tasks \cup {NoTask} /\ unmerged' \in BOOLEAN /\ dirty' \in SUBSET Dirt
  BY DEF CommitMerge, Clean
<1> QED BY <1>2, <1>3

LEMMA FinishType ==
  ASSUME TypeOK, NEW t \in Tasks, FinishMerge(t)
  PROVE  pc' \in [Tasks -> Steps] /\ turn' \in 1..4
BY DEF TypeOK, FinishMerge, Goto, Steps, Transaction

\* What is left in the worktree keeps its type.
LEMMA DirtType ==
  ASSUME TypeOK
  PROVE  /\ Tears => dirty' \in SUBSET Dirt
         /\ GatesWrite => dirty' \in SUBSET Dirt
         /\ Writes => dirty' \in SUBSET Dirt
BY DEF TypeOK, Tears, GatesWrite, Writes, Dirt

\* Every variable keeps its type.
LEMMA TypeStep == TypeOK /\ LockInv /\ [Next]_vars => TypeOK'
<1> SUFFICES ASSUME TypeOK, LockInv, [Next]_vars PROVE TypeOK'
  OBVIOUS
<1> USE DEF TypeOK, Steps, Transaction, Goto, KeepLocks, KeepJob, KeepTask, worktree, Clean
<1>0. faults' = faults
  BY DEF Next, vars
<1> USE <1>0
<1>1. CASE UNCHANGED vars
  BY <1>1 DEF vars
<1>2. ASSUME NEW t \in Tasks, WorkerStep(t) PROVE TypeOK'
  <2>1. CASE Reviewed(t)          BY <2>1 DEF Reviewed
  <2>2. CASE Acquire(t)           BY <2>2 DEF Acquire
  <2>3. CASE Merge(t)
    <3>1. head' \in SUBSET Changes
      BY <2>3, InChanges DEF Merge
    <3>2. pc' \in [Tasks -> Steps]
      BY <2>3 DEF Merge
    <3>3. mergeHead' \in Tasks \cup {NoTask} /\ unmerged' \in BOOLEAN /\ dirty' = dirty
      BY <2>3 DEF Merge
    <3> QED BY <2>3, <3>1, <3>2, <3>3 DEF Merge
  <2>4. CASE AlreadyResolved(t)
    <3>1. CommitMerge(t)
      BY <2>4 DEF AlreadyResolved, FinishMerge
    <3> QED BY <2>4, <3>1, CommitType, FinishType DEF AlreadyResolved
  <2>5. CASE ResolverRuns(t)
    <3>1. head' \in SUBSET Changes
      <4>1. head' = head \/ head' = head \cup {t}
        BY <2>5 DEF ResolverRuns, LeavesIt, Resolves, Commits, Aborts
      <4> QED BY <4>1, InChanges
    <3>2. /\ mergeHead' \in Tasks \cup {NoTask}
          /\ unmerged' \in BOOLEAN /\ dirty' \in SUBSET Dirt
      BY <2>5, DirtType DEF ResolverRuns, LeavesIt, Resolves, Commits, Aborts
    <3>3. turn' \in 1..4 /\ pc' \in [Tasks -> Steps]
      BY <2>5 DEF ResolverRuns, NextTurn
    <3> QED BY <2>5, <3>1, <3>2, <3>3 DEF ResolverRuns
  <2>6. CASE ResolverFinishes(t)
    <3>1. UNCHANGED worktree \/ CommitMerge(t)
      BY <2>6 DEF ResolverFinishes, FinishMerge
    <3>2. /\ head' \in SUBSET Changes /\ mergeHead' \in Tasks \cup {NoTask}
          /\ unmerged' \in BOOLEAN /\ dirty' \in SUBSET Dirt
      BY <3>1, CommitType
    <3>3. CASE FinishMerge(t)
      BY <2>6, <3>2, <3>3, FinishType DEF ResolverFinishes
    <3>4. CASE turn' = NextTurn /\ Goto(t, "resolving")
      <4>1. turn' \in 1..4
        BY <2>6, <3>4 DEF ResolverFinishes, NextTurn, LockInv, At
      <4> QED BY <2>6, <3>2, <3>4, <4>1 DEF ResolverFinishes
    <3> QED BY <2>6, <3>3, <3>4 DEF ResolverFinishes
  <2>7. CASE GivesUp(t)           BY <2>7, ReleaseType DEF GivesUp, AbortMerge
  <2>8. CASE GatesPass(t)
    <3>1. dirty' \in SUBSET Dirt /\ UNCHANGED <<head, mergeHead, unmerged>>
      BY <2>8, DirtType DEF GatesPass, GatesWrite
    <3> QED BY <2>8, <3>1 DEF GatesPass
  <2>9. CASE GatesFail(t)
    <3>1. dirty' \in SUBSET Dirt /\ UNCHANGED <<head, mergeHead, unmerged>>
      BY <2>9, DirtType DEF GatesFail, GatesWrite
    <3> QED BY <2>9, <3>1 DEF GatesFail
  <2>10. CASE RepairerRuns(t)
    <3>1. head' \in SUBSET Changes
      BY <2>10, InChanges DEF RepairerRuns
    <3>2. turn' \in 1..4
      BY <2>10 DEF RepairerRuns, MoreAgents, NextTurn
    <3>3. pc' \in [Tasks -> Steps] /\ dirty' \in SUBSET Dirt
      BY <2>10, DirtType DEF RepairerRuns
    <3> QED BY <2>10, <3>1, <3>2, <3>3 DEF RepairerRuns
  <2>11. CASE RollsBack(t)        BY <2>11, ReleaseType DEF RollsBack, ResetHard
  <2>12. CASE Integrated(t)       BY <2>12 DEF Integrated, Leave
  <2>13. CASE Raises(t)
    <3>1. head' \in SUBSET Changes
      BY <2>13, InChanges DEF Raises
    <3>2. /\ mergeHead' \in Tasks \cup {NoTask}
          /\ unmerged' \in BOOLEAN /\ dirty' \in SUBSET Dirt
      BY <2>13, DirtType DEF Raises, TornMerge
    <3> QED BY <2>13, <3>1, <3>2 DEF Raises
  <2>14. CASE Cancelled(t)        BY <2>14, DirtType DEF Cancelled, RollbackStep
  <2>15. CASE RollbackAborts(t)   BY <2>15 DEF RollbackAborts, AbortMerge
  <2>16. CASE RollbackResets(t)
    <3>1. /\ head' \in SUBSET Changes /\ mergeHead' \in Tasks \cup {NoTask}
          /\ unmerged' \in BOOLEAN /\ dirty' \in SUBSET Dirt
      BY <2>16 DEF RollbackResets, ResetHard, OnlyReset
    <3>2. owner' = NoTask /\ preMerge' = {} /\ turn' = 1 /\ verified' = verified
      BY <2>16 DEF RollbackResets, Leave
    <3>3. pc' \in [Tasks -> Steps] /\ UNCHANGED <<left, done, job, runs>>
      BY <2>16 DEF RollbackResets
    <3> QED BY <3>1, <3>2, <3>3
  <2> QED BY <1>2, <2>1, <2>2, <2>3, <2>4, <2>5, <2>6, <2>7, <2>8, <2>9, <2>10, <2>11,
             <2>12, <2>13, <2>14, <2>15, <2>16 DEF WorkerStep
<1>3. CASE JobEnds      BY <1>3 DEF JobEnds
<1>4. CASE RecoverMerge BY <1>4 DEF RecoverMerge, AbortMerge
<1>5. CASE Recovered
  <2>1. left' \in [Tasks -> 0..MaxAttempts]
    BY <1>5, BoundsAssumption DEF Recovered
  <2>2. pc' \in [Tasks -> Steps]
    BY <1>5 DEF Recovered
  <2> QED BY <1>5, <2>1, <2>2 DEF Recovered
<1>6. CASE CancelJob    BY <1>6 DEF CancelJob
<1>7. CASE Crash
  <2>1. /\ head' = head /\ mergeHead' \in Tasks \cup {NoTask}
        /\ unmerged' \in BOOLEAN /\ dirty' \in SUBSET Dirt
    BY <1>7, DirtType DEF Crash, TornMerge
  <2> QED BY <1>7, <2>1 DEF Crash, Leave
<1>8. CASE Restart
  <2>1. runs' \in 1..MaxRuns
    BY <1>8, BoundsAssumption DEF Restart
  <2> QED BY <1>8, <2>1 DEF Restart
<1>9. CASE RecoveryFails BY <1>9 DEF RecoveryFails
<1> QED BY <1>1, <1>2, <1>3, <1>4, <1>5, <1>6, <1>7, <1>8, <1>9 DEF Next, JobStep

\* One worker at a time is in its transaction.
LEMMA LockStep == IInv /\ [Next]_vars => LockInv'
<1> SUFFICES ASSUME IInv, [Next]_vars PROVE LockInv'
  OBVIOUS
<1> USE DEF IInv, TypeOK, Busy, Transaction, Goto, At, Up, KeepLocks, KeepJob, KeepTask, worktree, LockInv
<1>1. CASE UNCHANGED vars
  BY <1>1 DEF vars
<1>2. ASSUME NEW t \in Tasks, WorkerStep(t) PROVE LockInv'
  <2>1. CASE Reviewed(t)
    BY <2>1 DEF Reviewed
  <2>2. CASE Acquire(t)
    BY <2>2, TasksAssumption DEF Acquire, LockFree
  <2>3. CASE Merge(t)
    BY <2>3 DEF Merge
  <2>4. CASE AlreadyResolved(t)
    BY <2>4 DEF AlreadyResolved, FinishMerge, CommitMerge, Clean
  <2>5. CASE ResolverRuns(t)
    BY <2>5 DEF ResolverRuns, LeavesIt, Resolves, Commits, Aborts, NextTurn
  <2>6. CASE ResolverFinishes(t)
    BY <2>6 DEF ResolverFinishes, FinishMerge, CommitMerge, Clean, NextTurn
  <2>7. CASE GivesUp(t)
    BY <2>7, TasksAssumption DEF GivesUp, AbortMerge, Release, Leave
  <2>8. CASE GatesPass(t)
    BY <2>8 DEF GatesPass, GatesWrite
  <2>9. CASE GatesFail(t)
    BY <2>9 DEF GatesFail, GatesWrite
  <2>10. CASE RepairerRuns(t)
    BY <2>10 DEF RepairerRuns, NextTurn
  <2>11. CASE RollsBack(t)
    BY <2>11, TasksAssumption DEF RollsBack, ResetHard, Clean, Release, Leave
  <2>12. CASE Integrated(t)
    BY <2>12, TasksAssumption DEF Integrated, Leave
  <2>13. CASE Raises(t)
    BY <2>13 DEF Raises, TornMerge, Tears
  <2>14. CASE Cancelled(t)
    BY <2>14 DEF Cancelled, RollbackStep, Tears
  <2>15. CASE RollbackAborts(t)
    BY <2>15 DEF RollbackAborts, AbortMerge
  <2>16. CASE RollbackResets(t)
    BY <2>16, TasksAssumption DEF RollbackResets, ResetHard, Clean, OnlyReset, Leave
  <2> QED BY <1>2, <2>1, <2>2, <2>3, <2>4, <2>5, <2>6, <2>7, <2>8, <2>9, <2>10, <2>11, <2>12, <2>13, <2>14, <2>15, <2>16 DEF WorkerStep
<1>3. CASE JobEnds
  BY <1>3 DEF JobEnds
<1>4. CASE RecoverMerge
  BY <1>4 DEF RecoverMerge, AbortMerge
<1>5. CASE Recovered
  BY <1>5, TasksAssumption DEF Recovered
<1>6. CASE CancelJob
  BY <1>6 DEF CancelJob
<1>7. CASE Crash
  BY <1>7, TasksAssumption DEF Crash, TornMerge, Tears, Leave
<1>8. CASE Restart
  BY <1>8 DEF Restart
<1>9. CASE RecoveryFails
  BY <1>9 DEF RecoveryFails
<1> QED BY <1>1, <1>2, <1>3, <1>4, <1>5, <1>6, <1>7, <1>8, <1>9 DEF Next, JobStep

\* A merge in progress belongs to the owner of the lock.
LEMMA MergeStep == IInv /\ [Next]_vars => MergeInv'
<1> SUFFICES ASSUME IInv, [Next]_vars PROVE MergeInv'
  OBVIOUS
<1> USE DEF IInv, TypeOK, Busy, Transaction, Goto, At, Up, KeepLocks, KeepJob, KeepTask, worktree, LockInv, MergeInv, Merged
<1>1. CASE UNCHANGED vars
  BY <1>1 DEF vars
<1>2. ASSUME NEW t \in Tasks, WorkerStep(t) PROVE MergeInv'
  <2>1. CASE Reviewed(t)
    BY <2>1 DEF Reviewed
  <2>2. CASE Acquire(t)
    BY <2>2 DEF Acquire, LockFree
  <2>3. CASE Merge(t)
    BY <2>3 DEF Merge
  <2>4. CASE AlreadyResolved(t)
    BY <2>4 DEF AlreadyResolved, FinishMerge, CommitMerge, Clean
  <2>5. CASE ResolverRuns(t)
    BY <2>5 DEF ResolverRuns, LeavesIt, Resolves, Commits, Aborts, NextTurn
  <2>6. CASE ResolverFinishes(t)
    BY <2>6 DEF ResolverFinishes, FinishMerge, CommitMerge, Clean, NextTurn
  <2>7. CASE GivesUp(t)
    BY <2>7 DEF GivesUp, AbortMerge, Release, Leave
  <2>8. CASE GatesPass(t)
    BY <2>8 DEF GatesPass, GatesWrite
  <2>9. CASE GatesFail(t)
    BY <2>9 DEF GatesFail, GatesWrite
  <2>10. CASE RepairerRuns(t)
    BY <2>10 DEF RepairerRuns, NextTurn
  <2>11. CASE RollsBack(t)
    BY <2>11 DEF RollsBack, ResetHard, Clean, Release, Leave
  <2>12. CASE Integrated(t)
    BY <2>12 DEF Integrated, Leave
  <2>13. CASE Raises(t)
    BY <2>13 DEF Raises, TornMerge, Tears
  <2>14. CASE Cancelled(t)
    BY <2>14 DEF Cancelled, RollbackStep, Tears
  <2>15. CASE RollbackAborts(t)
    BY <2>15 DEF RollbackAborts, AbortMerge
  <2>16. CASE RollbackResets(t)
    BY <2>16 DEF RollbackResets, ResetHard, Clean, OnlyReset, Leave
  <2> QED BY <1>2, <2>1, <2>2, <2>3, <2>4, <2>5, <2>6, <2>7, <2>8, <2>9, <2>10, <2>11, <2>12, <2>13, <2>14, <2>15, <2>16 DEF WorkerStep
<1>3. CASE JobEnds
  BY <1>3 DEF JobEnds
<1>4. CASE RecoverMerge
  BY <1>4 DEF RecoverMerge, AbortMerge
<1>5. CASE Recovered
  BY <1>5 DEF Recovered
<1>6. CASE CancelJob
  BY <1>6 DEF CancelJob
<1>7. CASE Crash
  BY <1>7 DEF Crash, TornMerge, Tears, Leave
<1>8. CASE Restart
  BY <1>8 DEF Restart
<1>9. CASE RecoveryFails
  BY <1>9 DEF RecoveryFails
<1> QED BY <1>1, <1>2, <1>3, <1>4, <1>5, <1>6, <1>7, <1>8, <1>9 DEF Next, JobStep

\* A transaction never loses what was there before it.
LEMMA KeepStep == IInv /\ [Next]_vars => KeepInv'
<1> SUFFICES ASSUME IInv, [Next]_vars PROVE KeepInv'
  OBVIOUS
<1> USE DEF IInv, TypeOK, Busy, Transaction, Goto, At, Up, KeepLocks, KeepJob, KeepTask, worktree, LockInv, MergeInv, KeepInv
<1>1. CASE UNCHANGED vars
  BY <1>1 DEF vars
<1>2. ASSUME NEW t \in Tasks, WorkerStep(t) PROVE KeepInv'
  <2>1. CASE Reviewed(t)
    BY <2>1 DEF Reviewed
  <2>2. CASE Acquire(t)
    BY <2>2 DEF Acquire, LockFree
  <2>3. CASE Merge(t)
    BY <2>3 DEF Merge
  <2>4. CASE AlreadyResolved(t)
    BY <2>4, FixAssumption, TasksAssumption DEF AlreadyResolved, FinishMerge, CommitMerge, Clean
  <2>5. CASE ResolverRuns(t)
    BY <2>5 DEF ResolverRuns, LeavesIt, Resolves, Commits, Aborts, NextTurn
  <2>6. CASE ResolverFinishes(t)
    BY <2>6, FixAssumption, TasksAssumption DEF ResolverFinishes, FinishMerge, CommitMerge, Clean, NextTurn
  <2>7. CASE GivesUp(t)
    BY <2>7 DEF GivesUp, AbortMerge, Release, Leave
  <2>8. CASE GatesPass(t)
    BY <2>8 DEF GatesPass, GatesWrite
  <2>9. CASE GatesFail(t)
    BY <2>9 DEF GatesFail, GatesWrite
  <2>10. CASE RepairerRuns(t)
    BY <2>10, FixAssumption, TasksAssumption DEF RepairerRuns, NextTurn
  <2>11. CASE RollsBack(t)
    BY <2>11 DEF RollsBack, ResetHard, Clean, Release, Leave
  <2>12. CASE Integrated(t)
    BY <2>12 DEF Integrated, Leave
  <2>13. CASE Raises(t)
    BY <2>13 DEF Raises, TornMerge, Tears
  <2>14. CASE Cancelled(t)
    BY <2>14 DEF Cancelled, RollbackStep, Tears
  <2>15. CASE RollbackAborts(t)
    BY <2>15 DEF RollbackAborts, AbortMerge
  <2>16. CASE RollbackResets(t)
    BY <2>16 DEF RollbackResets, ResetHard, Clean, OnlyReset, Leave
  <2> QED BY <1>2, <2>1, <2>2, <2>3, <2>4, <2>5, <2>6, <2>7, <2>8, <2>9, <2>10, <2>11, <2>12, <2>13, <2>14, <2>15, <2>16 DEF WorkerStep
<1>3. CASE JobEnds
  BY <1>3 DEF JobEnds
<1>4. CASE RecoverMerge
  BY <1>4 DEF RecoverMerge, AbortMerge
<1>5. CASE Recovered
  BY <1>5 DEF Recovered
<1>6. CASE CancelJob
  BY <1>6 DEF CancelJob
<1>7. CASE Crash
  BY <1>7 DEF Crash, TornMerge, Tears, Leave
<1>8. CASE Restart
  BY <1>8 DEF Restart
<1>9. CASE RecoveryFails
  BY <1>9 DEF RecoveryFails
<1> QED BY <1>1, <1>2, <1>3, <1>4, <1>5, <1>6, <1>7, <1>8, <1>9 DEF Next, JobStep

\* With agents that keep to their prompt, what is merged stays until it is completed.
LEMMA AgentStep == "agent" \notin faults /\ IInv /\ AgentInv /\ [Next]_vars => AgentInv'
<1> SUFFICES ASSUME "agent" \notin faults, IInv, AgentInv, [Next]_vars PROVE AgentInv'
  OBVIOUS
<1> USE DEF IInv, TypeOK, Busy, Transaction, Goto, At, Up, KeepLocks, KeepJob, KeepTask, worktree, LockInv, MergeInv, KeepInv, AgentInv, Merged
<1>1. CASE UNCHANGED vars
  BY <1>1 DEF vars
<1>2. ASSUME NEW t \in Tasks, WorkerStep(t) PROVE AgentInv'
  <2>1. CASE Reviewed(t)
    BY <2>1 DEF Reviewed
  <2>2. CASE Acquire(t)
    BY <2>2 DEF Acquire, LockFree
  <2>3. CASE Merge(t)
    BY <2>3 DEF Merge
  <2>4. CASE AlreadyResolved(t)
    BY <2>4, TasksAssumption DEF AlreadyResolved, FinishMerge, CommitMerge, Clean
  <2>5. CASE ResolverRuns(t)
    BY <2>5 DEF ResolverRuns, LeavesIt, Resolves, Commits, Aborts, NextTurn
  <2>6. CASE ResolverFinishes(t)
    BY <2>6, TasksAssumption DEF ResolverFinishes, FinishMerge, CommitMerge, Clean, NextTurn
  <2>7. CASE GivesUp(t)
    BY <2>7 DEF GivesUp, AbortMerge, Release, Leave
  <2>8. CASE GatesPass(t)
    BY <2>8 DEF GatesPass, GatesWrite
  <2>9. CASE GatesFail(t)
    BY <2>9 DEF GatesFail, GatesWrite
  <2>10. CASE RepairerRuns(t)
    BY <2>10 DEF RepairerRuns, NextTurn
  <2>11. CASE RollsBack(t)
    BY <2>11, TasksAssumption DEF RollsBack, ResetHard, Clean, Release, Leave
  <2>12. CASE Integrated(t)
    BY <2>12 DEF Integrated, Leave
  <2>13. CASE Raises(t)
    BY <2>13 DEF Raises, TornMerge, Tears
  <2>14. CASE Cancelled(t)
    BY <2>14 DEF Cancelled, RollbackStep, Tears
  <2>15. CASE RollbackAborts(t)
    BY <2>15 DEF RollbackAborts, AbortMerge
  <2>16. CASE RollbackResets(t)
    BY <2>16, TasksAssumption DEF RollbackResets, ResetHard, Clean, OnlyReset, Leave
  <2> QED BY <1>2, <2>1, <2>2, <2>3, <2>4, <2>5, <2>6, <2>7, <2>8, <2>9, <2>10, <2>11, <2>12, <2>13, <2>14, <2>15, <2>16 DEF WorkerStep
<1>3. CASE JobEnds
  BY <1>3 DEF JobEnds
<1>4. CASE RecoverMerge
  BY <1>4 DEF RecoverMerge, AbortMerge
<1>5. CASE Recovered
  BY <1>5 DEF Recovered
<1>6. CASE CancelJob
  BY <1>6 DEF CancelJob
<1>7. CASE Crash
  BY <1>7 DEF Crash, TornMerge, Tears, Leave
<1>8. CASE Restart
  BY <1>8 DEF Restart
<1>9. CASE RecoveryFails
  BY <1>9 DEF RecoveryFails
<1> QED BY <1>1, <1>2, <1>3, <1>4, <1>5, <1>6, <1>7, <1>8, <1>9 DEF Next, JobStep

\* No step takes a completed and integrated task out of the branch.
LEMMA KeptStep == IInv /\ [Next]_vars => done \cap head \subseteq head'
<1> SUFFICES ASSUME IInv, [Next]_vars PROVE done \cap head \subseteq head'
  OBVIOUS
<1> USE DEF IInv, TypeOK, Busy, Transaction, Goto, At, Up, KeepLocks, KeepJob, KeepTask, worktree, LockInv, MergeInv, KeepInv
<1>1. CASE UNCHANGED vars
  BY <1>1 DEF vars
<1>2. ASSUME NEW t \in Tasks, WorkerStep(t) PROVE done \cap head \subseteq head'
  <2>1. CASE Reviewed(t)
    BY <2>1 DEF Reviewed
  <2>2. CASE Acquire(t)
    BY <2>2 DEF Acquire, LockFree
  <2>3. CASE Merge(t)
    BY <2>3 DEF Merge
  <2>4. CASE AlreadyResolved(t)
    BY <2>4, TasksAssumption DEF AlreadyResolved, FinishMerge, CommitMerge, Clean
  <2>5. CASE ResolverRuns(t)
    BY <2>5 DEF ResolverRuns, LeavesIt, Resolves, Commits, Aborts, NextTurn
  <2>6. CASE ResolverFinishes(t)
    BY <2>6, TasksAssumption DEF ResolverFinishes, FinishMerge, CommitMerge, Clean, NextTurn
  <2>7. CASE GivesUp(t)
    BY <2>7 DEF GivesUp, AbortMerge, Release, Leave
  <2>8. CASE GatesPass(t)
    BY <2>8 DEF GatesPass, GatesWrite
  <2>9. CASE GatesFail(t)
    BY <2>9 DEF GatesFail, GatesWrite
  <2>10. CASE RepairerRuns(t)
    BY <2>10 DEF RepairerRuns, NextTurn
  <2>11. CASE RollsBack(t)
    BY <2>11, TasksAssumption DEF RollsBack, ResetHard, Clean, Release, Leave
  <2>12. CASE Integrated(t)
    BY <2>12 DEF Integrated, Leave
  <2>13. CASE Raises(t)
    BY <2>13 DEF Raises, TornMerge, Tears
  <2>14. CASE Cancelled(t)
    BY <2>14 DEF Cancelled, RollbackStep, Tears
  <2>15. CASE RollbackAborts(t)
    BY <2>15 DEF RollbackAborts, AbortMerge
  <2>16. CASE RollbackResets(t)
    BY <2>16, TasksAssumption DEF RollbackResets, ResetHard, Clean, OnlyReset, Leave
  <2> QED BY <1>2, <2>1, <2>2, <2>3, <2>4, <2>5, <2>6, <2>7, <2>8, <2>9, <2>10, <2>11, <2>12, <2>13, <2>14, <2>15, <2>16 DEF WorkerStep
<1>3. CASE JobEnds
  BY <1>3 DEF JobEnds
<1>4. CASE RecoverMerge
  BY <1>4 DEF RecoverMerge, AbortMerge
<1>5. CASE Recovered
  BY <1>5 DEF Recovered
<1>6. CASE CancelJob
  BY <1>6 DEF CancelJob
<1>7. CASE Crash
  BY <1>7 DEF Crash, TornMerge, Tears, Leave
<1>8. CASE Restart
  BY <1>8 DEF Restart
<1>9. CASE RecoveryFails
  BY <1>9 DEF RecoveryFails
<1> QED BY <1>1, <1>2, <1>3, <1>4, <1>5, <1>6, <1>7, <1>8, <1>9 DEF Next, JobStep

\* A conflict that is resolved adds the task, and perhaps what lay beside it.
LEMMA Finished ==
  ASSUME IInv, AgentInv, WholeInv, NEW t \in Tasks, pc[t] \in {"resolving", "finishing"},
         owner = t, owner' = t, preMerge' = preMerge, verified' = verified, FinishMerge(t)
  PROVE  WholeInv'
<1> USE DEF Busy, Transaction, Merged
<1>1. owner # NoTask /\ \A u \in Tasks \ {t} : pc'[u] = pc[u] /\ pc[u] \notin Busy
  BY TasksAssumption DEF IInv, LockInv, TypeOK, FinishMerge, Goto
<1>2. pc'[t] = "gates"
  BY DEF IInv, TypeOK, FinishMerge, Goto
<1>3. \E fixes \in SUBSET {Fix(t)} : head' = preMerge \cup {t} \cup fixes
  <2>1. head = preMerge /\ mergeHead \in {t, NoTask} /\ (mergeHead = t \/ t \in head)
    BY DEF WholeInv, AgentInv, IInv, MergeInv
  <2>2. PICK fixes \in SUBSET {Fix(t)} : head' = head \cup ({mergeHead} \ {NoTask}) \cup fixes
    BY DEF FinishMerge, CommitMerge
  <2>3. head' = preMerge \cup {t} \cup fixes
    BY <2>1, <2>2, TasksAssumption
  <2> QED BY <2>3
<1> QED BY <1>1, <1>2, <1>3 DEF WholeInv

\* Without faults every transaction starts from, and comes back to, a verified commit.
LEMMA WholeStep == faults = {} /\ IInv /\ AgentInv /\ WholeInv /\ [Next]_vars => WholeInv'
<1> SUFFICES ASSUME faults = {}, IInv, AgentInv, WholeInv, [Next]_vars PROVE WholeInv'
  OBVIOUS
<1> USE DEF IInv, TypeOK, Busy, Transaction, Goto, At, Up, KeepLocks, KeepJob, KeepTask, worktree, LockInv, MergeInv, AgentInv, Merged, WholeInv
<1>1. CASE UNCHANGED vars
  BY <1>1 DEF vars
<1>2. ASSUME NEW t \in Tasks, WorkerStep(t) PROVE WholeInv'
  <2>1. CASE Reviewed(t)
    BY <2>1 DEF Reviewed
  <2>2. CASE Acquire(t)
    BY <2>2 DEF Acquire, LockFree
  <2>3. CASE Merge(t)
    <3>1. owner = t /\ owner' = t /\ preMerge' = preMerge /\ owner # NoTask
      BY <2>3, TasksAssumption DEF Merge
    <3>2. \A u \in Tasks \ {t} : pc'[u] = pc[u] /\ pc[u] \notin Busy
      BY <2>3, <3>1 DEF Merge
    <3>3. CASE head' = head \cup {t} /\ Goto(t, "gates")
      <4>1. head' = preMerge \cup {t} \cup {}
        BY <2>3, <3>3 DEF Merge
      <4>2. \E fixes \in SUBSET {Fix(t)} : head' = preMerge \cup {t} \cup fixes
        BY <4>1
      <4>3. pc'[t] = "gates" /\ verified' = verified
        BY <2>3, <3>3 DEF Merge
      <4> QED BY <3>1, <3>2, <4>2, <4>3
    <3>4. CASE head' = head /\ Goto(t, "resolving")
      BY <2>3, <3>1, <3>2, <3>4 DEF Merge
    <3> QED BY <2>3, <3>3, <3>4 DEF Merge
  <2>4. CASE AlreadyResolved(t)
    <3>1. pc[t] = "resolving" /\ owner = t /\ owner' = t /\ verified' = verified
      BY <2>4 DEF AlreadyResolved
    <3>2. FinishMerge(t) /\ preMerge' = preMerge
      BY <2>4 DEF AlreadyResolved
    <3> QED BY <3>1, <3>2, Finished
  <2>5. CASE ResolverRuns(t)
    BY <2>5 DEF ResolverRuns, LeavesIt, Resolves, Commits, Aborts, NextTurn
  <2>6. CASE ResolverFinishes(t)
    <3>1. pc[t] = "finishing" /\ owner = t /\ owner' = t /\ verified' = verified
      BY <2>6 DEF ResolverFinishes
    <3>2. CASE FinishMerge(t)
      BY <2>6, <3>1, <3>2, Finished DEF ResolverFinishes
    <3>3. CASE Goto(t, "resolving") /\ UNCHANGED worktree
      BY <2>6, <3>1, <3>3, TasksAssumption DEF ResolverFinishes
    <3> QED BY <2>6, <3>2, <3>3 DEF ResolverFinishes
  <2>7. CASE GivesUp(t)
    BY <2>7 DEF GivesUp, AbortMerge, Release, Leave
  <2>8. CASE GatesPass(t)
    <3>1. owner = t /\ owner' = t /\ preMerge' = preMerge /\ owner # NoTask
      BY <2>8, TasksAssumption DEF GatesPass
    <3>2. \A u \in Tasks \ {t} : pc'[u] = pc[u] /\ pc[u] \notin Busy
      BY <2>8, <3>1 DEF GatesPass
    <3>3. head' = head /\ pc'[t] = "integrated"
          /\ verified' = (verified \cap {preMerge}) \cup {head}
      BY <2>8 DEF GatesPass, GatesWrite
    <3>4. \E fixes \in SUBSET {Fix(t)} : head = preMerge \cup {t} \cup fixes
      BY <2>8 DEF GatesPass
    <3> QED BY <3>1, <3>2, <3>3, <3>4
  <2>9. CASE GatesFail(t)
    BY <2>9 DEF GatesFail, GatesWrite
  <2>10. CASE RepairerRuns(t)
    <3>1. owner = t /\ owner' = t /\ preMerge' = preMerge /\ owner # NoTask
      BY <2>10, TasksAssumption DEF RepairerRuns
    <3>2. \A u \in Tasks \ {t} : pc'[u] = pc[u] /\ pc[u] \notin Busy
      BY <2>10, <3>1 DEF RepairerRuns
    <3>3. verified' = verified
      BY <2>10 DEF RepairerRuns
    <3>4. PICK fixes \in SUBSET {Fix(t)} : head = preMerge \cup {t} \cup fixes
      BY <2>10 DEF RepairerRuns
    <3>5. \E more \in SUBSET {Fix(t)} : head' = preMerge \cup {t} \cup more
      <4>1. CASE head' = head
        BY <3>4, <4>1
      <4>2. CASE head' = head \cup {Fix(t)}
        <5>1. head' = preMerge \cup {t} \cup (fixes \cup {Fix(t)})
          BY <3>4, <4>2
        <5> QED BY <5>1
      <4> QED BY <2>10, <4>1, <4>2 DEF RepairerRuns
    <3>6. pc'[t] \in {"repairing", "regates"}
      BY <2>10 DEF RepairerRuns
    <3> QED BY <3>1, <3>2, <3>3, <3>5, <3>6
  <2>11. CASE RollsBack(t)
    BY <2>11, TasksAssumption DEF RollsBack, ResetHard, Clean, Release, Leave
  <2>12. CASE Integrated(t)
    BY <2>12 DEF Integrated, Leave
  <2>13. CASE Raises(t)
    <3>1. owner = t /\ owner' = t /\ preMerge' = preMerge /\ owner # NoTask
      BY <2>13, TasksAssumption DEF Raises
    <3>2. \A u \in Tasks \ {t} : pc'[u] = pc[u] /\ pc[u] \notin Busy
      BY <2>13, <3>1 DEF Raises
    <3>3. pc'[t] = "rollback" /\ verified' = verified
      BY <2>13 DEF Raises
    <3> QED BY <3>1, <3>2, <3>3
  <2>14. CASE Cancelled(t)
    BY <2>14 DEF Cancelled, RollbackStep, Tears
  <2>15. CASE RollbackAborts(t)
    BY <2>15 DEF RollbackAborts, AbortMerge
  <2>16. CASE RollbackResets(t)
    BY <2>16, TasksAssumption DEF RollbackResets, ResetHard, Clean, OnlyReset, Leave
  <2> QED BY <1>2, <2>1, <2>2, <2>3, <2>4, <2>5, <2>6, <2>7, <2>8, <2>9, <2>10, <2>11, <2>12, <2>13, <2>14, <2>15, <2>16 DEF WorkerStep
<1>3. CASE JobEnds
  BY <1>3 DEF JobEnds
<1>4. CASE RecoverMerge
  BY <1>4 DEF RecoverMerge, AbortMerge
<1>5. CASE Recovered
  BY <1>5 DEF Recovered
<1>6. CASE CancelJob
  BY <1>6 DEF CancelJob
<1>7. CASE Crash
  BY <1>7 DEF Crash, TornMerge, Tears, Leave
<1>8. CASE Restart
  BY <1>8 DEF Restart
<1>9. CASE RecoveryFails
  BY <1>9 DEF RecoveryFails
<1> QED BY <1>1, <1>2, <1>3, <1>4, <1>5, <1>6, <1>7, <1>8, <1>9 DEF Next, JobStep

\* The branch as it is seen outside of a transaction.
Branch == IF owner = NoTask THEN head ELSE preMerge

\* Without faults only the end of a transaction shows in the branch or completes a task.
LEMMA QuietStep ==
  faults = {} /\ IInv /\ WholeInv /\ [Next]_vars
    => (\E t \in Tasks : Integrated(t)) \/ (Branch' = Branch /\ done' = done)
<1> DEFINE Quiet == Branch' = Branch /\ done' = done
<1> SUFFICES ASSUME faults = {}, IInv, WholeInv, [Next]_vars
           PROVE  (\E t \in Tasks : Integrated(t)) \/ Quiet
  OBVIOUS
<1> USE DEF IInv, TypeOK, Busy, Transaction, Goto, At, Up, KeepLocks, KeepJob, KeepTask, worktree, LockInv, WholeInv, Branch
<1>1. CASE UNCHANGED vars
  BY <1>1 DEF vars
<1>2. ASSUME NEW t \in Tasks, WorkerStep(t), ~Integrated(t) PROVE Quiet
  <2>1. CASE Reviewed(t)
    BY <2>1 DEF Reviewed
  <2>2. CASE Acquire(t)
    BY <2>2 DEF Acquire, LockFree
  <2>3. CASE Merge(t)
    <3>1. owner # NoTask
      BY <2>3, TasksAssumption DEF Merge
    <3>2. owner' = owner /\ preMerge' = preMerge /\ done' = done
      BY <2>3 DEF Merge
    <3> QED BY <3>1, <3>2
  <2>4. CASE AlreadyResolved(t)
    BY <2>4, TasksAssumption DEF AlreadyResolved, FinishMerge, CommitMerge, Clean
  <2>5. CASE ResolverRuns(t)
    BY <2>5 DEF ResolverRuns, LeavesIt, Resolves, Commits, Aborts, NextTurn
  <2>6. CASE ResolverFinishes(t)
    BY <2>6, TasksAssumption DEF ResolverFinishes, FinishMerge, CommitMerge, Clean, NextTurn
  <2>7. CASE GivesUp(t)
    BY <2>7 DEF GivesUp, AbortMerge, Release, Leave
  <2>8. CASE GatesPass(t)
    BY <2>8 DEF GatesPass, GatesWrite
  <2>9. CASE GatesFail(t)
    BY <2>9 DEF GatesFail, GatesWrite
  <2>10. CASE RepairerRuns(t)
    <3>1. owner # NoTask
      BY <2>10, TasksAssumption DEF RepairerRuns
    <3>2. owner' = owner /\ preMerge' = preMerge /\ done' = done
      BY <2>10 DEF RepairerRuns
    <3> QED BY <3>1, <3>2
  <2>11. CASE RollsBack(t)
    BY <2>11, TasksAssumption DEF RollsBack, ResetHard, Clean, Release, Leave
  <2>13. CASE Raises(t)
    BY <2>13, TasksAssumption DEF Raises
  <2>14. CASE Cancelled(t)
    BY <2>14 DEF Cancelled, RollbackStep, Tears
  <2>15. CASE RollbackAborts(t)
    BY <2>15 DEF RollbackAborts, AbortMerge
  <2>16. CASE RollbackResets(t)
    BY <2>16, TasksAssumption DEF RollbackResets, ResetHard, Clean, OnlyReset, Leave
  <2> QED BY <1>2, <2>1, <2>2, <2>3, <2>4, <2>5, <2>6, <2>7, <2>8, <2>9, <2>10, <2>11, <2>13, <2>14, <2>15, <2>16 DEF WorkerStep
<1>3. CASE JobEnds
  BY <1>3 DEF JobEnds
<1>4. CASE RecoverMerge
  BY <1>4 DEF RecoverMerge, AbortMerge
<1>5. CASE Recovered
  BY <1>5 DEF Recovered
<1>6. CASE CancelJob
  BY <1>6 DEF CancelJob
<1>7. CASE Crash
  BY <1>7 DEF Crash, TornMerge, Tears, Leave
<1>8. CASE Restart
  BY <1>8 DEF Restart
<1>9. CASE RecoveryFails
  BY <1>9 DEF RecoveryFails
<1> QED BY <1>1, <1>2, <1>3, <1>4, <1>5, <1>6, <1>7, <1>8, <1>9 DEF Next, JobStep

\* In a running job nothing that was cut short outlives its transaction.
LEMMA CleanStep == IInv /\ CleanInv /\ [Next]_vars => CleanInv'
<1> SUFFICES ASSUME IInv, CleanInv, [Next]_vars PROVE CleanInv'
  OBVIOUS
<1> USE TasksAssumption DEF IInv, TypeOK, Busy, Transaction, Goto, At, Up, KeepLocks, KeepJob, KeepTask, worktree, LockInv, MergeInv, Merged, CleanInv
<1>1. CASE UNCHANGED vars
  BY <1>1 DEF vars
<1>2. ASSUME NEW t \in Tasks, WorkerStep(t) PROVE CleanInv'
  <2>1. CASE Reviewed(t)
    BY <2>1 DEF Reviewed
  <2>2. CASE Acquire(t)
    <3>1. owner = NoTask /\ job = "running"
      BY <2>2 DEF Acquire, LockFree
    <3>2. unmerged' = unmerged /\ mergeHead' = mergeHead /\ dirty' = dirty
      BY <2>2 DEF Acquire
    <3> QED BY ONLY <3>1, <3>2, CleanInv DEF CleanInv
  <2>3. CASE Merge(t)
    BY <2>3 DEF Merge
  <2>4. CASE AlreadyResolved(t)
    BY <2>4 DEF AlreadyResolved, FinishMerge, CommitMerge, Clean
  <2>5. CASE ResolverRuns(t)
    <3>1. pc[t] = "resolving" /\ owner = t /\ owner' = owner /\ job' = job
      BY <2>5 DEF ResolverRuns
    <3>2. unmerged' => unmerged /\ mergeHead' = mergeHead
      BY <2>5 DEF ResolverRuns, LeavesIt, Resolves, Commits, Aborts
    <3>3. "torn" \in dirty' => "torn" \in dirty
      BY <2>5 DEF ResolverRuns, Writes
    <3>4. job = "running" => "torn" \notin dirty
      BY <3>1
    <3> QED BY ONLY <3>1, <3>2, <3>3, <3>4, CleanInv DEF CleanInv
  <2>6. CASE ResolverFinishes(t)
    BY <2>6 DEF ResolverFinishes, FinishMerge, CommitMerge, Clean, NextTurn
  <2>7. CASE GivesUp(t)
    BY <2>7 DEF GivesUp, AbortMerge, Release, Leave
  <2>8. CASE GatesPass(t)
    BY <2>8 DEF GatesPass, GatesWrite
  <2>9. CASE GatesFail(t)
    BY <2>9 DEF GatesFail, GatesWrite
  <2>10. CASE RepairerRuns(t)
    BY <2>10 DEF RepairerRuns, NextTurn
  <2>11. CASE RollsBack(t)
    BY <2>11 DEF RollsBack, ResetHard, Clean, Release, Leave
  <2>12. CASE Integrated(t)
    BY <2>12 DEF Integrated, Leave
  <2>13. CASE Raises(t)
    BY <2>13 DEF Raises, TornMerge, Tears
  <2>14. CASE Cancelled(t)
    BY <2>14 DEF Cancelled, RollbackStep, Tears
  <2>15. CASE RollbackAborts(t)
    BY <2>15 DEF RollbackAborts, AbortMerge
  <2>16. CASE RollbackResets(t)
    BY <2>16 DEF RollbackResets, ResetHard, Clean, OnlyReset, Leave
  <2> QED BY <1>2, <2>1, <2>2, <2>3, <2>4, <2>5, <2>6, <2>7, <2>8, <2>9, <2>10, <2>11, <2>12, <2>13, <2>14, <2>15, <2>16 DEF WorkerStep
<1>3. CASE JobEnds
  BY <1>3 DEF JobEnds
<1>4. CASE RecoverMerge
  BY <1>4 DEF RecoverMerge, AbortMerge
<1>5. CASE Recovered
  <2>1. unmerged' = FALSE /\ dirty' = {}
    BY <1>5 DEF Recovered, RecoverDirty
  <2> QED BY <2>1
<1>6. CASE CancelJob
  BY <1>6 DEF CancelJob
<1>7. CASE Crash
  BY <1>7 DEF Crash, TornMerge, Tears, Leave
<1>8. CASE Restart
  BY <1>8 DEF Restart
<1>9. CASE RecoveryFails
  BY <1>9 DEF RecoveryFails
<1> QED BY <1>1, <1>2, <1>3, <1>4, <1>5, <1>6, <1>7, <1>8, <1>9 DEF Next, JobStep

\* Only a worker that takes the lock starts a merge, and it finds the worktree clean.
LEMMA StartStep ==
  ASSUME IInv, CleanInv, [Next]_vars, NEW t \in Tasks, pc[t] = "waiting", pc'[t] = "merging"
  PROVE  mergeHead = NoTask /\ ~unmerged /\ dirty \subseteq {"left"}
<1> USE DEF IInv, TypeOK, Goto
<1>1. PICK u \in Tasks : WorkerStep(u)
  BY DEF Next, vars, JobStep, JobEnds, RecoverMerge, Recovered, RecoveryFails, CancelJob, Crash,
         Restart
<1>2. CASE Acquire(u)
  <2>1. owner = NoTask /\ job = "running"
    BY <1>2 DEF Acquire, LockFree
  <2>2. mergeHead = NoTask
    BY <2>1 DEF MergeInv
  <2>3. ~unmerged /\ "torn" \notin dirty
    BY <2>1, <2>2 DEF CleanInv
  <2> QED BY <2>2, <2>3 DEF Dirt
<1>3. CASE Reviewed(u)
  BY <1>3 DEF Reviewed
<1>4. CASE Merge(u)
  BY <1>4 DEF Merge
<1>5. CASE AlreadyResolved(u)
  BY <1>5 DEF AlreadyResolved, FinishMerge, At
<1>6. CASE ResolverRuns(u)
  BY <1>6 DEF ResolverRuns
<1>7. CASE ResolverFinishes(u)
  BY <1>7 DEF ResolverFinishes, FinishMerge
<1>8. CASE GivesUp(u)
  BY <1>8 DEF GivesUp, Release
<1>9. CASE GatesPass(u)
  BY <1>9 DEF GatesPass
<1>10. CASE GatesFail(u)
  BY <1>10 DEF GatesFail
<1>11. CASE RepairerRuns(u)
  BY <1>11 DEF RepairerRuns
<1>12. CASE RollsBack(u)
  BY <1>12 DEF RollsBack, Release
<1>13. CASE Integrated(u)
  BY <1>13 DEF Integrated
<1>14. CASE Raises(u)
  BY <1>14 DEF Raises
<1>15. CASE Cancelled(u)
  BY <1>15 DEF Cancelled, RollbackStep
<1>16. CASE RollbackAborts(u)
  BY <1>16 DEF RollbackAborts
<1>17. CASE RollbackResets(u)
  BY <1>17 DEF RollbackResets
<1> QED BY <1>1, <1>2, <1>3, <1>4, <1>5, <1>6, <1>7, <1>8, <1>9, <1>10, <1>11, <1>12, <1>13, <1>14, <1>15, <1>16, <1>17 DEF WorkerStep

\* The end of a transaction integrates the whole task.
LEMMA AtomicStep ==
  faults = {} /\ IInv /\ WholeInv /\ [Next]_vars => [Atomic!Next]_<<Visible, Shown>>
<1> SUFFICES ASSUME faults = {}, IInv, WholeInv, [Next]_vars
             PROVE  [Atomic!Next]_<<Visible, Shown>>
  OBVIOUS
<1>0. faults' = {}
  BY DEF Next, vars
<1>1. ASSUME NEW t \in Tasks, Integrated(t) PROVE Atomic!Integrate(t)
  <2>1. pc[t] = "integrated" /\ owner = t /\ t \notin done /\ owner # NoTask
    BY <1>1, TasksAssumption DEF Integrated, At, IInv, LockInv, Busy, Transaction
  <2>2. Visible = preMerge /\ Visible' = head /\ Shown = done /\ Shown' = done \cup {t}
    BY <1>0, <1>1, <2>1 DEF Integrated, Leave, Visible, Shown, worktree
  <2>3. \E fixes \in SUBSET {Fix(t)} : head = preMerge \cup {t} \cup fixes
    BY <2>1 DEF WholeInv, Merged
  <2> QED BY <2>1, <2>2, <2>3 DEF Atomic!Integrate
<1>2. CASE \E t \in Tasks : Integrated(t)
  BY <1>1, <1>2 DEF Atomic!Next
<1>3. CASE Branch' = Branch /\ done' = done
  BY <1>0, <1>3 DEF Branch, Visible, Shown
<1> QED BY <1>2, <1>3, QuietStep

-----------------------------------------------------------------------------
\* IInv is an inductive invariant.
LEMMA InductiveInv == Spec => []IInv
<1>1. IInv /\ [Next]_vars => IInv'
  BY TypeStep, LockStep, MergeStep, KeepStep DEF IInv
<1> QED BY <1>1, InitInv, PTL DEF Spec

\* Every variable of the integration always has its type (_integrate_task).
THEOREM TypeCorrect == Spec => []TypeOK
<1>1. IInv => TypeOK
  BY DEF IInv
<1> QED BY <1>1, InductiveInv, PTL

\* Crashes, cancellations, failing rollbacks and agents that commit or abort the
\* merge notwithstanding, a task that is completed and integrated is never taken
\* out of the integration branch (rollback of _integrate_task).
THEOREM KeepsCompletedHolds == Spec => KeepsCompleted
<1>1. IInv /\ [Next]_vars => [done \cap head \subseteq head']_vars
  BY KeptStep
<1> QED BY <1>1, InductiveInv, PTL DEF Spec, KeepsCompleted

\* As long as agents keep to their prompt, a completed task is in the integration
\* branch, in every run of the job and through every crash.
THEOREM CompletedIsIntegratedHolds == Spec => []CompletedIsIntegrated
<1> DEFINE Kept == "agent" \notin faults => AgentInv
<1>1. Init => Kept
  BY InitInv
<1>2. IInv /\ Kept /\ [Next]_vars => Kept'
  <2> SUFFICES ASSUME IInv, Kept, [Next]_vars, "agent" \notin faults' PROVE AgentInv'
    OBVIOUS
  <2>1. faults' = faults
    BY DEF Next, vars
  <2> QED BY <2>1, AgentStep
<1>3. Kept => CompletedIsIntegrated
  BY DEF AgentInv, CompletedIsIntegrated
<1> HIDE DEF Kept
<1> QED BY <1>1, <1>2, <1>3, InductiveInv, PTL DEF Spec

\* A transaction starts in a worktree without a merge, with nothing unresolved and with
\* nothing that a crash, an interruption, a failed merge or a failed repair has cut short;
\* only what gates wrote or a resolver left may lie there (_integrate_task, _run_job).
THEOREM StartsCleanHolds == Spec => StartsClean
<1>1. Init => CleanInv
  BY DEF Init, CleanInv
<1>2. IInv /\ CleanInv /\ [Next]_vars
        => [\A t \in Tasks : pc[t] = "waiting" /\ pc'[t] = "merging" =>
              mergeHead = NoTask /\ ~unmerged /\ dirty \subseteq {"left"}]_vars
  BY StartStep
<1> QED BY <1>1, <1>2, CleanStep, InductiveInv, PTL DEF Spec, StartsClean

\* Without faults the inductive invariant is stronger.
LEMMA WholeInductive == Spec => [](faults = {} => AgentInv /\ WholeInv)
<1> DEFINE Whole == faults = {} => AgentInv /\ WholeInv
<1>1. Init => Whole
  <2>1. Init => WholeInv
    BY DEF Init, WholeInv, Merged
  <2> QED BY <2>1, InitInv
<1>2. IInv /\ Whole /\ [Next]_vars => Whole'
  <2> SUFFICES ASSUME IInv, Whole, [Next]_vars, faults' = {} PROVE AgentInv' /\ WholeInv'
    OBVIOUS
  <2>1. faults' = faults
    BY DEF Next, vars
  <2> QED BY <2>1, AgentStep, WholeStep
<1> HIDE DEF Whole
<1>3. Spec => []Whole
  BY <1>1, <1>2, InductiveInv, PTL DEF Spec
<1> QED BY <1>3 DEF Whole

\* Without faults the branch stands at a commit whose gates have passed whenever nobody
\* is in a transaction, cancellations and errors at any await included.  The gates saw
\* that commit together with what lay beside it in the worktree.
THEOREM OnlyVerifiedRemainsHolds == Spec => []OnlyVerifiedRemains
<1>1. (faults = {} => AgentInv /\ WholeInv) => OnlyVerifiedRemains
  BY DEF WholeInv, OnlyVerifiedRemains
<1> QED BY <1>1, WholeInductive, PTL

\* Without faults _integrate_task is atomic: merge, resolution, gates and repairs show
\* in the branch together with the completion of the task, or not at all.
THEOREM IntegrationIsAtomic == Spec => ImplementsAtomicIntegration
<1>1. Init => Atomic!Init
  BY DEF Init, Atomic!Init, Visible, Shown
<1>2. IInv /\ (faults = {} => AgentInv /\ WholeInv) /\ [Next]_vars
        => [Atomic!Next]_<<Visible, Shown>>
  <2> SUFFICES ASSUME IInv, faults = {} => AgentInv /\ WholeInv, [Next]_vars
               PROVE  [Atomic!Next]_<<Visible, Shown>>
    OBVIOUS
  <2>1. CASE faults = {}
    BY <2>1, AtomicStep
  <2>2. CASE faults # {}
    <3>1. faults' = faults
      BY DEF Next, vars
    <3> QED BY <2>2, <3>1 DEF Visible, Shown
  <2> QED BY <2>1, <2>2
<1> QED BY <1>1, <1>2, InductiveInv, WholeInductive, PTL
        DEF Spec, ImplementsAtomicIntegration, Atomic!Spec
=============================================================================
