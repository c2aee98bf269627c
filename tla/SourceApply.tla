---------------------------- MODULE SourceApply ----------------------------
(***************************************************************************)
(* Applying an accepted candidate to the source checkout:                  *)
(* Orchestrator._resume_accepted_job with its journal phases, and          *)
(* GitRepo.reconcile_fast_forward_source as the sequence of Git commands   *)
(* it is.  The source checkout belongs to the user, who edits, commits and *)
(* switches branches meanwhile; the daemon can die between two commands    *)
(* and starts over from the journal.                                       *)
(*                                                                         *)
(* A commit is the set of changes it contains, so "is an ancestor of" is   *)
(* "is a subset of"; a detached HEAD is the pseudo-branch Detached.        *)
(***************************************************************************)
EXTENDS Naturals, FiniteSets

CONSTANTS Branches,          \* what HEAD can name, Detached included
          Detached,
          UserChanges,       \* changes the user can commit
          MaxUser, MaxRestarts

ASSUME BranchAssumption == Detached \in Branches
ASSUME BoundsAssumption == MaxUser \in Nat /\ MaxRestarts \in Nat

VARIABLES base,         \* jobs.base_branch; Detached when submitted from a detached HEAD
          tips,         \* the commit of every branch
          head,         \* the branch checked out in the source worktree
          dirty,        \* uncommitted changes in the source worktree
          integration,  \* the commit of the integration branch
          phase,        \* jobs.acceptance_phase
          outcome,      \* jobs.source_apply_outcome
          pc,           \* the next step of _resume_accepted_job
          seen,         \* current_head, as reconcile read it
          found,        \* the outcome reconcile returned
          moved,        \* history: branches fast-forwarded for this job
          landed,       \* history: the base branch has contained the candidate
          raced,        \* history: the user worked in the checkout while it was being applied
          users, restarts

git     == <<base, tips, head, dirty, integration>>
journal == <<phase, outcome>>
local   == <<pc, seen, found>>
vars    == <<git, journal, local, moved, landed, raced, users, restarts>>

BaseCommit     == {"base"}
Accepted == {"base", "job"}
Changes  == BaseCommit \cup {"job"} \cup UserChanges

Steps == {"working", "begin", "resolve", "branch", "clean", "head", "merge", "verify",
          "publish", "done", "stuck", "down"}

TypeOK ==
  /\ base \in Branches /\ tips \in [Branches -> SUBSET Changes] /\ head \in Branches /\ dirty \in BOOLEAN
  /\ integration \in SUBSET Changes
  /\ phase \in {"none", "accepted", "applying", "published"}
  /\ outcome \in {"unset", "applied", "skipped"}
  /\ pc \in Steps /\ seen \in SUBSET Changes /\ found \in {"unset", "applied", "skipped"}
  /\ moved \in [Branches -> Nat] /\ landed \in BOOLEAN /\ raced \in BOOLEAN
  /\ users \in 0..MaxUser /\ restarts \in 0..MaxRestarts

\* The job was submitted from the branch checked out then, at BaseCommit; the
\* other branches are there too, or behind.
Init ==
  /\ base \in Branches
  /\ tips \in [Branches -> {{}, BaseCommit}] /\ tips[base] = BaseCommit
  /\ head = base /\ dirty = FALSE
  /\ integration = BaseCommit
  /\ phase = "none" /\ outcome = "unset"
  /\ pc = "working" /\ seen = {} /\ found = "unset"
  /\ moved = [b \in Branches |-> 0] /\ landed = FALSE /\ raced = FALSE
  /\ users = 0 /\ restarts = 0

-----------------------------------------------------------------------------
(* The user.                                                               *)

Applying == phase \in {"accepted", "applying"}

UserMay == users < MaxUser /\ users' = users + 1 /\ raced' = (raced \/ Applying)
UserOnly == UNCHANGED <<base, journal, local, moved, restarts>>

UserCommits ==
  /\ UserMay
  /\ \E u \in UserChanges : tips' = [tips EXCEPT ![head] = @ \cup {u}]
  /\ dirty' = FALSE
  /\ landed' = (landed \/ Accepted \subseteq tips'[base])
  /\ UNCHANGED <<head, integration>> /\ UserOnly

UserEdits == UserMay /\ dirty' = ~dirty /\ UNCHANGED <<tips, head, integration, landed>> /\ UserOnly

\* Detaching keeps the commit; a branch switch carries uncommitted changes along.
UserSwitches ==
  /\ UserMay
  /\ \E b \in Branches \ {head} :
       /\ head' = b
       /\ tips' = IF b = Detached THEN [tips EXCEPT ![b] = tips[head]] ELSE tips
  /\ landed' = (landed \/ Accepted \subseteq tips'[base])
  /\ UNCHANGED <<dirty, integration>> /\ UserOnly

\* The user takes the candidate by hand, or adds to the integration branch.
UserMerges ==
  /\ UserMay /\ phase # "none"
  /\ tips' = [tips EXCEPT ![head] = @ \cup integration]
  /\ landed' = (landed \/ Accepted \subseteq tips'[base])
  /\ UNCHANGED <<head, dirty, integration>> /\ UserOnly

UserMovesIntegration ==
  /\ UserMay /\ phase # "none"
  /\ \E u \in UserChanges : integration' = integration \cup {u}
  /\ UNCHANGED <<tips, head, dirty, landed>> /\ UserOnly

User == UserCommits \/ UserEdits \/ UserSwitches \/ UserMerges \/ UserMovesIntegration

-----------------------------------------------------------------------------
(* _complete_accepted_job and _resume_accepted_job.                        *)

ToolOnly == UNCHANGED <<git, moved, landed, raced, users, restarts>>

Accept ==
  /\ pc = "working"
  /\ integration' = Accepted /\ phase' = "accepted" /\ pc' = "begin"
  /\ UNCHANGED <<base, tips, head, dirty, outcome, seen, found, moved, landed, raced, users, restarts>>

MarkApplyStarted ==
  /\ pc = "begin"
  /\ phase' = "applying" /\ pc' = "resolve"
  /\ UNCHANGED <<outcome, seen, found>> /\ ToolOnly

Return(o) == found' = o /\ pc' = "publish" /\ UNCHANGED seen
Raise     == pc' = "stuck" /\ UNCHANGED <<seen, found>>
GoOn(next) == pc' = next /\ UNCHANGED <<seen, found>>

ResolveIntegration ==
  /\ pc = "resolve"
  /\ IF integration # Accepted THEN Raise
     ELSE IF base = Detached THEN Return("skipped") ELSE GoOn("branch")
  /\ UNCHANGED journal /\ ToolOnly

CheckBranch ==
  /\ pc = "branch"
  /\ IF head # base THEN Return("skipped") ELSE GoOn("clean")
  /\ UNCHANGED journal /\ ToolOnly

\* Mutant: the status of the worktree is not looked at.
Unclean_Never == FALSE
Unclean == dirty

CheckClean ==
  /\ pc = "clean"
  /\ IF Unclean THEN Return("skipped") ELSE GoOn("head")
  /\ UNCHANGED journal /\ ToolOnly

\* The commit was applied before: by an interrupted run, or by the user.
\* Mutant: only the very commit counts, not a descendant of it.
AlreadyThere_Never(c) == FALSE
AlreadyThere(c) == Accepted \subseteq c

ReadHead ==
  /\ pc = "head"
  /\ seen' = tips[head]
  /\ IF AlreadyThere(tips[head]) THEN found' = "applied" /\ pc' = "publish"
     ELSE IF tips[head] # BaseCommit THEN found' = "skipped" /\ pc' = "publish"
     ELSE UNCHANGED found /\ pc' = "merge"
  /\ UNCHANGED journal /\ ToolOnly

\* Mutant: the branch is reset to the candidate instead of fast-forwarded.
CanFastForward_Always(c) == TRUE
CanFastForward(c) == c \subseteq Accepted

\* git merge --ff-only moves whatever HEAD names now, local changes that are not
\* in its way notwithstanding; it refuses what is not a fast-forward (GitFails).
FastForward ==
  /\ pc = "merge"
  /\ \/ /\ CanFastForward(tips[head])
        /\ tips' = [tips EXCEPT ![head] = Accepted]
        /\ moved' = [moved EXCEPT ![head] = @ + IF tips[head] = Accepted THEN 0 ELSE 1]
        /\ landed' = (landed \/ Accepted \subseteq tips'[base])
        /\ GoOn("verify")
     \/ Accepted \subseteq tips[head] /\ GoOn("verify") /\ UNCHANGED <<tips, moved, landed>>
  /\ UNCHANGED <<base, head, dirty, integration, journal, raced, users, restarts>>

VerifyHead ==
  /\ pc = "verify"
  /\ IF tips[head] = Accepted THEN Return("applied") ELSE Raise
  /\ UNCHANGED journal /\ ToolOnly

Publish ==
  /\ pc = "publish"
  /\ phase' = "published" /\ outcome' = found /\ pc' = "done"
  /\ UNCHANGED <<seen, found>> /\ ToolOnly

\* Any Git command may fail or time out; reconcile then raises, whatever it had
\* done before.
GitFails ==
  /\ pc \in {"resolve", "branch", "clean", "head", "merge", "verify"}
  /\ Raise /\ UNCHANGED journal /\ ToolOnly

\* A crash, or the end of a daemon whose reconciliation raised.
Crash ==
  /\ pc \notin {"working", "done", "down"} /\ restarts < MaxRestarts
  /\ pc' = "down" /\ seen' = {} /\ found' = "unset" /\ restarts' = restarts + 1
  /\ UNCHANGED <<git, journal, moved, landed, raced, users>>

\* Mutant: only the first journal phase is resumed.
Resumed_OnlyAccepted == IF phase = "accepted" THEN "begin" ELSE "done"
Resumed == IF phase = "accepted" THEN "begin" ELSE "resolve"

Restart ==
  /\ pc = "down" /\ pc' = Resumed
  /\ UNCHANGED <<seen, found, journal>> /\ ToolOnly

Tool == \/ Accept \/ MarkApplyStarted \/ ResolveIntegration \/ CheckBranch \/ CheckClean
        \/ ReadHead \/ FastForward \/ VerifyHead \/ GitFails \/ Publish
Next == User \/ Tool \/ Crash \/ Restart

\* Git commands run under a timeout; the service manager restarts the daemon.
Spec == Init /\ [][Next]_vars /\ WF_vars(Tool) /\ WF_vars(Restart)

-----------------------------------------------------------------------------
\* The source is never rewritten (ARCHITECTURE.md:52): whatever the user does
\* between two Git commands of reconcile, no branch ever loses a commit to it.
NeverRewrites ==
  [][users' = users => \A b \in Branches : tips[b] \subseteq tips'[b]]_vars

\* A published "skipped" is true: the tool did not move the base branch for this
\* job, not even in an earlier life of the daemon that died before it published
\* (git.py:682).  The code keeps this if the user keeps away meanwhile.
SkippedIsTrue == outcome = "skipped" => moved[base] = 0

\* Unless the user raced with it, the published verdict is true: an "applied" base
\* branch did get the candidate, in this or in an earlier life of the daemon
\* (git.py:700-708, 731-738), and a "skipped" one did not.
VerdictIsTrue == ~raced => (outcome = "applied" => landed) /\ SkippedIsTrue

\* Accepted work is published, unless reconciliation raised and nobody restarts.
Publishes == Applying ~> (phase = "published" \/ pc = "stuck")

\* Until the user races with it, the sequence of Git commands, torn apart by
\* crashes, is one atomic apply: of all branches the tool moves only the original
\* one, once, clean and from the base commit, and no edit or commit of the user is
\* touched (README.md:143).  After a race it still moves only what is checked out.
Verdict == IF outcome # "unset" THEN outcome
           ELSE IF moved[base] > 0 THEN "applied" ELSE "none"
Atomic == INSTANCE AtomicApply WITH verdict <- Verdict, edits <- users
ImplementsAtomicApply == Atomic!Spec
=============================================================================
