-------------------------- MODULE SourceApplyProofs --------------------------
(***************************************************************************)
(* Proofs about SourceApply, for any branches, any work of the user and    *)
(* any number of crashes: the Git commands of the reconciliation implement *)
(* AtomicApply, the published verdict is true, nothing is rewritten.       *)
(***************************************************************************)
EXTENDS SourceApply, TLAPS

Looking   == {"resolve", "branch", "clean", "head", "merge", "verify"}
Applied == moved[base] > 0

\* Each step belongs to one phase of the journal.
JournalInv ==
  /\ phase = "none" <=> pc = "working"
  /\ pc = "begin" => phase = "accepted"
  /\ pc \in Looking \cup {"publish", "stuck"} => phase = "applying"
  /\ pc = "down" => phase \in {"accepted", "applying"}
  /\ phase = "published" <=> pc = "done"
  /\ phase = "published" <=> outcome # "unset"
  /\ pc = "publish" => found # "unset"

\* The history of the base branch is complete.
LandedInv ==
  /\ phase = "none" => ~Applied
  /\ Accepted \subseteq tips[base] => landed

\* What the reconciliation has seen is still so, unless the user has raced with it.
SeenInv == Applying /\ ~raced =>
  /\ pc \in {"branch", "clean", "head", "merge", "verify"} => base # Detached
  /\ pc \in {"clean", "head", "merge", "verify"} => head = base
  /\ pc \in {"head", "merge", "verify"} => ~dirty
  /\ pc = "merge" => tips[base] = BaseCommit
  /\ Applied => Atomic!Contains /\ tips[base] = Accepted
  /\ pc = "verify" => Applied
  /\ pc = "publish" /\ found = "applied" => Atomic!Contains
  /\ pc = "publish" /\ found = "skipped" => ~Atomic!Eligible /\ ~Atomic!Contains

\* A verdict stays true when the user goes on working after it.
PublishedInv == phase = "published" => VerdictIsTrue

IInv == JournalInv /\ LandedInv /\ SeenInv /\ PublishedInv

-----------------------------------------------------------------------------
(* Types.                                                                  *)

LEMMA Commits ==
  /\ BaseCommit \subseteq Changes /\ Accepted \subseteq Changes /\ UserChanges \subseteq Changes
  /\ BaseCommit # Accepted /\ BaseCommit \subseteq Accepted /\ ~(Accepted \subseteq BaseCommit)
BY DEF BaseCommit, Accepted, Changes

LEMMA TypeInit == Init => TypeOK
<1> SUFFICES ASSUME Init PROVE TypeOK
  OBVIOUS
<1>1. tips \in [Branches -> SUBSET Changes]
  BY Commits DEF Init
<1>2. moved \in [Branches -> Nat] /\ integration \in SUBSET Changes /\ seen \in SUBSET Changes
  BY Commits DEF Init
<1>3. dirty \in BOOLEAN /\ landed \in BOOLEAN /\ raced \in BOOLEAN
  BY DEF Init
<1>4. users \in 0..MaxUser /\ restarts \in 0..MaxRestarts
  BY BoundsAssumption DEF Init
<1> QED BY <1>1, <1>2, <1>3, <1>4 DEF Init, TypeOK, Steps

LEMMA UserTypes == ASSUME TypeOK, User PROVE TypeOK'
<1>1. users' \in 0..MaxUser /\ raced' \in BOOLEAN
  <2>1. UserMay
    BY DEF User, UserCommits, UserEdits, UserSwitches, UserMerges, UserMovesIntegration
  <2>2. users' \in 0..MaxUser
    BY <2>1, BoundsAssumption DEF TypeOK, UserMay
  <2>3. raced' \in BOOLEAN
    BY <2>1 DEF TypeOK, UserMay
  <2> QED BY <2>2, <2>3
<1>2. landed' \in BOOLEAN
  BY DEF TypeOK, User, UserCommits, UserEdits, UserSwitches, UserMerges, UserMovesIntegration
<1>3. dirty' \in BOOLEAN
  BY DEF TypeOK, User, UserCommits, UserEdits, UserSwitches, UserMerges, UserMovesIntegration
<1>4. tips' \in [Branches -> SUBSET Changes]
  <2>1. CASE UserCommits
    BY <2>1, Commits DEF TypeOK, UserCommits
  <2>2. CASE UserSwitches
    BY <2>2 DEF TypeOK, UserSwitches
  <2>3. CASE UserMerges
    BY <2>3 DEF TypeOK, UserMerges
  <2> QED BY <2>1, <2>2, <2>3 DEF TypeOK, User, UserEdits, UserMovesIntegration
<1>5. integration' \in SUBSET Changes /\ head' \in Branches
  BY Commits DEF TypeOK, User, UserCommits, UserEdits, UserSwitches, UserMerges,
     UserMovesIntegration
<1>6. UNCHANGED <<base, phase, outcome, pc, seen, found, moved, restarts>>
  BY DEF User, UserCommits, UserEdits, UserSwitches, UserMerges, UserMovesIntegration, UserOnly,
     journal, local
<1> QED BY <1>1, <1>2, <1>3, <1>4, <1>5, <1>6 DEF TypeOK

LEMMA ToolTypes == ASSUME TypeOK, Tool PROVE TypeOK'
<1> USE Commits DEF TypeOK, git, journal, ToolOnly, Return, Raise, GoOn, Steps
<1>1. CASE Accept BY <1>1 DEF Accept
<1>2. CASE MarkApplyStarted BY <1>2 DEF MarkApplyStarted
<1>3. CASE ResolveIntegration BY <1>3 DEF ResolveIntegration
<1>4. CASE CheckBranch \/ CheckClean BY <1>4 DEF CheckBranch, CheckClean
<1>5. CASE ReadHead BY <1>5 DEF ReadHead
<1>6. CASE FastForward
  <2>1. tips' \in [Branches -> SUBSET Changes]
    BY <1>6 DEF FastForward
  <2>2. moved' \in [Branches -> Nat]
    BY <1>6 DEF FastForward
  <2>3. landed' \in BOOLEAN
    BY <1>6 DEF FastForward
  <2>4. UNCHANGED <<base, head, dirty, integration, phase, outcome, raced, users, restarts, seen, found>>
        /\ pc' = "verify"
    BY <1>6 DEF FastForward
  <2> QED BY <2>1, <2>2, <2>3, <2>4
<1>7. CASE VerifyHead BY <1>7 DEF VerifyHead
<1>8. CASE GitFails BY <1>8 DEF GitFails
<1>9. CASE Publish BY <1>9 DEF Publish
<1> QED BY <1>1, <1>2, <1>3, <1>4, <1>5, <1>6, <1>7, <1>8, <1>9 DEF Tool

LEMMA TypeStep == TypeOK /\ [Next]_vars => TypeOK'
<1> SUFFICES ASSUME TypeOK, [Next]_vars PROVE TypeOK'
  OBVIOUS
<1>1. CASE Crash
  BY <1>1, BoundsAssumption DEF Crash, TypeOK, git, journal, Steps
<1>2. CASE Restart
  BY <1>2 DEF Restart, Resumed, ToolOnly, TypeOK, git, journal, Steps
<1>3. CASE UNCHANGED vars
  BY <1>3 DEF vars, git, journal, local, TypeOK
<1> QED BY <1>1, <1>2, <1>3, UserTypes, ToolTypes DEF Next

-----------------------------------------------------------------------------
(* The invariant.                                                          *)

\* What the user may do, as the invariant sees it.
LEMMA UserInv == ASSUME TypeOK, IInv, User PROVE IInv'
<1>1. UNCHANGED <<base, phase, outcome, pc, seen, found, moved>>
  BY DEF User, UserCommits, UserEdits, UserSwitches, UserMerges, UserMovesIntegration, UserOnly,
     journal, local
<1>2. raced' = (raced \/ Applying)
  BY DEF User, UserCommits, UserEdits, UserSwitches, UserMerges, UserMovesIntegration, UserMay
<1>3. landed => landed'
  BY DEF User, UserCommits, UserEdits, UserSwitches, UserMerges, UserMovesIntegration
<1>4. Accepted \subseteq tips'[base] => landed'
  BY DEF IInv, LandedInv, User, UserCommits, UserEdits, UserSwitches, UserMerges,
     UserMovesIntegration, UserOnly, journal, local
<1>5. JournalInv'
  BY <1>1 DEF IInv, JournalInv
<1>6. LandedInv'
  BY <1>1, <1>4 DEF IInv, LandedInv, Applied
<1>7. SeenInv'
  BY <1>1, <1>2 DEF SeenInv, Applying
<1>8. PublishedInv'
  BY <1>1, <1>2, <1>3 DEF IInv, PublishedInv, VerdictIsTrue, SkippedIsTrue
<1> QED BY <1>5, <1>6, <1>7, <1>8 DEF IInv

\* The steps of the tool that leave Git alone.
LEMMA ReadingInv ==
  ASSUME TypeOK, IInv,
         \/ Accept \/ MarkApplyStarted \/ ResolveIntegration \/ CheckBranch \/ CheckClean
         \/ ReadHead \/ VerifyHead \/ GitFails
  PROVE  IInv'
<1>1. UNCHANGED <<base, tips, head, dirty, moved, landed, raced, outcome>>
  BY DEF Accept, MarkApplyStarted, ResolveIntegration, CheckBranch, CheckClean, ReadHead,
     VerifyHead, GitFails, ToolOnly, git, journal
<1>2. JournalInv'
  BY DEF IInv, JournalInv, Looking, Accept, MarkApplyStarted, ResolveIntegration, CheckBranch,
     CheckClean, ReadHead, VerifyHead, GitFails, ToolOnly, journal, Return, Raise, GoOn
<1>3. LandedInv'
  BY <1>1 DEF IInv, LandedInv, JournalInv, Applied, Accept, MarkApplyStarted, ResolveIntegration,
     CheckBranch, CheckClean, ReadHead, VerifyHead, GitFails, journal
<1>4. PublishedInv'
  BY <1>1, <1>2 DEF IInv, PublishedInv, JournalInv, VerdictIsTrue, SkippedIsTrue, Accept,
     MarkApplyStarted, ResolveIntegration, CheckBranch, CheckClean, ReadHead, VerifyHead,
     GitFails, Return, Raise, GoOn, journal, Looking
<1>5. SeenInv'
  <2> SUFFICES ASSUME ~raced, Applying' PROVE SeenInv'
    BY <1>1 DEF SeenInv
  <2>1. Atomic!Contains' = Atomic!Contains /\ Atomic!Eligible' = Atomic!Eligible
        /\ Applied' = Applied
    BY <1>1 DEF Atomic!Contains, Atomic!Eligible, Atomic!Usable, Applied
  <2> USE DEF IInv, JournalInv, SeenInv, Applying, Looking
  <2>2. CASE Accept
    BY <1>1, <2>1, <2>2 DEF Accept, LandedInv
  <2>3. CASE MarkApplyStarted
    BY <1>1, <2>1, <2>3 DEF MarkApplyStarted
  <2>4. CASE ResolveIntegration
    BY <1>1, <2>1, <2>4 DEF ResolveIntegration, Return, Raise, GoOn, journal, Atomic!Contains,
       Atomic!Eligible, Atomic!Usable
  <2>5. CASE CheckBranch
    BY <1>1, <2>1, <2>5 DEF CheckBranch, Return, GoOn, journal, Atomic!Contains,
       Atomic!Eligible, Atomic!Usable
  <2>6. CASE CheckClean
    BY <1>1, <2>1, <2>6 DEF CheckClean, Unclean, Return, GoOn, journal, Atomic!Contains,
       Atomic!Eligible, Atomic!Usable
  <2>7. CASE ReadHead
    BY <1>1, <2>1, <2>7, Commits DEF ReadHead, AlreadyThere, journal, Atomic!Contains,
       Atomic!Eligible, Atomic!Usable
  <2>8. CASE VerifyHead
    BY <1>1, <2>1, <2>8 DEF VerifyHead, Return, Raise, journal
  <2>9. CASE GitFails
    BY <1>1, <2>1, <2>9 DEF GitFails, Raise, journal
  <2> QED BY <2>2, <2>3, <2>4, <2>5, <2>6, <2>7, <2>8, <2>9
<1> QED BY <1>2, <1>3, <1>4, <1>5 DEF IInv

LEMMA FastForwardInv == ASSUME TypeOK, IInv, FastForward PROVE IInv'
<1>1. /\ pc = "merge" /\ pc' = "verify"
      /\ UNCHANGED <<base, head, dirty, phase, outcome, raced, found>>
  BY DEF FastForward, GoOn, journal
<1>2. phase = "applying" /\ outcome = "unset"
  BY <1>1 DEF IInv, JournalInv, Looking
<1>3. JournalInv' /\ PublishedInv'
  BY <1>1, <1>2 DEF IInv, JournalInv, PublishedInv, Looking
<1>4. Accepted \subseteq tips'[base] => landed'
  BY DEF FastForward, IInv, LandedInv
<1>5. LandedInv'
  BY <1>1, <1>2, <1>4 DEF LandedInv
<1>6. SeenInv'
  <2> SUFFICES ASSUME ~raced PROVE SeenInv'
    BY <1>1 DEF SeenInv
  <2>1. head = base /\ ~dirty /\ base # Detached /\ tips[base] = BaseCommit
    BY <1>1, <1>2 DEF IInv, SeenInv, Applying
  <2>2. tips' = [tips EXCEPT ![base] = Accepted]
        /\ moved' = [moved EXCEPT ![base] = @ + IF tips[base] = Accepted THEN 0 ELSE 1]
    BY <2>1, Commits DEF FastForward
  <2>3. tips'[base] = Accepted /\ moved'[base] = moved[base] + 1
    BY <2>1, <2>2, Commits DEF TypeOK
  <2>4. moved'[base] > 0
    BY <2>3 DEF TypeOK
  <2> QED BY <1>1, <2>1, <2>3, <2>4 DEF SeenInv, Applied, Atomic!Contains, Atomic!Usable
<1> QED BY <1>3, <1>5, <1>6 DEF IInv

LEMMA PublishInv == ASSUME TypeOK, IInv, Publish PROVE IInv'
<1>1. /\ pc = "publish" /\ pc' = "done" /\ phase' = "published" /\ outcome' = found
      /\ UNCHANGED <<base, tips, head, dirty, moved, landed, raced>>
  BY DEF Publish, ToolOnly, git
<1>2. phase = "applying" /\ found # "unset"
  BY <1>1 DEF IInv, JournalInv, Looking
<1>3. JournalInv' /\ LandedInv' /\ SeenInv'
  BY <1>1, <1>2 DEF IInv, JournalInv, LandedInv, SeenInv, Applied, Applying, Looking
<1>4. ~raced /\ found = "applied" => landed
  BY <1>1, <1>2 DEF IInv, SeenInv, LandedInv, Applying, Atomic!Contains
<1>5. ~raced /\ found = "skipped" => moved[base] = 0
  <2>1. ~raced /\ found = "skipped" => ~Applied
    BY <1>1, <1>2 DEF IInv, SeenInv, Applying
  <2>2. moved[base] \in Nat
    BY DEF TypeOK
  <2> QED BY <2>1, <2>2 DEF Applied
<1> QED BY <1>1, <1>3, <1>4, <1>5 DEF IInv, PublishedInv, VerdictIsTrue, SkippedIsTrue

\* What a crash forgets no later step relies on.
LEMMA RestartInv == ASSUME TypeOK, IInv, Crash \/ Restart PROVE IInv'
<1>1. UNCHANGED <<base, tips, head, dirty, moved, landed, raced, phase, outcome>>
  BY DEF Crash, Restart, ToolOnly, git, journal
<1>2. JournalInv'
  <2>1. CASE Crash
    BY <1>1, <2>1 DEF IInv, JournalInv, Looking, Crash, TypeOK, Steps
  <2>2. CASE Restart
    BY <1>1, <2>2 DEF IInv, JournalInv, Looking, Restart, Resumed
  <2> QED BY <2>1, <2>2
<1>3. pc' \in {"down", "begin", "resolve"}
  BY DEF Crash, Restart, Resumed
<1>4. LandedInv' /\ SeenInv' /\ PublishedInv'
  BY <1>1, <1>3 DEF IInv, LandedInv, SeenInv, PublishedInv, VerdictIsTrue, SkippedIsTrue,
     Applied, Applying, Atomic!Contains, Atomic!Usable
<1> QED BY <1>2, <1>4 DEF IInv

LEMMA IInvStep == TypeOK /\ IInv /\ [Next]_vars => IInv'
<1> SUFFICES ASSUME TypeOK, IInv, [Next]_vars PROVE IInv'
  OBVIOUS
<1>1. CASE UNCHANGED vars
  BY <1>1 DEF vars, git, journal, local, IInv, JournalInv, LandedInv, SeenInv, PublishedInv,
     VerdictIsTrue, SkippedIsTrue, Applied, Applying, Atomic!Contains, Atomic!Eligible,
     Atomic!Usable
<1> QED BY <1>1, UserInv, ReadingInv, FastForwardInv, PublishInv, RestartInv DEF Next, Tool

LEMMA IInvInit == Init => IInv
<1> SUFFICES ASSUME Init PROVE IInv
  OBVIOUS
<1>1. moved[base] = 0 /\ ~(Accepted \subseteq tips[base])
  BY Commits DEF Init
<1>2. phase = "none" /\ pc = "working" /\ outcome = "unset"
  BY DEF Init
<1> QED BY <1>1, <1>2 DEF IInv, JournalInv, LandedInv, SeenInv, PublishedInv, Looking, Applied,
        Applying

-----------------------------------------------------------------------------
(* The refinement.                                                         *)

LEMMA RefinesInit == Init => Atomic!Init
<1> SUFFICES ASSUME Init PROVE Atomic!Init
  OBVIOUS
<1>1. Verdict = "none"
  BY DEF Init, Verdict
<1>2. head \in Branches /\ dirty \in BOOLEAN /\ users = 0
  BY DEF Init
<1> QED BY <1>1, <1>2 DEF Init, Atomic!Init

\* As long as the user keeps away, a step of the tool decides or changes nothing.
LEMMA RefinesAlone ==
  ASSUME TypeOK, IInv, IInv', Tool \/ Crash \/ Restart, ~raced
  PROVE  [Atomic!Next]_(Atomic!vars)
<1>1. UNCHANGED <<base, head, dirty, raced, users>>
  BY DEF Tool, Accept, MarkApplyStarted, ResolveIntegration, CheckBranch, CheckClean, ReadHead,
     FastForward, VerifyHead, GitFails, Publish, Crash, Restart, ToolOnly, git
<1>2. CASE FastForward
  <2>1. pc = "merge" /\ phase = "applying" /\ outcome = "unset" /\ outcome' = "unset"
    BY <1>2 DEF FastForward, IInv, JournalInv, Looking, journal
  <2>2. head = base /\ ~dirty /\ base # Detached /\ tips[base] = BaseCommit
    BY <2>1 DEF IInv, SeenInv, Applying
  <2>3. tips' = [tips EXCEPT ![base] = Accepted]
        /\ moved' = [moved EXCEPT ![base] = @ + IF tips[base] = Accepted THEN 0 ELSE 1]
    BY <1>2, <2>2, Commits DEF FastForward
  <2>4. ~Applied
    BY <2>1, <2>2, Commits DEF IInv, SeenInv, Applying
  <2>5. moved'[base] > 0
    BY <2>2, <2>3, Commits DEF TypeOK
  <2>6. Verdict = "none" /\ Verdict' = "applied"
    BY <1>1, <2>1, <2>4, <2>5 DEF Verdict, Applied
  <2> QED BY <1>1, <2>2, <2>3, <2>6 DEF Atomic!Next, Atomic!Apply, Atomic!Eligible, Atomic!Usable
<1>3. CASE Publish
  <2>1. /\ pc = "publish" /\ phase = "applying" /\ outcome = "unset"
        /\ outcome' = found /\ found \in {"applied", "skipped"} /\ UNCHANGED <<tips, moved>>
    BY <1>3 DEF Publish, IInv, JournalInv, Looking, TypeOK, ToolOnly, git
  <2>2. Verdict' = found
    BY <2>1 DEF Verdict
  <2>3. CASE found = "applied"
    <3>1. Atomic!Contains
      BY <2>1, <2>3 DEF IInv, SeenInv, Applying
    <3>2. Verdict \in {"applied", "none"}
      BY <2>1 DEF Verdict
    <3> QED BY <1>1, <2>1, <2>2, <2>3, <3>1, <3>2 DEF Atomic!Next, Atomic!Find, Atomic!vars
  <2>4. CASE found = "skipped"
    <3>1. ~Atomic!Eligible /\ ~Atomic!Contains
      BY <2>1, <2>4 DEF IInv, SeenInv, Applying
    <3>2. ~Applied
      BY <2>1, <3>1 DEF IInv, SeenInv, Applying
    <3>3. Verdict = "none"
      BY <2>1, <3>2 DEF Verdict, Applied
    <3> QED BY <1>1, <2>1, <2>2, <2>4, <3>1, <3>3 DEF Atomic!Next, Atomic!Refuse
  <2> QED BY <2>1, <2>3, <2>4
<1>4. CASE ~FastForward /\ ~Publish
  <2>1. UNCHANGED <<tips, moved, outcome>>
    BY <1>4 DEF Tool, Accept, MarkApplyStarted, ResolveIntegration, CheckBranch, CheckClean,
       ReadHead, VerifyHead, GitFails, Crash, Restart, ToolOnly, git, journal
  <2> QED BY <1>1, <2>1 DEF Atomic!vars, Verdict
<1> QED BY <1>2, <1>3, <1>4

\* With a user who races with it, the tool moves at most the branch that is checked out, and
\* an answer is not withdrawn.
LEMMA RefinesRaced ==
  ASSUME TypeOK, IInv, Tool \/ Crash \/ Restart, raced
  PROVE  [Atomic!Next]_(Atomic!vars)
<1>1. UNCHANGED <<base, head, dirty, raced, users>>
  BY DEF Tool, Accept, MarkApplyStarted, ResolveIntegration, CheckBranch, CheckClean, ReadHead,
     FastForward, VerifyHead, GitFails, Publish, Crash, Restart, ToolOnly, git
<1>2. moved[base] > 0 => moved'[base] > 0
  <2>1. CASE FastForward
    BY <2>1 DEF FastForward, TypeOK
  <2>2. CASE ~FastForward
    BY <2>2 DEF Tool, Accept, MarkApplyStarted, ResolveIntegration, CheckBranch, CheckClean,
       ReadHead, VerifyHead, GitFails, Publish, Crash, Restart, ToolOnly
  <2> QED BY <2>1, <2>2
<1>3. outcome # "unset" => outcome' # "unset"
  <2>1. CASE Publish
    BY <2>1 DEF Publish, IInv, JournalInv
  <2>2. CASE ~Publish
    BY <2>2 DEF Tool, Accept, MarkApplyStarted, ResolveIntegration, CheckBranch, CheckClean,
       ReadHead, FastForward, VerifyHead, GitFails, Crash, Restart, ToolOnly, journal
  <2> QED BY <2>1, <2>2
<1>4. Verdict # "none" => Verdict' # "none"
  <2>1. outcome' \in {"unset", "applied", "skipped"}
    BY TypeStep DEF TypeOK, Next
  <2> QED BY <1>1, <1>2, <1>3, <2>1 DEF Verdict
<1>5. tips' \in {tips, [tips EXCEPT ![head] = Accepted]}
  <2>1. CASE FastForward
    BY <2>1 DEF FastForward
  <2>2. CASE ~FastForward
    BY <2>2 DEF Tool, Accept, MarkApplyStarted, ResolveIntegration, CheckBranch, CheckClean,
       ReadHead, VerifyHead, GitFails, Publish, Crash, Restart, ToolOnly, git
  <2> QED BY <2>1, <2>2
<1> QED BY <1>1, <1>4, <1>5 DEF Atomic!Next, Atomic!Raced

LEMMA RefinesStep ==
  TypeOK /\ IInv /\ IInv' /\ [Next]_vars => [Atomic!Next]_(Atomic!vars)
<1> SUFFICES ASSUME TypeOK, IInv, IInv', [Next]_vars PROVE [Atomic!Next]_(Atomic!vars)
  OBVIOUS
<1>1. CASE User
  <2>1. UNCHANGED <<base, outcome, moved>>
    BY <1>1 DEF User, UserCommits, UserEdits, UserSwitches, UserMerges, UserMovesIntegration,
       UserOnly, journal
  <2>2. (raced => raced') /\ users' = users + 1
    BY <1>1 DEF User, UserCommits, UserEdits, UserSwitches, UserMerges, UserMovesIntegration,
       UserMay
  <2> QED BY <2>1, <2>2 DEF Atomic!Next, Atomic!User, Verdict
<1>2. CASE UNCHANGED vars
  BY <1>2 DEF vars, git, journal, Atomic!vars, Verdict
<1> QED BY <1>1, <1>2, RefinesAlone, RefinesRaced DEF Next

-----------------------------------------------------------------------------
LEMMA Invariants == Spec => [](TypeOK /\ IInv)
BY TypeInit, TypeStep, IInvInit, IInvStep, PTL DEF Spec

\* The types of SourceApply, for any branches and bounds.
THEOREM TypeCorrect == Spec => []TypeOK
BY Invariants, PTL

\* The verdict that is published is true unless the user has raced with it, through any
\* number of crashes (reconcile_fast_forward_source, publish_completed_job).
THEOREM VerdictIsTrueHolds == Spec => []VerdictIsTrue
<1>1. TypeOK /\ IInv => VerdictIsTrue
  BY DEF IInv, JournalInv, PublishedInv, VerdictIsTrue, SkippedIsTrue
<1> QED BY <1>1, Invariants, PTL

\* No branch loses a commit to the tool, whatever the user does between its Git commands
\* (git merge --ff-only, git.py:723).
THEOREM NeverRewritesHolds == Spec => NeverRewrites
<1>1. TypeOK /\ [Next]_vars => [users' = users => \A b \in Branches : tips[b] \subseteq tips'[b]]_vars
  <2> SUFFICES ASSUME TypeOK, Next, users' = users
               PROVE  \A b \in Branches : tips[b] \subseteq tips'[b]
    OBVIOUS
  <2>1. ~User
    BY DEF User, UserCommits, UserEdits, UserSwitches, UserMerges, UserMovesIntegration, UserMay,
       TypeOK
  <2>2. CASE FastForward
    BY <2>2 DEF FastForward, CanFastForward, TypeOK
  <2>3. CASE ~FastForward
    BY <2>1, <2>3 DEF Next, Tool, Accept, MarkApplyStarted, ResolveIntegration, CheckBranch,
       CheckClean, ReadHead, VerifyHead, GitFails, Publish, Crash, Restart, ToolOnly, git
  <2> QED BY <2>2, <2>3
<1> QED BY <1>1, Invariants, PTL DEF Spec, NeverRewrites

\* The Git commands, torn apart by crashes and the user's work, are one atomic apply: apart
\* from the user's own steps only the original branch moves, once, when it was eligible
\* (reconcile_fast_forward_source, git.py:672).
THEOREM ApplyIsAtomic == Spec => ImplementsAtomicApply
BY RefinesInit, RefinesStep, Invariants, PTL DEF Spec, ImplementsAtomicApply, Atomic!Spec
=============================================================================
