---------------------------- MODULE FinalReview ----------------------------
(***************************************************************************)
(* The final acceptance of one job (_finalize): cycles of gates,           *)
(* hierarchical review and repair over the integration worktree, up to the *)
(* point where prepare_accepted_job makes the verdict durable.             *)
(*                                                                         *)
(* The candidate is the diff base..HEAD, of which only the number of       *)
(* shards of each changed file matters.  A step is one gate run, reviewer  *)
(* turn or agent turn; a stop, a failure or a crash falls between two.     *)
(***************************************************************************)
EXTENDS Naturals, FiniteSets

CONSTANTS Files, NoFile,
          MaxParts,     \* bound: shards of one file
          MaxCycles,    \* engine.max_final_cycles
          MaxAgents,    \* agents _repair_integration tries, at most 3
          Verdicts      \* what a reviewer answers: see VerdictKinds

\* "pass"; "told": not a pass, with something to say; "blank": not a pass, with
\* a summary and a list of findings that are all blank, which _run lets through.
VerdictKinds == {"pass", "told", "blank"}

ASSUME FilesAssumption    == NoFile \notin Files
ASSUME BoundsAssumption   == MaxParts \in Nat \ {0} /\ MaxCycles \in Nat /\ MaxAgents \in 1..3
ASSUME VerdictsAssumption == Verdicts \subseteq VerdictKinds

VARIABLES pc,
          parts,     \* the candidate: the number of shards of each changed file
          dirty,     \* what is not committed in the integration worktree: see Dirt
          cycle,     \* of _finalize
          agents,    \* left for this repair
          todo,      \* what the current stage of the review has still to judge
          findings,  \* some entry of the stage gives _review_failure a finding
          gated,     \* history: what the gates last passed on, "none" since it changed
          passed     \* history: verdicts of this audit that were "pass"

\* "left": what gates, or a resolver before the last task was integrated, have left there.
\* "torn": what a repair that failed or was interrupted has changed.
Dirt == {"left", "torn"}

history == <<gated, passed>>
vars == <<pc, parts, dirty, cycle, agents, todo, findings, history>>

Candidates == UNION {[changed -> 1..MaxParts] : changed \in SUBSET Files}

\* What is judged is a pair: a file and the number of a shard, or 0 for the synthesis
\* of the file.  The shards build_review_chunks makes; one empty shard when nothing changed.
Shards(candidate) ==
  IF DOMAIN candidate = {} THEN {<<NoFile, 1>>}
  ELSE UNION {{f} \X (1..candidate[f]) : f \in DOMAIN candidate}

\* Mutant: only a file with more than two shards gets a synthesis.
Synthesized_MoreThanTwo(candidate) == {<<f, 0>> : f \in {g \in DOMAIN candidate : candidate[g] > 2}}
Synthesized(candidate) == {<<f, 0>> : f \in {g \in DOMAIN candidate : candidate[g] > 1}}

Whole == <<NoFile, 0>>
Judgements == (Files \cup {NoFile}) \X (0..MaxParts)

Stages  == {"gates", "manifest", "shards", "files", "synthesis", "repair", "accepting"}
Settled == {"accepted", "failed", "stopped"}

TypeOK ==
  /\ pc \in Stages \cup Settled /\ parts \in Candidates /\ dirty \in SUBSET Dirt
  /\ cycle \in 0..MaxCycles /\ agents \in 0..MaxAgents
  /\ todo \subseteq Judgements /\ findings \in BOOLEAN
  /\ gated \in {"none", "whole", "torn"} /\ passed \subseteq Judgements

\* The worktree is as the integration of the tasks has left it.
Init ==
  /\ pc = "gates" /\ parts \in Candidates /\ dirty \in SUBSET {"left"} /\ cycle = 0 /\ agents = 0
  /\ todo = {} /\ findings = FALSE /\ gated = "none" /\ passed = {}

-----------------------------------------------------------------------------
KeepReview == UNCHANGED <<todo, findings>>
KeepCandidate == UNCHANGED <<parts, dirty>>

LastCycle == cycle >= MaxCycles

\* Gates or review refuse the candidate.
Refused ==
  IF LastCycle THEN pc' = "failed" /\ UNCHANGED agents
  ELSE pc' = "repair" /\ agents' = MaxAgents

\* The gates pass, refuse, or raise; they may leave files of their own behind.
RunGates ==
  /\ pc = "gates"
  /\ \/ /\ pc' = "manifest" /\ UNCHANGED agents
        /\ gated' = IF "torn" \in dirty THEN "torn" ELSE "whole"
     \/ Refused /\ gated' = "none"
     \/ pc' = "failed" /\ gated' = "none" /\ UNCHANGED agents
  /\ dirty' \in {dirty, dirty \cup {"left"}} /\ passed' = {}
  /\ UNCHANGED <<parts, cycle>> /\ KeepReview

\* build_review_chunks; it raises when the diff cannot be reviewed completely.
Manifest ==
  /\ pc = "manifest"
  /\ \/ pc' = "shards" /\ todo' = Shards(parts) /\ findings' = FALSE
     \/ pc' = "failed" /\ KeepReview
  /\ KeepCandidate /\ UNCHANGED <<cycle, agents, history>>

-----------------------------------------------------------------------------
(* The reviewer agent.                                                     *)

HasFinding(verdict) == verdict = "told"

\* One turn about one item of the stage.
Judge(item, verdict) ==
  /\ todo' = todo \ {item}
  /\ findings' = (findings \/ HasFinding(verdict))
  /\ passed' = IF verdict = "pass" THEN passed \cup {item} ELSE passed
  /\ KeepCandidate /\ UNCHANGED <<pc, cycle, agents, gated>>

ReviewShard ==
  /\ pc = "shards" /\ \E item \in todo, verdict \in Verdicts : Judge(item, verdict)

\* _review_failure over the shards, then the files that need a synthesis.
ShardsJudged ==
  /\ pc = "shards" /\ todo = {}
  /\ IF findings THEN Refused /\ KeepReview
     ELSE pc' = "files" /\ todo' = Synthesized(parts) /\ UNCHANGED <<agents, findings>>
  /\ KeepCandidate /\ UNCHANGED <<cycle, history>>

SynthesizeFile ==
  /\ pc = "files" /\ \E item \in todo, verdict \in Verdicts : Judge(item, verdict)

FilesJudged ==
  /\ pc = "files" /\ todo = {}
  /\ IF findings THEN Refused ELSE pc' = "synthesis" /\ UNCHANGED agents
  /\ KeepCandidate /\ KeepReview /\ UNCHANGED <<cycle, history>>

\* The verdict over the whole candidate: here only a pass passes.
Synthesize ==
  /\ pc = "synthesis"
  /\ \E verdict \in Verdicts :
       IF verdict = "pass"
         THEN pc' = "accepting" /\ passed' = passed \cup {Whole} /\ UNCHANGED agents
         ELSE Refused /\ UNCHANGED passed
  /\ KeepCandidate /\ KeepReview /\ UNCHANGED <<cycle, gated>>

\* The agent fails, answers too much or not in the agreed form: _run raises.
ReviewerFails ==
  /\ (pc \in {"shards", "files"} /\ todo # {}) \/ pc = "synthesis"
  /\ pc' = "failed"
  /\ KeepCandidate /\ KeepReview /\ UNCHANGED <<cycle, agents, history>>

-----------------------------------------------------------------------------
(* _repair_integration: an agent at a time until one can be committed.     *)

Tears == dirty' \in {dirty, dirty \cup {"torn"}}
NewCandidate == parts' \in Candidates /\ gated' = "none" /\ passed' = {}

\* Mutant: a repair does not count as a cycle.
NextCycle_Same == cycle
NextCycle == cycle + 1

\* The agent succeeds and commit_all commits whatever is in the worktree.
Repaired ==
  /\ pc = "repair"
  /\ dirty' = {}
  /\ NewCandidate \/ UNCHANGED <<parts, history>>
  /\ pc' = "gates" /\ cycle' = NextCycle
  /\ UNCHANGED agents /\ KeepReview

\* The agent or the commit fails: its edits, and its own commits, stay behind.
RepairFails ==
  /\ pc = "repair"
  /\ Tears
  /\ NewCandidate \/ UNCHANGED <<parts, history>>
  /\ agents' = agents - 1 /\ pc' = IF agents = 1 THEN "failed" ELSE "repair"
  /\ UNCHANGED cycle /\ KeepReview

-----------------------------------------------------------------------------
\* _complete_accepted_job: HEAD, the dossier and prepare_accepted_job, which are
\* not cut short by a cancellation; a dossier too large raises.
Accept ==
  /\ pc = "accepting" /\ pc' \in {"accepted", "failed"}
  /\ KeepCandidate /\ KeepReview /\ UNCHANGED <<cycle, agents, history>>

\* A stop or a crash; in the middle of a repair the worktree keeps what is there.
Interrupted ==
  /\ pc \in Stages /\ pc' = "stopped"
  /\ \/ KeepCandidate /\ UNCHANGED history
     \/ pc = "repair" /\ Tears /\ (NewCandidate \/ UNCHANGED <<parts, history>>)
  /\ KeepReview /\ UNCHANGED <<cycle, agents>>

\* Mutant: run_job takes the worktree over as it finds it.
ResetWorktree_Keep == UNCHANGED dirty
ResetWorktree == dirty' = {}

\* run_job again, after a restart or a resume, straight to _finalize because every
\* task is completed.
Resume ==
  /\ pc \in {"stopped", "failed"} /\ pc' = "gates"
  /\ ResetWorktree /\ cycle' = 0
  /\ KeepReview /\ UNCHANGED <<parts, agents, history>>

Audit == \/ RunGates \/ Manifest \/ ReviewShard \/ ShardsJudged \/ SynthesizeFile
         \/ FilesJudged \/ Synthesize \/ ReviewerFails \/ Repaired \/ RepairFails \/ Accept

Next == Audit \/ Interrupted \/ Resume

\* Agents and gates have timeouts, so that every turn ends.
Spec == Init /\ [][Next]_vars /\ WF_vars(Audit)

-----------------------------------------------------------------------------
\* Final review is fail-closed (docs/ARCHITECTURE.md, invariant 9): a candidate is
\* accepted only after a pass for every shard, for every file with several shards
\* and for the whole, all given to exactly this candidate in one audit.  Reviewers that
\* refuse with blank findings only (Verdicts without "blank") are left out: _review_failure
\* counts no such refusal of a shard or a file (orchestrator_integration.py:297).
FailClosed ==
  pc = "accepted" =>
    /\ <<NoFile, 0>> \in passed
    /\ \A f \in DOMAIN parts :
         /\ \A part \in 1..parts[f] : <<f, part>> \in passed
         /\ parts[f] > 1 => <<f, 0>> \in passed

\* The candidate that is accepted is the commit the final gates passed on, not that
\* commit with the leftovers of a repair that failed or was interrupted, in this run of
\* the job or an earlier one.  Files that gates or a resolver left may lie beside it.
GatedAsAccepted == pc = "accepted" => gated = "whole"

\* _finalize returns, raises or is stopped: repairs cannot go on for ever.
AuditEnds == pc \in Stages ~> pc \in Settled
=============================================================================
