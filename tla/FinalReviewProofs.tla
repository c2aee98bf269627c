------------------------- MODULE FinalReviewProofs -------------------------
(***************************************************************************)
(* Proofs about FinalReview, for every set of files and every bound: what  *)
(* is accepted is what the gates passed on, and the review is fail-closed  *)
(* as long as no reviewer refuses with blank findings only.                *)
(***************************************************************************)
EXTENDS FinalReview, TLAPS

Reviewing == {"manifest", "shards", "files", "synthesis", "accepting", "accepted"}

\* A repair always has an agent and another cycle left.
RepairInv == pc = "repair" => cycle < MaxCycles /\ agents > 0

\* The gates start without remains of a repair, and a review follows gates that passed so.
GateInv ==
  /\ pc = "gates" => "torn" \notin dirty
  /\ pc \in Reviewing => gated = "whole"

\* What the stage the audit has reached says about the verdicts so far.
AuditInv ==
  /\ pc = "shards" /\ ~findings => Shards(parts) \ todo \subseteq passed
  /\ pc \in {"files", "synthesis", "accepting", "accepted"} => Shards(parts) \subseteq passed
  /\ pc = "files" /\ ~findings => Synthesized(parts) \ todo \subseteq passed
  /\ pc \in {"synthesis", "accepting", "accepted"} => Synthesized(parts) \subseteq passed
  /\ pc \in {"accepting", "accepted"} => Whole \in passed

-----------------------------------------------------------------------------
\* What a candidate has to be judged for is a pair of a file and a number.
LEMMA JudgementsType ==
  ASSUME NEW c \in Candidates
  PROVE  /\ Shards(c) \subseteq Judgements
         /\ Synthesized(c) \subseteq Judgements
<1>1. PICK changed \in SUBSET Files : c \in [changed -> 1..MaxParts]
  BY DEF Candidates
<1>2. DOMAIN c \subseteq Files /\ \A f \in DOMAIN c : c[f] \in 1..MaxParts
  BY <1>1
<1>3. ASSUME NEW f \in DOMAIN c, NEW n \in 1..c[f] PROVE <<f, n>> \in Judgements
  BY <1>2, <1>3, BoundsAssumption DEF Judgements
<1>4. <<NoFile, 1>> \in Judgements /\ \A f \in DOMAIN c : <<f, 0>> \in Judgements
  BY <1>2, BoundsAssumption DEF Judgements
<1>5. Shards(c) \subseteq Judgements
  BY <1>3, <1>4 DEF Shards
<1>6. Synthesized(c) \subseteq Judgements
  BY <1>4 DEF Synthesized
<1> QED BY <1>5, <1>6

\* A turn of the reviewer keeps the types.
LEMMA JudgeType ==
  ASSUME TypeOK, NEW item \in todo, NEW verdict \in Verdicts, Judge(item, verdict)
  PROVE  TypeOK'
<1>1. todo' \subseteq Judgements /\ passed' \subseteq Judgements
  BY DEF TypeOK, Judge
<1>2. findings' \in BOOLEAN
  BY Zenon DEF TypeOK, Judge, HasFinding
<1> QED BY <1>1, <1>2 DEF TypeOK, Judge, KeepCandidate

LEMMA TypeStep == TypeOK /\ RepairInv /\ [Next]_vars => TypeOK'
<1> SUFFICES ASSUME TypeOK, RepairInv, [Next]_vars PROVE TypeOK'
  OBVIOUS
<1> USE DEF TypeOK, Stages, Settled
<1>1. CASE RunGates
  <2>1. findings' \in BOOLEAN
    BY Zenon, <1>1 DEF RunGates, KeepReview
  <2>5. dirty' \in SUBSET Dirt
    BY <1>1 DEF RunGates, Dirt
  <2>2. pc' \in Stages \cup Settled /\ agents' \in 0..MaxAgents
    BY <1>1, BoundsAssumption DEF RunGates, Refused
  <2>3. gated' \in {"none", "whole", "torn"} /\ passed' \subseteq Judgements
    BY <1>1 DEF RunGates
  <2>4. parts' \in Candidates /\ cycle' \in 0..MaxCycles /\ todo' \subseteq Judgements
    BY <1>1 DEF RunGates, KeepReview
  <2> QED BY <2>1, <2>2, <2>3, <2>4, <2>5
<1>2. CASE Manifest
  BY <1>2, JudgementsType DEF Manifest, KeepCandidate, KeepReview, history
<1>3. CASE ReviewShard
  BY <1>3, JudgeType DEF ReviewShard
<1>4. CASE ShardsJudged
  BY <1>4, BoundsAssumption, JudgementsType DEF ShardsJudged, Refused, KeepCandidate, KeepReview, history
<1>5. CASE SynthesizeFile
  BY <1>5, JudgeType DEF SynthesizeFile
<1>6. CASE FilesJudged
  BY <1>6, BoundsAssumption DEF FilesJudged, Refused, KeepCandidate, KeepReview, history
<1>7. CASE Synthesize
  <2>1. Whole \in Judgements
    BY BoundsAssumption DEF Whole, Judgements
  <2> QED BY <1>7, <2>1, BoundsAssumption DEF Synthesize, Refused, KeepCandidate, KeepReview
<1>8. CASE ReviewerFails
  BY <1>8 DEF ReviewerFails, KeepCandidate, KeepReview, history
<1>9. CASE Repaired
  <2>1. cycle' \in 0..MaxCycles
    BY <1>9, BoundsAssumption DEF Repaired, NextCycle, RepairInv
  <2> QED BY <1>9, <2>1 DEF Repaired, NewCandidate, KeepReview, history
<1>10. CASE RepairFails
  <2>1. agents' \in 0..MaxAgents
    BY <1>10, BoundsAssumption DEF RepairFails, RepairInv
  <2> QED BY <1>10, <2>1 DEF RepairFails, NewCandidate, Tears, Dirt, KeepReview, history
<1>11. CASE Accept
  BY <1>11 DEF Accept, KeepCandidate, KeepReview, history
<1>12. CASE Interrupted
  BY <1>12 DEF Interrupted, NewCandidate, Tears, Dirt, KeepCandidate, KeepReview, history
<1>13. CASE Resume
  BY <1>13, BoundsAssumption, 0 \in 0..MaxCycles DEF Resume, ResetWorktree, KeepReview, history
<1>14. CASE UNCHANGED vars
  BY <1>14 DEF vars, history
<1> QED BY <1>1, <1>2, <1>3, <1>4, <1>5, <1>6, <1>7, <1>8, <1>9, <1>10, <1>11, <1>12, <1>13, <1>14 DEF Next, Audit

LEMMA RepairStep == TypeOK /\ RepairInv /\ [Next]_vars => RepairInv'
<1> SUFFICES ASSUME TypeOK, RepairInv, [Next]_vars PROVE RepairInv'
  OBVIOUS
<1> USE BoundsAssumption DEF RepairInv, TypeOK
<1>1. ASSUME Refused, UNCHANGED cycle PROVE RepairInv'
  BY <1>1 DEF Refused, LastCycle
<1>2. CASE RunGates
  BY <1>1, <1>2 DEF RunGates
<1>3. CASE ShardsJudged
  BY <1>1, <1>3 DEF ShardsJudged
<1>4. CASE FilesJudged
  BY <1>1, <1>4 DEF FilesJudged
<1>5. CASE Synthesize
  BY <1>1, <1>5 DEF Synthesize
<1>6. CASE Manifest \/ ReviewShard \/ SynthesizeFile \/ ReviewerFails \/ Accept
  BY <1>6 DEF Manifest, ReviewShard, SynthesizeFile, Judge, ReviewerFails, Accept
<1>7. CASE Repaired
  BY <1>7 DEF Repaired
<1>8. CASE RepairFails
  BY <1>8 DEF RepairFails
<1>9. CASE Interrupted \/ Resume
  BY <1>9 DEF Interrupted, Resume
<1>10. CASE UNCHANGED vars
  BY <1>10 DEF vars
<1> QED BY <1>2, <1>3, <1>4, <1>5, <1>6, <1>7, <1>8, <1>9, <1>10 DEF Next, Audit

LEMMA GateStep == GateInv /\ [Next]_vars => GateInv'
<1> SUFFICES ASSUME GateInv, [Next]_vars PROVE GateInv'
  OBVIOUS
<1> USE DEF GateInv, Reviewing
<1>1. CASE RunGates
  BY <1>1 DEF RunGates, Refused
<1>2. CASE Manifest \/ ReviewerFails \/ Accept
  BY <1>2 DEF Manifest, ReviewerFails, Accept, KeepCandidate, history
<1>3. CASE ReviewShard \/ SynthesizeFile
  BY <1>3 DEF ReviewShard, SynthesizeFile, Judge, KeepCandidate
<1>4. CASE ShardsJudged \/ FilesJudged
  BY <1>4 DEF ShardsJudged, FilesJudged, Refused, KeepCandidate, history
<1>5. CASE Synthesize
  BY <1>5 DEF Synthesize, Refused, KeepCandidate
<1>6. CASE Repaired \/ RepairFails
  BY <1>6 DEF Repaired, RepairFails
<1>7. CASE Interrupted \/ Resume
  BY <1>7 DEF Interrupted, Resume, ResetWorktree
<1>8. CASE UNCHANGED vars
  BY <1>8 DEF vars, history
<1> QED BY <1>1, <1>2, <1>3, <1>4, <1>5, <1>6, <1>7, <1>8 DEF Next, Audit

\* Only a verdict other than "pass" leaves a judged item out of passed, and without
\* blank refusals it leaves a finding.
LEMMA AuditStep ==
  ASSUME "blank" \notin Verdicts
  PROVE  AuditInv /\ [Next]_vars => AuditInv'
<1> SUFFICES ASSUME AuditInv, [Next]_vars PROVE AuditInv'
  OBVIOUS
<1>1. ASSUME NEW item \in todo, NEW verdict \in Verdicts, Judge(item, verdict),
             NEW needed, ~findings => needed \ todo \subseteq passed
      PROVE  ~findings' => needed \ todo' \subseteq passed'
  <2>1. verdict = "pass" \/ verdict = "told"
    BY VerdictsAssumption DEF VerdictKinds
  <2>2. CASE verdict = "pass"
    BY <1>1, <2>2 DEF Judge
  <2>3. CASE verdict = "told"
    BY <1>1, <2>3 DEF Judge, HasFinding
  <2> QED BY <2>1, <2>2, <2>3
<1>2. CASE RunGates
  BY <1>2 DEF AuditInv, RunGates, Refused
<1>3. CASE Manifest
  BY <1>3 DEF AuditInv, Manifest, KeepCandidate
<1>4. CASE ReviewShard
  <2>1. ~findings' => Shards(parts) \ todo' \subseteq passed'
    BY <1>1, <1>4 DEF AuditInv, ReviewShard
  <2> QED BY <1>4, <2>1 DEF AuditInv, ReviewShard, Judge, KeepCandidate
<1>5. CASE ShardsJudged
  BY <1>5 DEF AuditInv, ShardsJudged, Refused, KeepCandidate, history
<1>6. CASE SynthesizeFile
  <2>1. ~findings' => Synthesized(parts) \ todo' \subseteq passed'
    BY <1>1, <1>6 DEF AuditInv, SynthesizeFile
  <2>2. Shards(parts) \subseteq passed'
    BY <1>6 DEF AuditInv, SynthesizeFile, Judge
  <2> QED BY <1>6, <2>1, <2>2 DEF AuditInv, SynthesizeFile, Judge, KeepCandidate
<1>7. CASE FilesJudged
  BY <1>7 DEF AuditInv, FilesJudged, Refused, KeepCandidate, history
<1>8. CASE Synthesize
  BY <1>8 DEF AuditInv, Synthesize, Refused, KeepCandidate
<1>9. CASE ReviewerFails
  BY <1>9 DEF AuditInv, ReviewerFails
<1>10. CASE Repaired \/ RepairFails
  BY <1>10 DEF AuditInv, Repaired, RepairFails
<1>11. CASE Accept
  BY <1>11 DEF AuditInv, Accept, KeepCandidate, history
<1>12. CASE Interrupted \/ Resume
  BY <1>12 DEF AuditInv, Interrupted, Resume
<1>13. CASE UNCHANGED vars
  BY <1>13 DEF AuditInv, vars, history
<1> QED BY <1>2, <1>3, <1>4, <1>5, <1>6, <1>7, <1>8, <1>9, <1>10, <1>11, <1>12, <1>13 DEF Next, Audit

-----------------------------------------------------------------------------
\* Every variable of the final review always has its type, and no cycle or agent is
\* counted beyond its limit (_finalize, _repair_integration).
THEOREM TypeCorrect == Spec => []TypeOK
<1>1. Init => TypeOK /\ RepairInv
  <2>1. 0 \in 0..MaxCycles /\ 0 \in 0..MaxAgents
    BY BoundsAssumption
  <2>2. Init => TypeOK
    BY <2>1 DEF Init, TypeOK, Stages, Dirt
  <2> QED BY <2>2 DEF Init, RepairInv
<1> QED BY <1>1, TypeStep, RepairStep, PTL DEF Spec

\* The candidate that is accepted is the commit the final gates passed on, whatever
\* the reviewers answer and the repairs leave behind (_finalize, run_job).
THEOREM GatedAsAcceptedHolds == Spec => []GatedAsAccepted
<1>1. Init => GateInv
  BY DEF Init, GateInv, Reviewing
<1>2. GateInv => GatedAsAccepted
  BY DEF GateInv, Reviewing, GatedAsAccepted
<1> QED BY <1>1, <1>2, GateStep, PTL DEF Spec

\* The final review is fail-closed for reviewers whose refusals are never made of
\* blank findings only (_hierarchical_final_review, _review_failure).
THEOREM FailClosedHolds ==
  ASSUME "blank" \notin Verdicts
  PROVE  Spec => []FailClosed
<1>1. Init => AuditInv
  BY DEF Init, AuditInv
<1>2. TypeOK /\ AuditInv => FailClosed
  <2> SUFFICES ASSUME TypeOK, AuditInv, pc = "accepted" PROVE FailClosed
    BY DEF FailClosed
  <2>1. Shards(parts) \subseteq passed /\ Synthesized(parts) \subseteq passed /\ Whole \in passed
    BY DEF AuditInv
  <2>2. ASSUME NEW f \in DOMAIN parts, NEW part \in 1..parts[f] PROVE <<f, part>> \in passed
    BY <2>1, <2>2 DEF Shards
  <2>3. ASSUME NEW f \in DOMAIN parts, parts[f] > 1 PROVE <<f, 0>> \in passed
    BY <2>1, <2>3 DEF Synthesized
  <2> QED BY <2>1, <2>2, <2>3 DEF FailClosed, Whole
<1>3. AuditInv /\ [Next]_vars => AuditInv'
  BY AuditStep
<1> QED BY <1>1, <1>2, <1>3, TypeCorrect, PTL DEF Spec
=============================================================================
