-------------------------- MODULE ProcessRunProofs --------------------------
(***************************************************************************)
(* Proofs about ProcessRun, for any number of commands, pumps and          *)
(* cancellations: a termination leaves nobody in the group, a run leaves   *)
(* nothing at work, and nothing passes unproven.                           *)
(***************************************************************************)
EXTENDS ProcessRun, TLAPS

\* A termination under way.
Busy == {"grace", "poll", "reap"}

\* From the SIGKILL on, or once the group was not found, nobody can join it again.
GroupInv ==
  \A a \in Actors : kill[a] \in {"reap", "done"} => leader # "running" /\ child # "member"

\* A termination that is over has seen the leader reaped.
DoneInv == \A a \in Actors : kill[a] = "done" => leader # "exited"

KillInv == GroupInv /\ DoneInv

\* Who terminates the group is in the part of its code that waits for it.
ActorInv ==
  /\ \A p \in Pumps : kill[p] \in Busy => pump[p] = "killing"
  /\ kill["run"] \in Busy => pc = "terminating"
  /\ kill["drain"] \in Busy => drain = "killing"

\* The drain is there only while the run waits for it, and is over only with the pumps.
DrainInv ==
  /\ drain # "none" => pc = "draining"
  /\ drain = "done" => Pending = {}
  /\ pc \in {"starting", "ended"} => Pending = {}

\* What a passed run was judged by does not change any more.
PassedInv ==
  outcome = "passed" =>
    /\ pc = "ended" /\ leader = "known" /\ clean /\ ~timedOut /\ ~told
    /\ \A p \in Pumps : pump[p] = "eof"

-----------------------------------------------------------------------------
(* Types.                                                                  *)

LEMMA TypeInit == Init => TypeOK
<1> SUFFICES ASSUME Init PROVE TypeOK
  OBVIOUS
<1>1. pump \in [Pumps -> {"reading", "killing"} \cup Settled]
  BY DEF Init, Settled
<1>2. kill \in [Actors -> {"none", "grace", "poll", "reap", "done", "cut"}]
  BY DEF Init
<1>3. clean \in BOOLEAN /\ holds \in BOOLEAN /\ timedOut \in BOOLEAN /\ stopped \in BOOLEAN
      /\ overdue \in BOOLEAN /\ told \in BOOLEAN /\ hit \in BOOLEAN
  BY DEF Init
<1>4. command \in 1..Commands /\ cancels \in 0..MaxCancels
  BY CommandsAssumption DEF Init
<1> QED BY <1>1, <1>2, <1>3, <1>4 DEF Init, TypeOK

\* A termination begins in one of the states of its progress.
LEMMA TerminateTypes ==
  ASSUME TypeOK, NEW a \in Actors, Terminate(a)
  PROVE  kill' \in [Actors -> {"none", "grace", "poll", "reap", "done", "cut"}]
BY DEF TypeOK, Terminate, Begun

LEMMA ProcessTypes ==
  ASSUME TypeOK, Forks \/ ChildExits \/ LeaderExits \/ Reaped \/ Cancel PROVE TypeOK'
<1> USE DEF TypeOK, Outside, processes, run, draining, calls
<1>1. CASE Forks BY <1>1 DEF Forks
<1>2. CASE ChildExits BY <1>2 DEF ChildExits
<1>3. CASE LeaderExits BY <1>3 DEF LeaderExits
<1>4. CASE Reaped BY <1>4 DEF Reaped
<1>5. CASE Cancel BY <1>5, CommandsAssumption DEF Cancel
<1> QED BY <1>1, <1>2, <1>3, <1>4, <1>5

LEMMA KillTypes ==
  ASSUME TypeOK, NEW a \in Actors, Termination(a) PROVE TypeOK'
<1> USE DEF TypeOK, Termination, processes, run, draining, calls
<1>1. CASE GraceEnds(a) BY <1>1 DEF GraceEnds, Graced
<1>2. CASE FindsGone(a) BY <1>2 DEF FindsGone
<1>3. CASE Kills(a)
  <2>1. kill' \in [Actors -> {"none", "grace", "poll", "reap", "done", "cut"}]
    BY <1>3 DEF Kills
  <2>2. clean' \in BOOLEAN
    BY <1>3 DEF Kills
  <2> QED BY <1>3, <2>1, <2>2 DEF Kills
<1>4. CASE Waits(a) BY <1>4 DEF Waits
<1> QED BY <1>1, <1>2, <1>3, <1>4 DEF Termination

LEMMA PumpTypes ==
  ASSUME TypeOK, NEW p \in Pumps, PumpStep(p) PROVE TypeOK'
<1>1. CASE PumpEnds(p) \/ PumpRaises(p)
  BY <1>1 DEF TypeOK, PumpEnds, PumpRaises, processes, run, draining, calls, Settled
<1>2. CASE PumpFails(p)
  <2>1. kill' \in [Actors -> {"none", "grace", "poll", "reap", "done", "cut"}]
    BY <1>2, TerminateTypes DEF PumpFails, Actors
  <2> QED BY <1>2, <2>1 DEF TypeOK, PumpFails, processes, run, draining, calls, Settled
<1> QED BY <1>1, <1>2 DEF PumpStep

LEMMA DrainTypes == ASSUME TypeOK, DrainStep PROVE TypeOK'
<1> USE DEF TypeOK, DrainOnly, processes, run, draining, calls
<1>1. CASE DrainEnds BY <1>1 DEF DrainEnds
<1>2. CASE DrainTimesOut
  <2>1. kill' \in [Actors -> {"none", "grace", "poll", "reap", "done", "cut"}]
    BY <1>2, TerminateTypes DEF DrainTimesOut, Actors
  <2> QED BY <1>2, <2>1 DEF DrainTimesOut
<1>3. CASE DrainKilled BY <1>3 DEF DrainKilled
<1>4. CASE DrainGivesUp
  <2>1. pump' \in [Pumps -> {"reading", "killing"} \cup Settled]
    BY <1>4 DEF DrainGivesUp, Settled
  <2>2. kill' \in [Actors -> {"none", "grace", "poll", "reap", "done", "cut"}]
    BY <1>4 DEF DrainGivesUp
  <2> QED BY <1>4, <2>1, <2>2 DEF DrainGivesUp
<1>5. CASE DrainIsCancelled
  <2>1. told' \in BOOLEAN /\ hit' \in BOOLEAN
    BY <1>5 DEF DrainIsCancelled
  <2>2. UNCHANGED <<processes, pump, kill, run, drain, overdue, cancels>>
    BY <1>5 DEF DrainIsCancelled, Shielded
  <2> QED BY <2>1, <2>2
<1> QED BY <1>1, <1>2, <1>3, <1>4, <1>5 DEF DrainStep

LEMMA RunTypes == ASSUME TypeOK, RunStep PROVE TypeOK'
<1> USE DEF TypeOK, Drains, processes, run, draining, calls
<1>1. CASE Begin
  <2>1. pump' \in [Pumps -> {"reading", "killing"} \cup Settled]
    BY <1>1 DEF Begin
  <2>2. kill' \in [Actors -> {"none", "grace", "poll", "reap", "done", "cut"}]
    BY <1>1 DEF Begin
  <2> QED BY <1>1, <2>1, <2>2 DEF Begin
<1>2. CASE CannotBegin BY <1>2 DEF CannotBegin
<1>3. CASE WaitReturns BY <1>3 DEF WaitReturns
<1>4. CASE TimesOut \/ IsCancelled
  <2>1. kill' \in [Actors -> {"none", "grace", "poll", "reap", "done", "cut"}]
    BY <1>4, TerminateTypes DEF TimesOut, IsCancelled, Actors
  <2> QED BY <1>4, <2>1 DEF TimesOut, IsCancelled
<1>5. CASE TerminationEnds BY <1>5 DEF TerminationEnds
<1>6. CASE TerminationIsCut BY <1>6 DEF TerminationIsCut, Actors
<1>7. CASE RunEnds
  <2>1. outcome' \in {"none", "passed", "failed", "error", "cancelled"}
    BY <1>7 DEF RunEnds, Raised
  <2>2. command' \in 1..Commands
    BY <1>7, CommandsAssumption DEF RunEnds
  <2> QED BY <1>7, <2>1, <2>2 DEF RunEnds
<1> QED BY <1>1, <1>2, <1>3, <1>4, <1>5, <1>6, <1>7 DEF RunStep

LEMMA TypeStep == TypeOK /\ [Next]_vars => TypeOK'
<1> SUFFICES ASSUME TypeOK, [Next]_vars PROVE TypeOK'
  OBVIOUS
<1>1. CASE UNCHANGED vars
  BY <1>1 DEF TypeOK, vars, processes, run, draining, calls
<1> QED BY <1>1, ProcessTypes, KillTypes, PumpTypes, DrainTypes, RunTypes DEF Next

-----------------------------------------------------------------------------
(* The group.                                                              *)

\* A termination that begins finds the group gone, or has everything before it.
LEMMA BegunGroup ==
  ASSUME TypeOK, KillInv, NEW a \in Actors, Terminate(a), UNCHANGED processes
  PROVE  KillInv'
BY DEF TypeOK, KillInv, GroupInv, DoneInv, Terminate, Begun, Alive, processes

LEMMA KillStep == TypeOK /\ KillInv /\ [Next]_vars => KillInv'
<1> SUFFICES ASSUME TypeOK, KillInv, [Next]_vars PROVE KillInv'
  OBVIOUS
<1> USE DEF KillInv, GroupInv, DoneInv
<1>1. CASE UNCHANGED <<leader, child, kill>>
  BY <1>1
<1>2. CASE Forks \/ ChildExits \/ LeaderExits \/ Reaped
  BY <1>2 DEF Forks, ChildExits, LeaderExits, Reaped, Outside
<1>3. ASSUME NEW a \in Actors, Termination(a) PROVE KillInv'
  <2>1. CASE GraceEnds(a)
    BY <2>1 DEF TypeOK, GraceEnds, Graced, processes
  <2>2. CASE FindsGone(a)
    BY <2>2 DEF TypeOK, FindsGone, Alive, processes
  <2>3. CASE Kills(a)
    BY <2>3 DEF TypeOK, Kills
  <2>4. CASE Waits(a)
    BY <2>4 DEF TypeOK, Waits, processes
  <2> QED BY <1>3, <2>1, <2>2, <2>3, <2>4 DEF Termination
<1>4. CASE TimesOut \/ IsCancelled
  BY <1>4, BegunGroup DEF TimesOut, IsCancelled, Actors
<1>5. CASE DrainTimesOut
  BY <1>5, BegunGroup DEF DrainTimesOut, DrainOnly, Actors
<1>6. ASSUME NEW p \in Pumps, PumpFails(p) PROVE KillInv'
  BY <1>6, BegunGroup DEF PumpFails, Actors
<1>7. CASE Begin
  BY <1>7 DEF Begin
<1>8. CASE TerminationIsCut
  BY <1>8 DEF TerminationIsCut, TypeOK, processes
<1>9. CASE DrainGivesUp
  BY <1>9 DEF DrainGivesUp, DrainOnly, TypeOK, processes
<1>10. CASE Cancel \/ CannotBegin \/ WaitReturns \/ TerminationEnds \/ RunEnds
           \/ DrainEnds \/ DrainKilled \/ DrainIsCancelled
  BY <1>1, <1>10 DEF Cancel, CannotBegin, WaitReturns, TerminationEnds, RunEnds,
     DrainEnds, DrainKilled, DrainIsCancelled, DrainOnly, processes
<1>11. ASSUME NEW p \in Pumps, PumpEnds(p) \/ PumpRaises(p) PROVE KillInv'
  BY <1>1, <1>11 DEF PumpEnds, PumpRaises, processes
<1>12. CASE UNCHANGED vars
  BY <1>1, <1>12 DEF vars, processes
<1> QED BY <1>2, <1>3, <1>4, <1>5, <1>6, <1>7, <1>8, <1>9, <1>10, <1>11, <1>12
        DEF Next, RunStep, DrainStep, PumpStep

-----------------------------------------------------------------------------
(* The coroutines.                                                         *)

\* Only the actors of a step change how far their terminations are.
LEMMA ActorStep == TypeOK /\ ActorInv /\ DrainInv /\ [Next]_vars => ActorInv'
<1> SUFFICES ASSUME TypeOK, ActorInv, DrainInv, [Next]_vars PROVE ActorInv'
  OBVIOUS
<1> USE PumpsAssumption DEF ActorInv, Busy
<1>1. CASE UNCHANGED <<pump, kill, pc, drain>>
  BY <1>1
<1>2. CASE Forks \/ ChildExits \/ LeaderExits \/ Reaped \/ Cancel \/ UNCHANGED vars
  BY <1>1, <1>2 DEF Forks, ChildExits, LeaderExits, Reaped, Cancel, Outside, vars, run, draining
<1>3. ASSUME NEW a \in Actors, Termination(a) PROVE ActorInv'
  <2>1. kill[a] \in Busy /\ UNCHANGED <<pump, pc, drain>>
    BY <1>3 DEF Termination, GraceEnds, FindsGone, Kills, Waits, run, draining
  <2>2. \A b \in Actors : b # a => kill'[b] = kill[b]
    BY <1>3 DEF TypeOK, Termination, GraceEnds, FindsGone, Kills, Waits
  <2> QED BY <2>1, <2>2 DEF Actors
<1>4. CASE TimesOut \/ IsCancelled
  <2>1. \A b \in Actors : b # "run" => kill'[b] = kill[b]
    BY <1>4 DEF TypeOK, TimesOut, IsCancelled, Terminate
  <2> QED BY <1>4, <2>1 DEF TimesOut, IsCancelled, draining, Actors
<1>5. CASE DrainTimesOut
  <2>1. \A b \in Actors : b # "drain" => kill'[b] = kill[b]
    BY <1>5 DEF TypeOK, DrainTimesOut, Terminate
  <2> QED BY <1>5, <2>1 DEF DrainTimesOut, DrainOnly, run, Actors
<1>6. ASSUME NEW p \in Pumps, PumpStep(p) PROVE ActorInv'
  <2>1. pump'[p] = "killing" \/ kill'[p] \notin Busy
    BY <1>6 DEF TypeOK, PumpStep, PumpEnds, PumpFails, PumpRaises
  <2>2. /\ \A b \in Actors : b # p => kill'[b] = kill[b]
        /\ \A q \in Pumps : q # p => pump'[q] = pump[q]
    BY <1>6 DEF TypeOK, PumpStep, PumpEnds, PumpFails, PumpRaises, Terminate
  <2>3. UNCHANGED <<pc, drain>>
    BY <1>6 DEF PumpStep, PumpEnds, PumpFails, PumpRaises, run, draining
  <2> QED BY <2>1, <2>2, <2>3 DEF Actors
<1>7. CASE Begin
  BY <1>7 DEF Begin, Actors, draining
<1>8. CASE CannotBegin \/ WaitReturns
  BY <1>8 DEF CannotBegin, WaitReturns, Drains, DrainInv, draining
<1>9. CASE TerminationEnds \/ TerminationIsCut
  BY <1>9 DEF TerminationEnds, TerminationIsCut, Drains, DrainInv, TypeOK, Actors
<1>10. CASE RunEnds
  BY <1>10 DEF RunEnds
<1>11. CASE DrainGivesUp
  <2>1. \A p \in Pumps : kill'[p] \in Busy => pump[p] = "killing" /\ p \notin Pending
    BY <1>11 DEF DrainGivesUp, TypeOK, Actors
  <2>2. \A p \in Pumps : kill'[p] \notin Busy
    BY <2>1 DEF Pending, Settled
  <2>3. kill'["run"] = kill["run"] /\ kill'["drain"] = kill["drain"] /\ UNCHANGED pc
    BY <1>11 DEF DrainGivesUp, DrainOnly, run, TypeOK, Actors, Pending
  <2> QED BY <1>11, <2>2, <2>3 DEF DrainGivesUp, GivesUp
<1>12. CASE DrainEnds \/ DrainKilled \/ DrainIsCancelled
  BY <1>12 DEF DrainEnds, DrainKilled, DrainIsCancelled, DrainOnly, Shielded, run
<1> QED BY <1>2, <1>3, <1>4, <1>5, <1>6, <1>7, <1>8, <1>9, <1>10, <1>11, <1>12
        DEF Next, RunStep, DrainStep

\* Pumps that have ended stay so until the next command begins.
LEMMA PendingShrinks ==
  ASSUME TypeOK, [Next]_vars, ~Begin PROVE Pending' \subseteq Pending
<1> USE DEF Pending, Settled
<1>1. CASE UNCHANGED pump
  BY <1>1
<1>2. CASE Forks \/ ChildExits \/ LeaderExits \/ Reaped \/ Cancel \/ UNCHANGED vars
  BY <1>1, <1>2 DEF Forks, ChildExits, LeaderExits, Reaped, Cancel, Outside, vars
<1>3. ASSUME NEW a \in Actors, Termination(a) PROVE Pending' \subseteq Pending
  BY <1>1, <1>3 DEF Termination
<1>4. ASSUME NEW p \in Pumps, PumpStep(p) PROVE Pending' \subseteq Pending
  BY <1>4 DEF TypeOK, PumpStep, PumpEnds, PumpFails, PumpRaises
<1>5. CASE DrainGivesUp
  BY <1>5 DEF TypeOK, DrainGivesUp
<1>6. CASE DrainStep /\ ~DrainGivesUp
  BY <1>1, <1>6 DEF DrainStep, DrainEnds, DrainTimesOut, DrainKilled, DrainIsCancelled
<1>7. CASE RunStep /\ ~Begin
  BY <1>1, <1>7 DEF RunStep, CannotBegin, WaitReturns, TimesOut, IsCancelled,
     TerminationEnds, TerminationIsCut, RunEnds
<1> QED BY <1>2, <1>3, <1>4, <1>5, <1>6, <1>7 DEF Next

LEMMA DrainInvStep == TypeOK /\ DrainInv /\ [Next]_vars => DrainInv'
<1> SUFFICES ASSUME TypeOK, DrainInv, [Next]_vars PROVE DrainInv'
  OBVIOUS
<1>0. ~Begin => Pending' \subseteq Pending
  BY PendingShrinks
<1> USE DEF DrainInv
<1>1. CASE UNCHANGED <<pc, drain>> /\ ~Begin
  BY <1>0, <1>1
<1>2. CASE Forks \/ ChildExits \/ LeaderExits \/ Reaped \/ Cancel \/ UNCHANGED vars
  BY <1>1, <1>2 DEF Forks, ChildExits, LeaderExits, Reaped, Cancel, Outside, vars, run,
     draining, Begin
<1>3. ASSUME NEW a \in Actors, Termination(a) PROVE DrainInv'
  BY <1>1, <1>3 DEF Termination, run, draining, Begin
<1>4. ASSUME NEW p \in Pumps, PumpStep(p) PROVE DrainInv'
  BY <1>1, <1>4 DEF PumpStep, PumpEnds, PumpFails, PumpRaises, run, draining, Begin
<1>5. CASE Begin
  BY <1>5 DEF Begin, draining
<1>6. CASE CannotBegin \/ TimesOut \/ IsCancelled
  BY <1>0, <1>6 DEF CannotBegin, TimesOut, IsCancelled, Begin, draining
<1>7. CASE WaitReturns \/ TerminationEnds \/ TerminationIsCut
  BY <1>7 DEF WaitReturns, TerminationEnds, TerminationIsCut, Drains
<1>8. CASE RunEnds
  BY <1>0, <1>8 DEF RunEnds, Begin
<1>9. CASE DrainEnds
  BY <1>0, <1>9 DEF DrainEnds, DrainOnly, run, Begin
<1>10. CASE DrainTimesOut \/ DrainKilled \/ DrainIsCancelled
  BY <1>0, <1>10 DEF DrainTimesOut, DrainKilled, DrainIsCancelled, Shielded, DrainOnly, run, Begin
<1>11. CASE DrainGivesUp
  <2>1. Pending' = {}
    BY <1>11 DEF TypeOK, DrainGivesUp, Pending, Settled
  <2> QED BY <1>11, <2>1 DEF DrainGivesUp, GivesUp, DrainOnly, run
<1> QED BY <1>2, <1>3, <1>4, <1>5, <1>6, <1>7, <1>8, <1>9, <1>10, <1>11
        DEF Next, RunStep, DrainStep

\* The only step that lets a command pass has judged it before.
LEMMA PassingStep ==
  ASSUME RunEnds, outcome' = "passed" \/ command' > command, TypeOK, DrainInv, PassedInv
  PROVE  leader = "known" /\ clean /\ ~timedOut /\ ~told /\ \A p \in Pumps : pump[p] = "eof"
<1>1. outcome # "passed"
  BY DEF RunEnds, PassedInv
<1>2. "passed" \notin Raised
  BY DEF Raised
<1>3. Raised = {} /\ Passes
  BY <1>1, <1>2 DEF RunEnds, TypeOK
<1>4. ~stopped /\ ~told /\ ~hit
  BY <1>3 DEF Raised
<1>5. \A p \in Pumps : pump[p] = "eof"
  BY <1>3, <1>4 DEF Raised
<1> QED BY <1>3, <1>4, <1>5 DEF Passes

LEMMA PassedStep == TypeOK /\ DrainInv /\ PassedInv /\ [Next]_vars => PassedInv'
<1> SUFFICES ASSUME TypeOK, DrainInv, PassedInv, [Next]_vars, outcome' = "passed"
             PROVE  PassedInv'
  BY DEF PassedInv
<1>1. CASE RunEnds
  <2>1. leader = "known" /\ clean /\ ~timedOut /\ ~told /\ \A p \in Pumps : pump[p] = "eof"
    BY <1>1, PassingStep
  <2>2. outcome # "passed"
    BY <1>1 DEF RunEnds, PassedInv
  <2>3. pc' = "ended"
    BY <1>1, <2>2 DEF RunEnds
  <2> QED BY <1>1, <2>1, <2>3 DEF RunEnds, PassedInv, processes
<1>2. CASE outcome = "passed"
  <2>1. pc = "ended" /\ drain = "none" /\ Pending = {}
    BY <1>2 DEF PassedInv, DrainInv
  <2>2. ~RunStep /\ ~DrainStep /\ \A p \in Pumps : ~PumpStep(p)
    <3>1. ~RunStep
      BY <2>1 DEF RunStep, Begin, CannotBegin, WaitReturns, TimesOut, IsCancelled,
         TerminationEnds, TerminationIsCut, RunEnds
    <3>2. ~DrainStep
      BY <2>1 DEF DrainStep, DrainEnds, DrainTimesOut, DrainKilled, DrainGivesUp, GivesUp,
         DrainIsCancelled
    <3>3. \A p \in Pumps : ~PumpStep(p)
      BY <1>2 DEF PassedInv, PumpStep, PumpEnds, PumpFails, PumpRaises
    <3> QED BY <3>1, <3>2, <3>3
  <2>3. CASE Forks \/ ChildExits \/ LeaderExits \/ Reaped \/ Cancel \/ UNCHANGED vars
    BY <1>2, <2>3 DEF PassedInv, Forks, ChildExits, LeaderExits, Reaped, Cancel, Outside, vars,
       processes, run, draining
  <2>4. ASSUME NEW a \in Actors, Termination(a) PROVE PassedInv'
    BY <1>2, <2>4 DEF PassedInv, Termination, GraceEnds, FindsGone, Kills, Waits,
       processes, run, draining
  <2> QED BY <2>2, <2>3, <2>4 DEF Next
<1>3. CASE outcome # "passed" /\ ~RunEnds
  <2>1. outcome' = outcome \/ CannotBegin
    BY <1>3 DEF Next, Forks, ChildExits, LeaderExits, Reaped, Cancel, Outside, vars, RunStep,
       Begin, WaitReturns, TimesOut, IsCancelled, TerminationEnds, TerminationIsCut, DrainStep,
       DrainEnds, DrainTimesOut, DrainKilled, DrainGivesUp, DrainIsCancelled, DrainOnly,
       PumpStep, PumpEnds, PumpFails, PumpRaises, Termination, run
  <2> QED BY <1>3, <2>1 DEF CannotBegin
<1> QED BY <1>1, <1>2, <1>3

-----------------------------------------------------------------------------
\* The types of ProcessRun, for any commands, pumps and number of cancellations.
THEOREM TypeCorrect == Spec => []TypeOK
BY TypeInit, TypeStep, PTL DEF Spec

\* Whoever terminates a group, and whoever else does so at the same time, leaves nobody
\* in it, whatever the processes ignore (_terminate_process_group, process.py:25).
THEOREM NobodySurvivesHolds == Spec => []NobodySurvives
<1>1. Init => KillInv
  BY DEF Init, KillInv, GroupInv, DoneInv
<1>2. TypeOK /\ KillInv => NobodySurvives
  BY DEF KillInv, GroupInv, DoneInv, NobodySurvives, Alive
<1> QED BY <1>1, <1>2, TypeCorrect, KillStep, PTL DEF Spec

\* A run that has returned, or goes on to the next gate, has no pump and no termination
\* at work (_drain_process_pumps under finish_before_cancel, process.py:57, 168).
THEOREM NothingIsLeftBehindHolds == Spec => []NothingIsLeftBehind
<1>1. Init => ActorInv /\ DrainInv
  BY DEF Init, ActorInv, DrainInv, Busy, Pending, Settled, Actors
<1>2. TypeOK /\ ActorInv /\ DrainInv => NothingIsLeftBehind
  BY DEF TypeOK, ActorInv, DrainInv, NothingIsLeftBehind, Busy, Pending, Settled, Actors
<1> QED BY <1>1, <1>2, TypeCorrect, ActorStep, DrainInvStep, PTL DEF Spec

\* No command passes that has not ended with 0, in time, uncancelled and read to the end
\* (RunEnds, process.py:178, gates.py:180).
THEOREM NothingPassesUnprovenHolds == Spec => NothingPassesUnproven
<1>1. Init => DrainInv /\ PassedInv
  BY DEF Init, DrainInv, PassedInv, Pending, Settled
<1> DEFINE Judged == outcome' = "passed" \/ command' > command =>
       leader = "known" /\ clean /\ ~timedOut /\ ~told /\ \A p \in Pumps : pump[p] = "eof"
<1>2. TypeOK /\ DrainInv /\ PassedInv /\ [Next]_vars => [Judged]_vars
  <2> SUFFICES ASSUME TypeOK, DrainInv, PassedInv, [Next]_vars,
                      outcome' = "passed" \/ command' > command
               PROVE  \/ UNCHANGED vars
                      \/ /\ leader = "known" /\ clean /\ ~timedOut /\ ~told
                         /\ \A p \in Pumps : pump[p] = "eof"
    OBVIOUS
  <2>1. CASE RunEnds
    BY <2>1, PassingStep
  <2>2. CASE ~RunEnds /\ Next
    <3>1. command' = command /\ (outcome' = outcome \/ CannotBegin)
      BY <2>2 DEF Next, Forks, ChildExits, LeaderExits, Reaped, Cancel, Outside, RunStep,
         Begin, CannotBegin, WaitReturns, TimesOut, IsCancelled, TerminationEnds,
         TerminationIsCut, DrainStep, DrainEnds, DrainTimesOut, DrainKilled, DrainGivesUp,
         DrainIsCancelled, DrainOnly, PumpStep, PumpEnds, PumpFails, PumpRaises, Termination,
         run
    <3>2. outcome = "passed"
      BY <2>2, <3>1 DEF CannotBegin, TypeOK
    <3> QED BY <3>2 DEF PassedInv
  <2> QED BY <2>1, <2>2
<1> QED BY <1>1, <1>2, TypeCorrect, DrainInvStep, PassedStep, PTL
        DEF Spec, NothingPassesUnproven
=============================================================================
