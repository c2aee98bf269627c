----------------------------- MODULE ProcessRun -----------------------------
(***************************************************************************)
(* The commands of an agent's turn or of a gate list, run one after the    *)
(* other in process groups of their own (ProcessRunner.run, process.py;    *)
(* GateRunner.run, gates.py).  Three kinds of coroutine work on a command: *)
(* the run itself, one pump per pipe, and the drain that the run hands to  *)
(* finish_before_cancel.  Each of them may find reason to terminate the    *)
(* group (_terminate_process_group), all at the same time.                 *)
(*                                                                         *)
(* The leader forks at most one child that matters.  It may ignore         *)
(* SIGTERM, let go of the pipes, or leave the group for a session of its   *)
(* own.  Processes end when they like, or by SIGKILL.                      *)
(***************************************************************************)
EXTENDS Naturals

CONSTANTS Pumps,      \* "out" and "err"
          Commands,   \* how many commands there are; an agent's turn has one
          MaxCancels  \* how often the caller is cancelled

\* A pump is not the run or the drain, and there is something to run.
ASSUME PumpsAssumption == "run" \notin Pumps /\ "drain" \notin Pumps
ASSUME CommandsAssumption == Commands \in Nat \ {0} /\ MaxCancels \in Nat

VARIABLES leader,    \* "none", "running", "exited", "reaped"; "known": asyncio has its code
          clean,     \* its exit code is 0
          child,     \* "none", "member" of the group, "escaped" from it, "gone"
          holds,     \* the child has the pipes open
          pump,      \* "reading", "killing" the group after an error, or its end
          kill,      \* progress of each actor's _terminate_process_group
          pc,        \* the run: "starting", "waiting", "terminating", "draining", "ended"
          command,   \* number of the current command
          timedOut, stopped,   \* the wait ended by timeout; a CancelledError is under way
          drain,     \* the drain: "none", "first", "killing", "second", "done"
          overdue,   \* drain_timed_out
          told,      \* a cancellation that finish_before_cancel holds back
          hit,       \* a cancellation to deliver
          cancels,   \* so far
          outcome    \* "none", "passed", "failed", "error", "cancelled"

processes == <<leader, clean, child, holds>>
run       == <<pc, command, timedOut, stopped, outcome>>
draining  == <<drain, overdue, told>>
calls     == <<hit, cancels>>
vars      == <<processes, pump, kill, run, draining, calls>>

Actors  == Pumps \cup {"run", "drain"}
Settled == {"eof", "failed", "cancelled"}

TypeOK ==
  /\ leader \in {"none", "running", "exited", "reaped", "known"} /\ clean \in BOOLEAN
  /\ child \in {"none", "member", "escaped", "gone"} /\ holds \in BOOLEAN
  /\ pump \in [Pumps -> {"reading", "killing"} \cup Settled]
  /\ kill \in [Actors -> {"none", "grace", "poll", "reap", "done", "cut"}]
  /\ pc \in {"starting", "waiting", "terminating", "draining", "ended"}
  /\ command \in 1..Commands /\ timedOut \in BOOLEAN /\ stopped \in BOOLEAN
  /\ drain \in {"none", "first", "killing", "second", "done"}
  /\ overdue \in BOOLEAN /\ told \in BOOLEAN /\ hit \in BOOLEAN /\ cancels \in 0..MaxCancels
  /\ outcome \in {"none", "passed", "failed", "error", "cancelled"}

Init ==
  /\ leader = "none" /\ clean = FALSE /\ child = "none" /\ holds = FALSE
  /\ pump = [p \in Pumps |-> "eof"] /\ kill = [a \in Actors |-> "none"]
  /\ pc = "starting" /\ command = 1 /\ timedOut = FALSE /\ stopped = FALSE
  /\ drain = "none" /\ overdue = FALSE /\ told = FALSE
  /\ hit = FALSE /\ cancels = 0 /\ outcome = "none"

-----------------------------------------------------------------------------
(* The processes, the child watcher of asyncio and the caller.             *)

Alive  == leader \in {"running", "exited"} \/ child = "member"  \* killpg finds the group
Piped  == leader = "running" \/ (child \in {"member", "escaped"} /\ holds)
Outside == UNCHANGED <<pump, kill, run, draining, calls>>

Forks ==
  /\ leader = "running" /\ child = "none"
  /\ child' \in {"member", "escaped"} /\ holds' \in BOOLEAN
  /\ UNCHANGED <<leader, clean>> /\ Outside

ChildExits ==
  /\ child \in {"member", "escaped"} /\ child' = "gone"
  /\ UNCHANGED <<leader, clean, holds>> /\ Outside

LeaderExits ==
  /\ leader = "running" /\ leader' = "exited" /\ clean' \in BOOLEAN
  /\ UNCHANGED <<child, holds>> /\ Outside

\* waitpid in the watcher, then the callback on the loop.
Reaped ==
  /\ \/ leader = "exited" /\ leader' = "reaped"
     \/ leader = "reaped" /\ leader' = "known"
  /\ UNCHANGED <<clean, child, holds>> /\ Outside

Cancel ==
  /\ pc # "ended" /\ ~hit /\ cancels < MaxCancels
  /\ hit' = TRUE /\ cancels' = cancels + 1
  /\ UNCHANGED <<processes, pump, kill, run, draining>>

-----------------------------------------------------------------------------
(* _terminate_process_group, by any actor.                                 *)

\* SIGTERM, which obliges nobody; without a group there is at most the exit code
\* to wait for.
Begun == IF leader = "known" THEN IF Alive THEN "poll" ELSE "done"
         ELSE IF Alive THEN "grace" ELSE "reap"
Terminate(a) == kill' = [kill EXCEPT ![a] = Begun]

\* The leader has ended or has had its time.
\* Mutant: nobody else in the group is looked after.
Graced_LeaderOnly == IF leader = "known" THEN "done" ELSE "poll"
Graced == "poll"

GraceEnds(a) ==
  /\ kill[a] = "grace" /\ kill' = [kill EXCEPT ![a] = Graced]
  /\ UNCHANGED processes

FindsGone(a) ==
  /\ kill[a] = "poll" /\ ~Alive
  /\ kill' = [kill EXCEPT ![a] = "done"]
  /\ UNCHANGED processes

\* The deadline has passed: SIGKILL.
Kills(a) ==
  /\ kill[a] = "poll" /\ Alive
  /\ leader' = IF leader = "running" THEN "exited" ELSE leader
  /\ clean' = (clean /\ leader # "running")
  /\ child' = IF child = "member" THEN "gone" ELSE child
  /\ kill' = [kill EXCEPT ![a] = IF leader = "known" THEN "done" ELSE "reap"]
  /\ UNCHANGED holds

Waits(a) ==
  /\ kill[a] = "reap" /\ leader = "known"
  /\ kill' = [kill EXCEPT ![a] = "done"]
  /\ UNCHANGED processes

Termination(a) ==
  /\ GraceEnds(a) \/ FindsGone(a) \/ Kills(a) \/ Waits(a)
  /\ UNCHANGED <<pump, run, draining, calls>>

-----------------------------------------------------------------------------
(* pump: reads until end of file; a log that cannot be written terminates  *)
(* the group before the error is raised.                                   *)

PumpEnds(p) ==
  /\ pump[p] = "reading" /\ ~Piped
  /\ pump' = [pump EXCEPT ![p] = "eof"]
  /\ UNCHANGED <<processes, kill, run, draining, calls>>

PumpFails(p) ==
  /\ pump[p] = "reading"
  /\ pump' = [pump EXCEPT ![p] = "killing"] /\ Terminate(p)
  /\ UNCHANGED <<processes, run, draining, calls>>

PumpRaises(p) ==
  /\ pump[p] = "killing" /\ kill[p] = "done"
  /\ pump' = [pump EXCEPT ![p] = "failed"]
  /\ UNCHANGED <<processes, kill, run, draining, calls>>

Pending == {p \in Pumps : pump[p] \notin Settled}

-----------------------------------------------------------------------------
(* The run, up to the drain.                                               *)

Begin ==
  /\ pc = "starting" /\ ~hit
  /\ leader' = "running" /\ clean' = FALSE /\ child' = "none" /\ holds' = FALSE
  /\ pump' = [p \in Pumps |-> "reading"] /\ kill' = [a \in Actors |-> "none"]
  /\ pc' = "waiting" /\ timedOut' = FALSE
  /\ UNCHANGED <<command, stopped, outcome, draining, calls>>

\* The log or the command cannot be opened, or the caller was cancelled.
CannotBegin ==
  /\ pc = "starting" /\ pc' = "ended"
  /\ outcome' = IF hit THEN "cancelled" ELSE "error"
  /\ UNCHANGED <<processes, pump, kill, command, timedOut, stopped, draining, calls>>

Drains == pc' = "draining" /\ drain' = "first" /\ overdue' = FALSE /\ told' = FALSE

WaitReturns ==
  /\ pc = "waiting" /\ ~hit /\ leader = "known"
  /\ Drains
  /\ UNCHANGED <<processes, pump, kill, command, timedOut, stopped, outcome, calls>>

TimesOut ==
  /\ pc = "waiting" /\ ~hit
  /\ pc' = "terminating" /\ timedOut' = TRUE /\ Terminate("run")
  /\ UNCHANGED <<processes, pump, command, stopped, outcome, draining, calls>>

IsCancelled ==
  /\ pc = "waiting" /\ hit
  /\ pc' = "terminating" /\ stopped' = TRUE /\ hit' = FALSE /\ Terminate("run")
  /\ UNCHANGED <<processes, pump, command, timedOut, outcome, draining, cancels>>

TerminationEnds ==
  /\ pc = "terminating" /\ kill["run"] = "done"
  /\ Drains
  /\ UNCHANGED <<processes, pump, kill, command, timedOut, stopped, outcome, calls>>

\* The termination in the handlers is not shielded.
TerminationIsCut ==
  /\ pc = "terminating" /\ kill["run"] # "done" /\ hit
  /\ Drains
  /\ kill' = [kill EXCEPT !["run"] = "cut"] /\ stopped' = TRUE /\ hit' = FALSE
  /\ UNCHANGED <<processes, pump, command, timedOut, outcome, cancels>>

-----------------------------------------------------------------------------
(* _drain_process_pumps, shielded from cancellations.                      *)

DrainOnly == UNCHANGED <<processes, run, told, calls>>

DrainEnds ==
  /\ drain \in {"first", "second"} /\ Pending = {}
  /\ drain' = "done"
  /\ UNCHANGED <<pump, kill, overdue>> /\ DrainOnly

DrainTimesOut ==
  /\ drain = "first" /\ Pending # {}
  /\ drain' = "killing" /\ overdue' = TRUE /\ Terminate("drain")
  /\ UNCHANGED pump /\ DrainOnly

DrainKilled ==
  /\ drain = "killing" /\ kill["drain"] = "done"
  /\ drain' = "second"
  /\ UNCHANGED <<pump, kill, overdue>> /\ DrainOnly

\* Mutant: the drain waits for pipes that never close.
GivesUp_Never == FALSE
GivesUp == drain = "second" /\ Pending # {}

DrainGivesUp ==
  /\ GivesUp
  /\ pump' = [p \in Pumps |-> IF p \in Pending THEN "cancelled" ELSE pump[p]]
  /\ kill' = [a \in Actors |-> IF a \in Pending /\ kill[a] # "none" THEN "cut" ELSE kill[a]]
  /\ drain' = "done" /\ UNCHANGED overdue /\ DrainOnly

\* Mutant: a cancellation ends the drain with the pumps still at work.
Shielded_Not == "done"
Shielded == drain

DrainIsCancelled ==
  /\ pc = "draining" /\ drain # "done" /\ hit
  /\ told' = TRUE /\ hit' = FALSE /\ drain' = Shielded
  /\ UNCHANGED <<processes, pump, kill, run, overdue, cancels>>

-----------------------------------------------------------------------------
(* The result: a CancelledError first, then what the first of the pumps     *)
(* raised, then the late drain, then the exit code.                         *)

\* SIGTERM may make a command exit with 0 as well.  Mutant: only the exit code counts.
Passes_ByCode == leader = "known" /\ clean
Passes == leader = "known" /\ clean /\ ~timedOut

\* A cancelled pump makes the run raise CancelledError.
Raised == IF stopped \/ told \/ hit THEN {"cancelled"}
          ELSE {IF pump[p] = "cancelled" THEN "cancelled" ELSE "error" :
                  p \in {q \in Pumps : pump[q] # "eof"}}
               \cup (IF overdue /\ \A p \in Pumps : pump[p] = "eof" THEN {"error"} ELSE {})

\* The result of a gate is written to the log as well.
RunEnds ==
  /\ pc = "draining" /\ drain = "done"
  /\ \/ /\ outcome' \in IF Raised # {} THEN Raised ELSE {"error"}
        /\ pc' = "ended" /\ UNCHANGED command
     \/ /\ Raised = {} /\ outcome' = IF Passes THEN "passed" ELSE "failed"
        /\ ~Passes \/ command = Commands
        /\ pc' = "ended" /\ UNCHANGED command
     \/ /\ Raised = {} /\ Passes /\ command < Commands
        /\ command' = command + 1 /\ pc' = "starting" /\ UNCHANGED outcome
  /\ drain' = "none" /\ hit' = FALSE
  /\ UNCHANGED <<processes, pump, kill, timedOut, stopped, overdue, told, cancels>>

-----------------------------------------------------------------------------
RunStep == Begin \/ CannotBegin \/ WaitReturns \/ TimesOut \/ IsCancelled
           \/ TerminationEnds \/ TerminationIsCut \/ RunEnds
DrainStep == DrainEnds \/ DrainTimesOut \/ DrainKilled \/ DrainGivesUp \/ DrainIsCancelled
PumpStep(p) == PumpEnds(p) \/ PumpFails(p) \/ PumpRaises(p)

Next ==
  \/ Forks \/ ChildExits \/ LeaderExits \/ Reaped \/ Cancel
  \/ RunStep \/ DrainStep
  \/ \E p \in Pumps : PumpStep(p)
  \/ \E a \in Actors : Termination(a)

\* Every wait of the code has a timeout and the loop resumes what is ready.  The
\* processes owe nothing: they may run for ever and keep their pipes.
Fairness ==
  /\ WF_vars(Reaped) /\ WF_vars(RunStep) /\ WF_vars(DrainStep)
  /\ \A a \in Actors : WF_vars(Termination(a))
  /\ \A p \in Pumps : WF_vars(PumpEnds(p) \/ PumpRaises(p))

Spec == Init /\ [][Next]_vars /\ Fairness

-----------------------------------------------------------------------------
\* Once a termination is over, after a timeout, a stop, an error of a pump or a late
\* drain, nobody is left in the group of the command, whoever ignored SIGTERM and
\* whoever terminated it at the same time (_terminate_process_group, process.py:25).
NobodySurvives == (\E a \in Actors : kill[a] = "done") => ~Alive

\* A command counts as passed, and the next gate starts, only after it has ended
\* with code 0, in time, uncancelled and with all of its output read, although the
\* timeout, the pumps and a cancellation race each other (process.py:192, gates.py:180).
NothingPassesUnproven ==
  [][outcome' = "passed" \/ command' > command =>
       leader = "known" /\ clean /\ ~timedOut /\ ~told /\ \A p \in Pumps : pump[p] = "eof"]_vars

\* No pump or termination of a command is still at work when its run has returned,
\* however often that was cancelled: nothing writes into the log of the next
\* attempt (_drain_process_pumps, process.py:57).
NothingIsLeftBehind ==
  pc \in {"starting", "ended"} =>
    /\ Pending = {}
    /\ \A a \in Actors : kill[a] \in {"none", "done", "cut"}

\* Every command comes to an end, also one that ignores signals and whose
\* descendants never let go of its pipes (HOW_IT_WORKS.md:238).
RunsEnd == pc = "starting" ~> pc = "ended"

\* A run that could not drain its pipes is an error; only the caller's own
\* cancellation is reported as one (process.py:198, test_resilience_v13.py:1060).
CancelledOnlyByCaller == outcome = "cancelled" => cancels > 0
=============================================================================
