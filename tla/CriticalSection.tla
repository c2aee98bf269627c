-------------------------- MODULE CriticalSection --------------------------
(***************************************************************************)
(* atomic_to_thread and finish_before_cancel (util.py): a coroutine has a  *)
(* thread run a blocking Git command and waits for it behind a shield.  A  *)
(* cancellation interrupts the wait but not the thread; it is noted and    *)
(* the coroutine waits again, as often as it takes, until the thread has   *)
(* ended.  Only then does the cancellation escape.                         *)
(***************************************************************************)
CONSTANT Clients

VARIABLES section,   \* "none", "awaiting", or what the helper has returned or raised
          thread,    \* the thread of the coroutine: "none", "busy", "done", "failed"
          cancelled, \* the local variable of finish_before_cancel
          hit        \* whether the coroutine has a cancellation to deliver

Results == {"value", "raised", "cancelled"}

TypeOK ==
  /\ section \in [Clients -> {"none", "awaiting"} \cup Results]
  /\ thread \in [Clients -> {"none", "busy", "done", "failed"}]
  /\ cancelled \in [Clients -> BOOLEAN]

Init ==
  /\ section = [c \in Clients |-> "none"] /\ thread = [c \in Clients |-> "none"]
  /\ cancelled = [c \in Clients |-> FALSE]

Begin(c) ==
  /\ section[c] = "none" /\ thread[c] = "none"
  /\ section' = [section EXCEPT ![c] = "awaiting"]
  /\ thread' = [thread EXCEPT ![c] = "busy"]
  /\ UNCHANGED <<cancelled, hit>>

\* The thread ends on its own: Git commands have a timeout.
ThreadEnds(c) ==
  /\ thread[c] = "busy"
  /\ \E end \in {"done", "failed"} : thread' = [thread EXCEPT ![c] = end]
  /\ UNCHANGED <<section, cancelled, hit>>

Cancel(c) ==
  /\ section[c] = "awaiting" /\ ~hit[c]
  /\ hit' = [hit EXCEPT ![c] = TRUE]
  /\ UNCHANGED <<section, thread, cancelled>>

\* Mutant: a cancelled wait is not taken up again.
WaitsOn_Never(c) == FALSE
WaitsOn(c) == thread[c] = "busy"

\* Mutant: a thread that has done its work lets the coroutine go on.
Result_ValueFirst(c, told) ==
  IF thread[c] = "done" THEN "value" ELSE IF told THEN "cancelled" ELSE "raised"
Result(c, told) ==
  IF told THEN "cancelled" ELSE IF thread[c] = "done" THEN "value" ELSE "raised"

\* The shielded wait raises CancelledError.
Deferred(c) ==
  /\ section[c] = "awaiting" /\ hit[c]
  /\ hit' = [hit EXCEPT ![c] = FALSE]
  /\ cancelled' = [cancelled EXCEPT ![c] = TRUE]
  /\ section' = [section EXCEPT ![c] = IF WaitsOn(c) THEN "awaiting" ELSE Result(c, TRUE)]
  /\ UNCHANGED thread

\* The shielded wait returns, or raises what the thread has raised.
Resumes(c) ==
  /\ section[c] = "awaiting" /\ ~hit[c] /\ thread[c] # "busy"
  /\ section' = [section EXCEPT ![c] = Result(c, cancelled[c])]
  /\ UNCHANGED <<thread, cancelled, hit>>

\* The coroutine goes on after the helper; a thread it has not waited for stays.
Forget(c) ==
  /\ section[c] # "awaiting"
  /\ section' = [section EXCEPT ![c] = "none"]
  /\ cancelled' = [cancelled EXCEPT ![c] = FALSE]
  /\ thread' = [thread EXCEPT ![c] = IF @ = "busy" THEN @ ELSE "none"]

-----------------------------------------------------------------------------
\* An operation that has begun ends, and the helper with it.
Ends == \A c \in Clients : section[c] = "awaiting" ~> section[c] # "awaiting"
=============================================================================
