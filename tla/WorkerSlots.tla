---------------------------- MODULE WorkerSlots ----------------------------
(***************************************************************************)
(* ResourceCoordinator.worker_slot (runtime.py): the semaphore that bounds *)
(* the agent work of the whole daemon, and its accounting.                 *)
(*                                                                         *)
(* asyncio.Semaphore is modelled by what it does: a release hands the unit *)
(* to the first waiter, which takes it at a later turn of the loop and may *)
(* be cancelled before it does.  Module Coordinator composes the steps.     *)
(***************************************************************************)
EXTENDS Naturals, SequencesExt

CONSTANTS Clients,      \* coroutines of all jobs that ask for a slot
          MaxWorkers    \* engine.max_global_workers

ASSUME WorkersAssumption == MaxWorkers \in Nat \ {0}
ASSUME ClientsAssumption == IsFiniteSet(Clients)

VARIABLES pc, hit,      \* where a coroutine is; whether it has a cancellation to deliver
          value, queue, \* _worker_slots: free units, waiters in order of arrival
          active, waiting   \* _active_workers, _waiting_workers

vars == <<pc, hit, value, queue, active, waiting>>

TypeOK ==
  /\ pc \in [Clients -> {"idle", "waiting", "woken", "working"}]
  /\ hit \in [Clients -> BOOLEAN]
  /\ value \in 0..MaxWorkers /\ queue \in Seq(Clients)
  /\ active \in 0..MaxWorkers /\ waiting \in 0..Cardinality(Clients)

Init ==
  /\ pc = [c \in Clients |-> "idle"] /\ hit = [c \in Clients |-> FALSE]
  /\ value = MaxWorkers /\ queue = <<>> /\ active = 0 /\ waiting = 0

\* What has become of the future a coroutine waits for.
CancelledWait(c) == pc[c] = "waiting" /\ hit[c]
PendingWait(c)   == pc[c] = "waiting" /\ ~hit[c]

\* Semaphore.locked: a woken waiter is still before everybody who comes.
Busy == value = 0 \/ \E i \in DOMAIN queue : ~CancelledWait(queue[i])

\* The semaphore has v units; up to n of them go to the first waiters whose wait is
\* pending, the last of them at k, and c goes on to next.
Settle(v, n, c, next) ==
  \E k \in {0} \cup {i \in DOMAIN queue : PendingWait(queue[i])} :
    LET woken == {d \in Clients : PendingWait(d) /\ \E i \in 1..k : queue[i] = d}
    IN  /\ IF \E i \in DOMAIN queue : i > k /\ PendingWait(queue[i])
             THEN Cardinality(woken) = n ELSE Cardinality(woken) <= n
        /\ value' = v - Cardinality(woken)
        /\ pc' = [d \in Clients |->
                    IF d = c THEN next ELSE IF d \in woken THEN "woken" ELSE pc[d]]

Enter(c) ==
  /\ pc[c] = "idle"
  /\ IF Busy
       THEN /\ queue' = Append(queue, c) /\ waiting' = waiting + 1
            /\ pc' = [pc EXCEPT ![c] = "waiting"]
            /\ UNCHANGED <<value, active>>
       ELSE /\ value' = value - 1 /\ active' = active + 1
            /\ pc' = [pc EXCEPT ![c] = "working"]
            /\ UNCHANGED <<queue, waiting>>
  /\ UNCHANGED hit

Granted(c) ==
  /\ pc[c] = "woken" /\ ~hit[c]
  /\ Settle(value, value, c, "working") /\ queue' = RemoveFirst(queue, c)
  /\ waiting' = waiting - 1 /\ active' = active + 1 /\ UNCHANGED hit

\* A unit that was handed over to a cancelled waiter goes back.
\* Mutants: it is lost; every cancelled wait releases a unit.
Returned_Never(c) == 0
Returned_Always(c) == 1
Returned(c) == IF pc[c] = "woken" THEN 1 ELSE 0

WaitEnds(c) == 1

Abandoned(c) ==
  /\ pc[c] \in {"waiting", "woken"} /\ hit[c]
  /\ LET v == value + Returned(c) IN Settle(v, v, c, "idle")
  /\ queue' = RemoveFirst(queue, c)
  /\ hit' = [hit EXCEPT ![c] = FALSE]
  /\ waiting' = waiting - WaitEnds(c) /\ UNCHANGED active

\* The work ends, in whatever way: the finally clause.  A release wakes one waiter.
Leave(c) ==
  /\ pc[c] = "working"
  /\ Settle(value + 1, 1, c, "idle")
  /\ active' = active - 1 /\ UNCHANGED <<hit, queue, waiting>>

Cancel(c) ==
  /\ pc[c] \in {"waiting", "woken"} /\ ~hit[c]
  /\ hit' = [hit EXCEPT ![c] = TRUE]
  /\ UNCHANGED <<pc, value, queue, active, waiting>>

-----------------------------------------------------------------------------
In(state) == Cardinality({c \in Clients : pc[c] = state})

\* No unit is lost or made up by cancelled waits: every one is free, handed over
\* or in use, so at most max_global_workers work (worker_slot, runtime.py:39).
UnitsAreConserved == value + In("woken") + In("working") = MaxWorkers

\* The published utilization is the truth at every await.
AccountingIsExact == active = In("working") /\ waiting = In("waiting") + In("woken")

\* A waiting coroutine gets its slot or is cancelled.
WaitsEnd == \A c \in Clients : pc[c] = "waiting" ~> pc[c] # "waiting"
=============================================================================
