---------------------------- MODULE Coordinator ----------------------------
(***************************************************************************)
(* The ResourceCoordinator of the daemon (runtime.py) as its callers nest  *)
(* it: a worker works in a worker slot (_run_task) and takes the lock of   *)
(* its repository several times meanwhile, to make its worktree, to merge  *)
(* and to clean up.  A runner takes a slot for planning and for the final  *)
(* audit, and the lock before and after, never both at once.  Nobody asks  *)
(* for a slot inside a lock.                                               *)
(*                                                                         *)
(* Git commands that change something run in threads (CriticalSection),    *)
(* those on the shared topology inside a lock, the commits of attempts and *)
(* final repairs in a worktree of their own outside.  Between two of them  *)
(* agents and gates run, inside the lock too.  A cancellation may arrive   *)
(* anywhere, and again while an earlier one is held back.                  *)
(*                                                                         *)
(* The workers are of different jobs, so the merge lock of an Orchestrator *)
(* is free whenever one of them asks for it, and left out, as are commands *)
(* that only read.                                                         *)
(***************************************************************************)
EXTENDS WorkerSlots

CONSTANTS Others,      \* who takes the lock without a slot: runners and requests
          Repo,        \* the repository of every worker and other
          MaxVisits,   \* how often each worker takes the lock while it has its slot
          Committers   \* bound: who commits something outside the lock

Workers   == Clients \ Others
Everybody == Clients \cup Others

ASSUME OthersAssumption == IsFiniteSet(Others)
ASSUME VisitsAssumption == MaxVisits \in [Workers -> Nat]
ASSUME CommittersAssumption == Committers \subseteq Clients

VARIABLES at, struck,  \* pc and hit of RepoLocks
          table, counted, waiters, locked, lockQueue, mine,
          section, thread, deferred,   \* of CriticalSection; cancelled is deferred
          visits,      \* of a worker, since it got its slot
          told,        \* history: workers that were cancelled in a critical section
          under        \* history: coroutines whose thread was started inside the lock

slots    == vars
locks    == <<at, table, counted, waiters, locked, lockQueue, mine>>
sections == <<section, thread, deferred>>
allVars  == <<slots, locks, struck, sections, visits, told, under>>

Lock == INSTANCE RepoLocks
          WITH Clients <- Everybody, pc <- at, hit <- struck, queue <- lockQueue
Critical == INSTANCE CriticalSection
              WITH Clients <- Everybody, cancelled <- deferred, hit <- struck

CoordinatorInit ==
  /\ Init /\ Lock!Init /\ Critical!Init
  /\ visits = [c \in Workers |-> 0] /\ told = {} /\ under = {}

SetVisits(c, n) == visits' = [d \in Workers |-> IF d = c THEN n ELSE visits[d]]

\* Outside of any lock and of any command: the coroutine may go on to something else.
Outside(c) == at[c] = "idle" /\ section[c] = "none"

AsksForSlot(c) ==
  /\ Outside(c) /\ Enter(c)
  /\ UNCHANGED <<locks, struck, sections, visits, told, under>>

WaitsForSlot(c) ==
  /\ Granted(c) \/ Abandoned(c)
  /\ UNCHANGED <<locks, struck, sections, visits, told, under>>

CancelledAtSlot(c) == Cancel(c) /\ UNCHANGED <<locks, struck, sections, visits, told, under>>

LeavesSlot(c) ==
  /\ Outside(c) /\ Leave(c)
  /\ SetVisits(c, 0) /\ told' = told \ {c}
  /\ UNCHANGED <<locks, struck, sections, under>>

WorkerEnters(c) ==
  /\ Outside(c) /\ pc[c] = "working" /\ visits[c] < MaxVisits[c]
  /\ Lock!Enter(c) /\ SetVisits(c, visits[c] + 1)
  /\ UNCHANGED <<slots, sections, told, under>>

OtherEnters(c) ==
  /\ Outside(c) /\ (c \in Clients => pc[c] = "idle")
  /\ Lock!Enter(c)
  /\ UNCHANGED <<slots, sections, visits, told, under>>

WaitsForLock(c) ==
  /\ Lock!Granted(c) \/ Lock!Cancel(c)
  /\ UNCHANGED <<slots, sections, visits, told, under>>

\* Who is cancelled takes the lock no more: a worker gives up its task.
GivesUp(c) == IF c \in Workers THEN SetVisits(c, MaxVisits[c]) ELSE UNCHANGED visits

GivesUpLock(c) ==
  /\ Lock!Abandoned(c) /\ GivesUp(c)
  /\ UNCHANGED <<slots, sections, told, under>>

-----------------------------------------------------------------------------
(* What is done in a slot and in a lock.                                   *)

InSlotOnly(c) == c \in Clients /\ pc[c] = "working" /\ at[c] = "idle"

StartsGit(c) ==
  /\ at[c] = "inside" \/ (c \in Committers /\ InSlotOnly(c))
  /\ Critical!Begin(c)
  /\ under' = IF at[c] = "inside" THEN under \cup {c} ELSE under
  /\ UNCHANGED <<slots, locks, visits, told>>

AwaitsGit(c) ==
  /\ Critical!Deferred(c) \/ Critical!Resumes(c)
  /\ UNCHANGED <<slots, locks, visits, told, under>>

CancelledInGit(c) ==
  /\ Critical!Cancel(c) /\ told' = told \cup ({c} \cap Workers)
  /\ UNCHANGED <<slots, locks, visits, under>>

GitEnds(c) ==
  /\ Critical!ThreadEnds(c) /\ under' = under \ {c}
  /\ UNCHANGED <<slots, locks, visits, told>>

\* After a command the coroutine goes on, also after one that failed; after one that was
\* interrupted it rolls back, with commands that cannot be interrupted, and gives up.
GoesOn(c) ==
  /\ section[c] \in Critical!Results /\ Critical!Forget(c)
  /\ IF section[c] = "cancelled" THEN GivesUp(c) ELSE UNCHANGED visits
  /\ UNCHANGED <<slots, locks, struck, told, under>>

\* An agent, a gate or a reviewer is cut short by a cancellation, which is not deferred:
\* the worker rolls back and gives up.
CutShort(c) ==
  /\ at[c] = "inside" \/ InSlotOnly(c)
  /\ section[c] = "none" /\ visits[c] < MaxVisits[c]
  /\ GivesUp(c)
  /\ UNCHANGED <<slots, locks, struck, sections, told, under>>

LeavesLock(c) ==
  /\ section[c] = "none" /\ Lock!Leave(c)
  /\ UNCHANGED <<slots, sections, visits, told, under>>

CoordinatorNext ==
  \/ \E c \in Clients : AsksForSlot(c) \/ WaitsForSlot(c) \/ CancelledAtSlot(c) \/ LeavesSlot(c)
  \/ \E c \in Workers : WorkerEnters(c) \/ CutShort(c)
  \/ \E c \in Others : OtherEnters(c)
  \/ \E c \in Everybody :
       \/ WaitsForLock(c) \/ GivesUpLock(c) \/ LeavesLock(c)
       \/ StartsGit(c) \/ AwaitsGit(c) \/ CancelledInGit(c) \/ GitEnds(c) \/ GoesOn(c)

\* The loop resumes what is ready, Git commands, agents and gates have timeouts, and
\* nobody runs commands for ever in one slot or lock: turns and attempts are bounded.
CoordinatorSpec ==
  /\ CoordinatorInit /\ [][CoordinatorNext]_allVars
  /\ \A c \in Clients :
       /\ WF_allVars(WaitsForSlot(c))
       /\ SF_allVars(LeavesSlot(c))
  /\ \A c \in Everybody :
       /\ WF_allVars(Lock!Granted(c) /\ UNCHANGED <<slots, sections, visits, told, under>>)
       /\ WF_allVars(GivesUpLock(c))
       /\ WF_allVars(GitEnds(c)) /\ WF_allVars(AwaitsGit(c)) /\ WF_allVars(GoesOn(c))
       /\ SF_allVars(LeavesLock(c))

-----------------------------------------------------------------------------
\* Two threads never change the topology of one repository at once: no thread that was
\* started inside its lock is still at work when another is, although lock objects come
\* and go with their users and coroutines are cancelled, repeatedly, while their thread
\* cannot be (ARCHITECTURE.md:48, util.py:38).  Commits outside the lock, each in a
\* worktree of its own, are no part of it.
MutualExclusion == \A c, d \in under : Repo[c] = Repo[d] => c = d

\* A cancellation that is held back for a critical operation is not forgotten with
\* it: the worker takes no further lock, whether Git failed or did its work and
\* however close to its end the cancellation came (finish_before_cancel, util.py:53).
CancellationIsKept ==
  [][\A c \in told : ~(at[c] = "idle" /\ at'[c] # "idle")]_allVars

\* What the daemon reports of its slots and locks is the truth at every await (snapshot,
\* runtime.py:100), and no slot is lost or made up by cancelled waits.
StatisticsAreExact == UnitsAreConserved /\ AccountingIsExact /\ Lock!WaitersAreCounted

\* Workers that hold a slot while they wait for a lock never keep each other, or
\* those without a slot, from going on: whoever waits for a slot or at a lock gets
\* it or is cancelled (_run_task, orchestrator_task.py:55), and no stream of
\* cancellations keeps a critical operation from ending.
EveryWaitEnds == WaitsEnd /\ Lock!WaitsEnd /\ Critical!Ends
=============================================================================
