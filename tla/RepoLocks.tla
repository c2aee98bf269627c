----------------------------- MODULE RepoLocks -----------------------------
(***************************************************************************)
(* ResourceCoordinator.repo_lock (runtime.py): a table of locks keyed by   *)
(* the repository, filled on demand and emptied when a lock falls idle.    *)
(* Coroutines of all jobs enter and leave, and are cancelled while they    *)
(* wait; what they do inside is never cut short (atomic_to_thread).        *)
(*                                                                         *)
(* asyncio.Lock is modelled by what it does: a release wakes the first     *)
(* waiter, which takes the lock at a later turn of the loop and may be     *)
(* cancelled before it does.                                               *)
(***************************************************************************)
EXTENDS Naturals, SequencesExt

CONSTANTS Clients, Repo   \* the coroutines, and the repository each one works on

NoLock == 0
Locks  == 1..Cardinality(Clients)   \* lock objects; one nobody refers to is made anew
Repos  == {Repo[c] : c \in Clients}

VARIABLES pc, hit,       \* where a coroutine is; whether it has a cancellation to deliver
          table,         \* _repo_locks
          counted,       \* _repo_waiters: FALSE when the key is missing
          waiters,       \* _repo_waiters
          locked, queue, \* of each lock object
          mine           \* the lock object a coroutine has got from the table

vars == <<pc, hit, table, counted, waiters, locked, queue, mine>>

TypeOK ==
  /\ pc \in [Clients -> {"idle", "waiting", "woken", "inside"}] /\ hit \in [Clients -> BOOLEAN]
  /\ table \in [Repos -> Locks \cup {NoLock}]
  /\ counted \in [Repos -> BOOLEAN] /\ waiters \in [Repos -> 0..Cardinality(Clients)]
  /\ locked \in [Locks -> BOOLEAN] /\ queue \in [Locks -> Seq(Clients)]
  /\ mine \in [Clients -> Locks \cup {NoLock}]

Init ==
  /\ pc = [c \in Clients |-> "idle"] /\ hit = [c \in Clients |-> FALSE]
  /\ table = [r \in Repos |-> NoLock]
  /\ counted = [r \in Repos |-> FALSE] /\ waiters = [r \in Repos |-> 0]
  /\ locked = [l \in Locks |-> FALSE] /\ queue = [l \in Locks |-> <<>>]
  /\ mine = [c \in Clients |-> NoLock]

-----------------------------------------------------------------------------
\* A lock may be taken at once: nobody but cancelled coroutines waits for it.
Free(l) == ~locked[l] /\ \A i \in DOMAIN queue[l] : pc[queue[l][i]] = "waiting" /\ hit[queue[l][i]]

Unused == {l \in Locks : /\ \A c \in Clients : mine[c] # l
                         /\ \A r \in Repos : table[r] # l}
LockFor(r) == IF table[r] # NoLock THEN table[r] ELSE CHOOSE l \in Unused : TRUE

\* setdefault, the count and the fast path of acquire are one turn of the loop.
Enter(c) ==
  /\ pc[c] = "idle"
  /\ LET r == Repo[c]
         l == LockFor(r)
         free == Free(l)
     IN  /\ table' = [table EXCEPT ![r] = l] /\ mine' = [mine EXCEPT ![c] = l]
         /\ counted' = [counted EXCEPT ![r] = TRUE]
         /\ waiters' = [waiters EXCEPT ![r] = IF free THEN @ ELSE @ + 1]
         /\ locked' = [locked EXCEPT ![l] = @ \/ free]
         /\ queue' = [queue EXCEPT ![l] = IF free THEN @ ELSE Append(@, c)]
         /\ pc' = [pc EXCEPT ![c] = IF free THEN "inside" ELSE "waiting"]
  /\ UNCHANGED hit

Uncounted(n) == n - 1

Granted(c) ==
  /\ pc[c] = "woken" /\ ~hit[c]
  /\ waiters' = [waiters EXCEPT ![Repo[c]] = Uncounted(@)]
  /\ locked' = [locked EXCEPT ![mine[c]] = TRUE]
  /\ queue' = [queue EXCEPT ![mine[c]] = RemoveFirst(@, c)]
  /\ pc' = [pc EXCEPT ![c] = "inside"]
  /\ UNCHANGED <<hit, table, counted, mine>>

\* c is done with its lock; the first of q is woken if it can be.
HandOver(c, q) ==
  pc' = [d \in Clients |-> IF d = c THEN "idle"
           ELSE IF q # <<>> /\ d = q[1] /\ pc[d] = "waiting" /\ ~hit[d] THEN "woken"
           ELSE pc[d]]

\* The outer finally clause: an idle key is forgotten.
Forgotten(r, left, busy) == left = 0 /\ ~busy
Tidy(r, left, busy) ==
  /\ counted' = [counted EXCEPT ![r] = @ /\ left # 0]
  /\ waiters' = [waiters EXCEPT ![r] = left]
  /\ table' = [table EXCEPT ![r] = IF counted[r] /\ Forgotten(r, left, busy) THEN NoLock ELSE @]

Abandoned(c) ==
  /\ pc[c] \in {"waiting", "woken"} /\ hit[c]
  /\ LET rest == RemoveFirst(queue[mine[c]], c)
     IN  /\ queue' = [queue EXCEPT ![mine[c]] = rest]
         /\ HandOver(c, IF locked[mine[c]] THEN <<>> ELSE rest)
  /\ Tidy(Repo[c], Uncounted(waiters[Repo[c]]), locked[mine[c]])
  /\ hit' = [hit EXCEPT ![c] = FALSE] /\ mine' = [mine EXCEPT ![c] = NoLock]
  /\ UNCHANGED locked

Leave(c) ==
  /\ pc[c] = "inside"
  /\ locked' = [locked EXCEPT ![mine[c]] = FALSE]
  /\ HandOver(c, queue[mine[c]])
  /\ Tidy(Repo[c], waiters[Repo[c]], FALSE)
  /\ mine' = [mine EXCEPT ![c] = NoLock]
  /\ UNCHANGED <<hit, queue>>

Cancel(c) ==
  /\ pc[c] \in {"waiting", "woken"} /\ ~hit[c]
  /\ hit' = [hit EXCEPT ![c] = TRUE]
  /\ UNCHANGED <<pc, table, counted, waiters, locked, queue, mine>>

-----------------------------------------------------------------------------
\* Two coroutines never mutate the topology of one repository at once, although
\* lock objects come and go with their users (ARCHITECTURE.md:48).
MutualExclusion ==
  \A c, d \in Clients : pc[c] = "inside" /\ pc[d] = "inside" /\ Repo[c] = Repo[d] => c = d

\* Everybody at one repository is at one lock object, and the table leads there.
OneLockPerRepository == \A c \in Clients : mine[c] \in {NoLock, table[Repo[c]]}

\* The reported number of waiters is exact.
WaitersAreCounted ==
  \A r \in Repos :
    waiters[r] = Cardinality({c \in Clients : Repo[c] = r /\ pc[c] \in {"waiting", "woken"}})

\* Whoever waits gets the lock or is cancelled: no wake-up is lost to a
\* cancelled waiter.
WaitsEnd == \A c \in Clients : pc[c] = "waiting" ~> pc[c] # "waiting"
=============================================================================
