---------------------------- MODULE AtomicApply ----------------------------
(***************************************************************************)
(* What applying an accepted candidate promises about the source checkout: *)
(* in one instant it is either refused, because the original branch is not *)
(* checked out, clean and at the base commit, or that one branch moves to  *)
(* the accepted commit; and the recorded verdict is the one of the instant.*)
(* Whatever else changes in the checkout the user did: every step of the   *)
(* user is counted in edits, and no other step touches the count.          *)
(***************************************************************************)
EXTENDS Naturals

CONSTANTS Branches, Detached, BaseCommit, Accepted

VARIABLES base, tips, head, dirty, verdict, raced, edits
vars == <<base, tips, head, dirty, verdict, raced, edits>>

Usable   == base # Detached /\ head = base /\ ~dirty
Eligible == Usable /\ tips[base] = BaseCommit
Contains == Usable /\ Accepted \subseteq tips[base]

Init == /\ base \in Branches /\ tips \in [Branches -> {{}, BaseCommit}] /\ tips[base] = BaseCommit
        /\ head \in Branches /\ dirty \in BOOLEAN /\ verdict = "none" /\ raced = FALSE /\ edits = 0

Apply == /\ verdict = "none" /\ Eligible
         /\ tips' = [tips EXCEPT ![base] = Accepted]
         /\ verdict' = "applied" /\ UNCHANGED <<base, head, dirty, raced, edits>>

Find == /\ verdict = "none" /\ Contains
        /\ verdict' = "applied" /\ UNCHANGED <<base, tips, head, dirty, raced, edits>>

Refuse == /\ verdict = "none" /\ ~Eligible /\ ~Contains
          /\ verdict' = "skipped" /\ UNCHANGED <<base, tips, head, dirty, raced, edits>>

User == edits' = edits + 1 /\ UNCHANGED <<base, verdict>> /\ (raced => raced')

\* To a user who works in the checkout meanwhile it is promised only that at most the branch
\* that is checked out moves, to the candidate, and that an answer is not withdrawn.
Raced == /\ raced /\ UNCHANGED <<base, head, dirty, raced, edits>>
         /\ tips' \in {tips, [tips EXCEPT ![head] = Accepted]}
         /\ verdict # "none" => verdict' # "none"

Next == Apply \/ Find \/ Refuse \/ User \/ Raced
Spec == Init /\ [][Next]_vars
=============================================================================
