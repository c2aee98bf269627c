-------------------------- MODULE AcceptanceLedger --------------------------
(***************************************************************************)
(* What the store promises about accepting a job: a job is decided at most *)
(* once, with one commit, one intent for the source branch and one         *)
(* dossier; a decided job is published at most once, with an outcome that  *)
(* answers its intent; and nothing else ever happens to either record.     *)
(***************************************************************************)
CONSTANTS Jobs, Commits, Dossiers,
          Undecided,      \* the decision of a job that is still open
          Unpublished     \* the result of a job that is not completed

VARIABLES decision, result
vars == <<decision, result>>

Answers(i, o) == IF i = "requested" THEN o \in {"applied", "skipped"}
                                    ELSE o = "not-requested"

Init == /\ decision = [j \in Jobs |-> Undecided]
        /\ result = [j \in Jobs |-> Unpublished]

Decide(j) ==
  /\ decision[j] = Undecided
  /\ \E c \in Commits, i \in {"requested", "not-requested"}, d \in Dossiers :
       decision' = [decision EXCEPT ![j] = <<c, i, d>>]
  /\ UNCHANGED result

Publish(j) ==
  /\ decision[j] # Undecided
  /\ result[j] = Unpublished
  /\ \E o \in {"applied", "skipped", "not-requested"} :
       /\ Answers(decision[j][2], o)
       /\ result' = [result EXCEPT ![j] = o]
  /\ UNCHANGED decision

Next == \E j \in Jobs : Decide(j) \/ Publish(j)
Spec == Init /\ [][Next]_vars
=============================================================================
