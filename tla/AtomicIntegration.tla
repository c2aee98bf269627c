------------------------- MODULE AtomicIntegration -------------------------
(***************************************************************************)
(* What the integration of reviewed tasks promises: the integration branch *)
(* takes one whole task at a time, together with the repairs its gates     *)
(* asked for, and the task is completed at that very instant.              *)
(***************************************************************************)
CONSTANTS Tasks, Fix(_)

VARIABLES tree, done

Init == tree = {} /\ done = {}

Integrate(t) ==
  /\ t \notin done
  /\ done' = done \cup {t}
  /\ \E fixes \in SUBSET {Fix(t)} : tree' = tree \cup {t} \cup fixes

Next == \E t \in Tasks : Integrate(t)
Spec == Init /\ [][Next]_<<tree, done>>
=============================================================================
