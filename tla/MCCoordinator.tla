--------------------------- MODULE MCCoordinator ---------------------------
(* Two workers and a runner for two slots and one lock, which the first worker *)
(* takes twice while it has its slot.                                          *)
EXTENDS Coordinator, TLC
CONSTANTS w1, w2, r1
MCClients == {w1, w2, r1}
Runners   == {r1}
MCRepo    == [c \in MCClients |-> "repo"]
MCCommitters == {w2}
MCVisits  == w1 :> 2 @@ w2 :> 1
=============================================================================
