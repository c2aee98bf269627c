--------------------------- MODULE PlanValidation ---------------------------
(***************************************************************************)
(* Planner.validate (planner.py): which answers of the planner become the  *)
(* task graph of a job.  An answer is a record                             *)
(*   tasks     the identifiers it plans,                                   *)
(*   needs     for each of them the identifiers it depends on,             *)
(*   repeated  an identifier, or a dependency of a task, is listed twice,  *)
(*   fields    titles, criteria, risks and identifiers have a legal form.  *)
(***************************************************************************)
EXTENDS Naturals, FiniteSets

\* What the search knows: the nodes it is done with, and whether it has met a cycle.
Going(visited) == [visited |-> visited, cyclic |-> FALSE]

\* visit(): the depth-first search with the sets visiting and visited; an exception ends
\* it.  `explore' is the loop over the dependencies of the node.
Visit(graph, explore, node, visiting, visited) ==
  IF node \in visited THEN Going(visited)
  ELSE IF node \in visiting THEN [visited |-> visited, cyclic |-> TRUE]
  ELSE LET all == explore[<<graph[node], visiting \cup {node}, visited>>]
       IN  IF all.cyclic THEN all ELSE Going(all.visited \cup {node})

\* A loop that visits what is to do, in an order nothing depends on.
Loop(graph, explore, todo, visiting, visited) ==
  IF todo = {} THEN Going(visited)
  ELSE LET node == CHOOSE n \in todo : TRUE
           so   == Visit(graph, explore, node, visiting, visited)
       IN  IF so.cyclic THEN so ELSE explore[<<todo \ {node}, visiting, so.visited>>]

\* What is to do, visiting and visited.
Places(graph) == (SUBSET DOMAIN graph) \X (SUBSET DOMAIN graph) \X (SUBSET DOMAIN graph)

Search(graph) ==
  LET explore[at \in Places(graph)] == Loop(graph, explore, at[1], at[2], at[3])
  IN  explore[<<DOMAIN graph, {}, {}>>]

\* Mutant: only two tasks that wait for each other are a cycle.
Cyclic_Mutual(graph) ==
  \E a, b \in DOMAIN graph : a \in graph[b] /\ b \in graph[a]
Cyclic(graph) == Search(graph).cyclic

\* Mutant: the graph is not searched for cycles.
Accepts_AnyGraph(p, maxTasks) ==
  /\ p.tasks # {} /\ Cardinality(p.tasks) <= maxTasks /\ p.fields /\ ~p.repeated
  /\ \A t \in p.tasks : p.needs[t] \subseteq p.tasks \ {t}
Accepts(p, maxTasks) ==
  /\ p.tasks # {} /\ Cardinality(p.tasks) <= maxTasks /\ p.fields /\ ~p.repeated
  /\ \A t \in p.tasks : p.needs[t] \subseteq p.tasks /\ t \notin p.needs[t]
  /\ ~Cyclic([t \in p.tasks |-> p.needs[t]])

-----------------------------------------------------------------------------
\* What the scheduler needs: whatever is left of the plan, one of it can be done.
Executable(p) ==
  /\ p.tasks # {}
  /\ \A t \in p.tasks : p.needs[t] \subseteq p.tasks
  /\ \A left \in (SUBSET p.tasks) \ {{}} : \E t \in left : p.needs[t] \cap left = {}
=============================================================================
