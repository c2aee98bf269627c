---------------------------- MODULE MCJobRunner ----------------------------
(* The answers of the planner and the scenarios for TLC.  The bounds are       *)
(* explained in the README.  Two tasks are interchangeable; the third is the   *)
(* fallback task.                                                             *)
EXTENDS JobRunner, TLC

CONSTANTS t1, t2, t3

Plan(tasks, needs) ==
  [tasks |-> tasks, needs |-> needs, repeated |-> FALSE, fields |-> TRUE]
Unrelated(tasks) == Plan(tasks, [t \in tasks |-> {}])

\* Every graph over tasks, those with cycles and unknown dependencies included.
Graphs(tasks) == {Plan(tasks, g) : g \in [tasks -> SUBSET (tasks \cup {"unknown"})]}
Malformed == {Unrelated({})}
             \cup {[Unrelated(Tasks) EXCEPT !.repeated = TRUE],
                   [Unrelated(Tasks) EXCEPT !.fields = FALSE]}

MCProposals ==
  [one  |-> {Unrelated({t1})},
   two  |-> {Unrelated({t1, t2}), Unrelated(Tasks)},
   join |-> {Plan(Tasks, [t \in Tasks |-> IF t = t3 THEN {t1, t2} ELSE {}])},
   any  |-> Graphs(Tasks) \cup Malformed]

\* A stop, a resume and a restart anywhere in the life of one task.
Life == [planner |-> "one", maxTasks |-> 2, stops |-> 1, resumes |-> 1,
         restarts |-> 1, early |-> FALSE, again |-> FALSE, spurious |-> FALSE]
Single   == {Life}
Restarts == [Life EXCEPT !.restarts = 2]

\* Two tasks at once: stops and a resume, or a stop and a restart.
Resumed   == [Life EXCEPT !.planner = "two", !.stops = 2, !.restarts = 0]
Recovered == [Life EXCEPT !.planner = "two", !.resumes = 0]

\* A task with two dependencies, with stops that interrupt handlers or with a restart.
Join == [planner |-> "join", maxTasks |-> 3, stops |-> 2, resumes |-> 1,
         restarts |-> 0, early |-> TRUE, again |-> TRUE, spurious |-> FALSE]
JoinRecovered == [Join EXCEPT !.stops = 0, !.resumes = 0, !.restarts = 1]

\* Any answer of the planner, and commands that end as cancelled.
Answers == [planner |-> "any", maxTasks |-> 3, stops |-> 0, resumes |-> 0,
            restarts |-> 0, early |-> FALSE, again |-> FALSE, spurious |-> TRUE]

\* A stop while the handler of another one waits for the workers.
Twice == {[Life EXCEPT !.stops = 2, !.resumes = 0, !.restarts = 0, !.again = TRUE]}

All      == {Restarts, Resumed, Recovered, Join, JoinRecovered, Answers}
Symmetry == Permutations({t1, t2})
=============================================================================
