---------------------------- MODULE StateMachine ----------------------------
(***************************************************************************)
(* The executable state model of state_machine.py: the durable states of a *)
(* job, a task and an attempt, the moves between them that the store       *)
(* accepts, and the validator every store transaction runs on the job's    *)
(* rows before it commits.                                                 *)
(***************************************************************************)

JobStates  == {"queued", "planning", "running", "stopping", "stopped",
               "completed", "failed"}
TaskStates == {"pending", "running", "reviewing", "integrating", "completed",
               "failed", "blocked", "stopped"}
AttemptStates == {"running", "passed", "failed", "cancelled"}

\* A row that has not been inserted yet.
Absent == "absent"

InflightTaskStates == {"running", "reviewing", "integrating"}
TerminalJobStates  == {"stopped", "completed", "failed"}
AcceptancePhases   == {"none", "accepted", "applying", "published"}

JobTransitions ==
  [queued    |-> {"queued", "planning", "running", "stopping", "failed"},
   planning  |-> {"planning", "running", "queued", "stopping", "failed"},
   running   |-> {"running", "queued", "stopping", "completed", "failed"},
   stopping  |-> {"stopping", "stopped", "queued", "completed", "failed"},
   stopped   |-> {"stopped", "queued"},
   failed    |-> {"failed", "queued"},
   completed |-> {"completed"}]

TaskTransitions ==
  [pending     |-> {"pending", "running", "blocked", "stopped", "failed"},
   running     |-> {"running", "reviewing", "pending", "failed", "stopped"},
   reviewing   |-> {"reviewing", "integrating", "pending", "failed", "stopped"},
   integrating |-> {"integrating", "pending", "completed", "failed", "stopped"},
   completed   |-> {"completed"},
   failed      |-> {"failed", "pending"},
   blocked     |-> {"blocked", "pending", "failed", "stopped"},
   stopped     |-> {"stopped", "pending"}]

AttemptTransitions ==
  [running   |-> {"running", "passed", "failed", "cancelled"},
   passed    |-> {"passed"},
   failed    |-> {"failed"},
   cancelled |-> {"cancelled"}]

\* validate_job_snapshot: `tasks` are the states of the job's tasks, `owners`
\* the states of the tasks that own an attempt still recorded as running.
SnapshotValid(state, tasks, stop, owners, phase) ==
  /\ state = "completed" => tasks \subseteq {"completed"} /\ ~stop
  /\ state \in {"queued", "stopped", "failed"} => tasks \cap InflightTaskStates = {}
  /\ state = "stopped" => stop
  /\ owners # {} => /\ state \in {"running", "stopping"}
                    /\ owners \subseteq InflightTaskStates
  /\ phase # "none" => tasks \subseteq {"completed"} /\ owners = {}
  /\ phase \in {"accepted", "applying"} => state \in {"running", "stopping"}
  /\ phase = "published" <=> state = "completed"
=============================================================================
