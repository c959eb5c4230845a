-------------------------- MODULE MCGoalSupervisor --------------------------
(* Small instances of GoalSupervisor: which goals the user may start. *)
EXTENDS GoalSupervisor

\* Every judge and both kinds of first prompt; compaction with one of them.
AllGoals ==
    {r \in RequestType : (r.autoCompact => r.http) /\ (r.advertises => r.prefixGoal)}

\* A goal whose /goal has to wait behind the running turn.
QueuedGoal ==
    {r \in RequestType : r.prefixGoal /\ ~r.advertises /\ ~r.http /\ ~r.autoCompact}
=============================================================================
