------------------------------ MODULE MCAISystem ------------------------------
(* One user and one email, of which many copies may wait.                     *)
EXTENDS AISystem

MCOwner == [e \in Emails |-> 1]
MCPlanStages == [p \in Plans |-> IF p = "free" THEN {"categorizing"} ELSE Working]
MCPlanPriority == [p \in Plans |-> IF p = "free" THEN 10 ELSE 40]
===============================================================================
