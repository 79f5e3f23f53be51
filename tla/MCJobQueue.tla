------------------------------ MODULE MCJobQueue ------------------------------
(* Two users of different plans with a job each: enough for two clients and   *)
(* two consumers to meet on one list and on the meta-queue.                   *)
EXTENDS JobQueue

MCUserOf == [j \in Jobs |-> IF j = "b1" THEN 2 ELSE 1]
MCScoreOf == [j \in Jobs |-> IF j = "b1" THEN 20 ELSE 10]
===============================================================================
