-------------------------- MODULE MCBriefingDispatcher --------------------------
(* Two servers and two events of one user, one about an email and one that is  *)
(* not, with a limit of one message and a stream cut to one entry.             *)
EXTENDS BriefingDispatcher

MCUserOf == [e \in Events |-> "u"]
MCPriorityOf == [e \in Events |-> IF e = "mail" THEN 95 ELSE 70]
MCLimit == [c \in Channels \ {"email_digest"} |-> 1]
===============================================================================
