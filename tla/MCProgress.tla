------------------------------ MODULE MCProgress ------------------------------
(***************************************************************************)
(* What must get on, each on a small instance of its own: the reminders    *)
(* and the follow-ups of tasks, the sync of a calendar, and the approval   *)
(* of drafts, whose requests hold connections of the pool while they wait  *)
(* for more.  A behaviour is of the one part it begins as, and the state   *)
(* of the others stays at its Init.                                        *)
(***************************************************************************)
EXTENDS Integers, Sequences

CONSTANTS Tasks, Processes, Nobody, Requests, Drafts, NoDraft

VARIABLES part, now, errors,
          task, notify,                                    \* reminders
          to, deleg, check, mails, read,                   \* follow-ups
          provider, up, clock, oldest, consent, token, event, sync, missed, unlisted,
          draft, req, mail, sent, ms                       \* approval

reminders == <<task, notify>>
followUps == <<to, deleg, check, mails, read>>
calendar == <<provider, up, clock, oldest, consent, token, event, sync, missed, unlisted>>
approval == <<draft, req, mail, sent, ms>>
vars == <<part, now, errors, reminders, followUps, calendar, approval>>

R == INSTANCE TaskReminders WITH
       Kinds <- {"48h", "2h"}, Offset <- [k \in {"48h", "2h"} |-> IF k = "48h" THEN 1 ELSE 0],
       Deadlines <- {0, 1}, MaxTime <- 2, MaxErrors <- 1
D == INSTANCE TaskDelegation WITH
       Delegations <- Processes, Checkers <- Processes, shared <- read,
       MaxFollowUps <- 2, MaxTime <- 1, MaxErrors <- 1
S == INSTANCE CalendarSync WITH
       Syncs <- Processes, row <- event, faults <- errors, Events <- {"e1"},
       Malformed <- {}, MaxRetries <- 1, MaxChanges <- 1, MaxFaults <- 1
A == INSTANCE DraftApproval WITH row <- draft, Conns <- 2, MaxEdits <- 1, MaxMs <- 2

ASSUME R!RemindersAssumption /\ D!DelegationAssumption /\ S!CalendarAssumption
ASSUME A!ApprovalAssumption

\* Of the initial states of a part one is enough while another runs.
Init ==
  /\ part \in {"reminders", "followUps", "calendar", "approval"}
  /\ R!Init /\ D!Init /\ S!Init /\ A!Init
  /\ part # "calendar" => provider = "google"

Is(p) == part = p /\ UNCHANGED part
Next ==
  \/ Is("reminders") /\ R!Next /\ UNCHANGED <<followUps, calendar, approval>>
  \/ Is("followUps") /\ D!Next /\ UNCHANGED <<reminders, calendar, approval>>
  \/ Is("calendar") /\ S!Next /\ UNCHANGED <<now, reminders, followUps, approval>>
  \/ Is("approval") /\ A!Next /\ UNCHANGED <<now, errors, reminders, followUps, calendar>>

\* The fairness of the part that runs.
Fair(p) ==
  \/ Is("reminders") /\ (R!CheckReminders \/ \E tk \in notify.todo : R!Send(tk))
       /\ UNCHANGED <<followUps, calendar, approval>>
  \/ Is("followUps") /\ D!Check(p) /\ UNCHANGED <<reminders, calendar, approval>>
  \/ Is("calendar") /\ S!Sync(p) /\ UNCHANGED <<now, reminders, followUps, approval>>
JobsSpec ==
  /\ Init /\ [][Next]_vars
  /\ \A p \in Processes : WF_vars(Fair(p))
  /\ WF_vars(Is("reminders") /\ R!OverdueUpgrade /\ UNCHANGED <<followUps, calendar, approval>>)
  /\ \A r \in Requests :
       WF_vars(/\ Is("approval") /\ (A!HandleButSend(r) \/ A!Expire(r))
               /\ UNCHANGED <<now, errors, reminders, followUps, calendar>>)

-------------------------------------------------------------------------------
\* What is due is reminded of and followed up, and an open task past its
\* deadline becomes urgent (TaskReminders, TaskDelegation).
TasksGetOn == R!ReminderIsSent /\ R!OverdueEscalates /\ D!DueIsFollowedUp
\* The token catches up with the provider (CalendarSync; google.go:100).
CatchesUp == part = "calendar" => S!CatchesUp
\* No request waits for ever for a connection that others hold (DraftApproval;
\* send_handlers.go:145).
RequestsReturn == A!RequestsReturn
===============================================================================
