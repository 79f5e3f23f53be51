---------------------------- MODULE TaskReminders ----------------------------
(***************************************************************************)
(* The reminders of tasks with a deadline (tasks/reminders.go), the        *)
(* upgrade of overdue ones (extraction.go) and the operations of the API   *)
(* on a task (api/task_handlers.go).  A check sends what was due when it   *)
(* began while the user goes on; the reminders are those of the deadline   *)
(* the task was extracted with.                                            *)
(***************************************************************************)
EXTENDS Integers, FiniteSets

CONSTANTS
  Tasks,       \* rows of tasks
  Kinds,       \* the kinds of reminders
  Offset,      \* Offset[k]: ticks before the deadline
  Deadlines,   \* the deadlines anybody asks for
  MaxTime,     \* bound: ticks of the clock
  MaxErrors    \* bound: statements that fail

RemindersAssumption ==
  /\ Offset \in [Kinds -> Nat] /\ Deadlines \subseteq Nat
  /\ MaxTime \in Nat /\ MaxErrors \in Nat

VARIABLES
  task,      \* task[t]: the row
  notify,    \* the reminder check: what it has read and not sent, since when
  now, errors

vars == <<task, notify, now, errors>>

Null == -1                                 \* a date that is NULL
Closed == {"done", "dismissed"}
Statuses == {"to_do", "waiting"} \cup Closed   \* in_progress is as to_do
AllKinds == Kinds \cup {"follow_up"}
NoReminders == [k \in AllKinds |-> Null]
Absent == [status |-> "absent", extracted |-> FALSE, deadline |-> Null, top |-> FALSE,
           ended |-> Null, reminder |-> NoReminders]

Row(t) == task[t].status # "absent"
Open(t) == Row(t) /\ task[t].status \notin Closed

\* The shape of the state.
TypeOK ==
  /\ task \in [Tasks -> [status : Statuses \cup {"absent"}, extracted : BOOLEAN,
                         deadline : Nat \cup {Null}, top : BOOLEAN,
                         ended : Nat \cup {Null}, reminder : [AllKinds -> Int]]]
  /\ \A t \in Tasks : task[t].status \in Closed => task[t].ended # Null
  /\ notify.todo \subseteq Tasks \X AllKinds
  /\ now \in 0 .. MaxTime /\ errors \in 0 .. MaxErrors

Init ==
  /\ task = [t \in Tasks |-> Absent]
  /\ notify = [todo |-> {}, since |-> 0]
  /\ now = 0 /\ errors = 0

Fails == errors < MaxErrors /\ errors' = errors + 1
Works == UNCHANGED errors

-------------------------------------------------------------------------------
(* Reminders.                                                                *)

\* Schedule: a reminder that would be past is not stored; each is inserted
\* by a statement of its own, which may fail for some of the kinds.
Schedule(d, kinds) ==
  [k \in AllKinds |-> IF k \in kinds /\ d # Null /\ d - Offset[k] >= now
                        THEN d - Offset[k] ELSE Null]

\* The row of a new task.
Inserted(extracted, d, reminder) ==
  [status |-> "to_do", extracted |-> extracted, deadline |-> d, top |-> FALSE,
   ended |-> Null, reminder |-> reminder]

\* A task of an email, with its reminders; a task of the user, without.
Extract(t, d) ==
  /\ ~Row(t)
  /\ \E kinds \in SUBSET Kinds :
       /\ IF kinds = Kinds THEN Works ELSE Fails
       /\ task' = [task EXCEPT ![t] = Inserted(TRUE, d, Schedule(d, kinds))]
  /\ UNCHANGED <<notify, now>>

Create(t, d) ==
  /\ ~Row(t)
  /\ task' = [task EXCEPT ![t] = Inserted(FALSE, d, NoReminders)]
  /\ UNCHANGED <<notify, now, errors>>

\* sent_at stays NULL: the update runs on the connection whose rows are still
\* open and fails ("conn busy"), so a reminder is due again at every check.
Due == {tk \in Tasks \X AllKinds : Open(tk[1]) /\ task[tk[1]].reminder[tk[2]] \in 0 .. now}

CheckReminders ==
  /\ notify.todo = {} /\ Due # {}
  /\ notify' = [todo |-> Due, since |-> now]
  /\ UNCHANGED <<task, now, errors>>

Send(tk) ==
  /\ tk \in notify.todo
  /\ notify' = [notify EXCEPT !.todo = @ \ {tk}]
  /\ UNCHANGED <<task, now, errors>>

Overdue(t) == Open(t) /\ task[t].deadline # Null /\ task[t].deadline < now

Upgraded(t) == Overdue(t)

\* Priority p0, in one statement for all.
OverdueUpgrade ==
  /\ \E t \in Tasks : Upgraded(t) /\ ~task[t].top
  /\ task' = [t \in Tasks |-> [task[t] EXCEPT !.top = @ \/ Upgraded(t)]]
  /\ UNCHANGED <<notify, now, errors>>

-------------------------------------------------------------------------------
(* The user, through the API.                                                *)

WithStatus(t, s) ==
  [task EXCEPT ![t].status = s, ![t].ended = IF s \in Closed THEN now ELSE @]

\* HandleUpdateStatus, and HandleDismissTask, whose feedback nobody reads:
\* any status, also from one that was closed.
UpdateStatus(t, s) ==
  /\ Row(t) /\ task[t].status # s
  /\ task' = WithStatus(t, s)
  /\ UNCHANGED <<notify, now, errors>>

\* HandleUpdateTask: the reminders of the old deadline stay.
UpdateTask(t, d, top) ==
  /\ Row(t) /\ <<d, top>> # <<task[t].deadline, task[t].top>>
  /\ task' = [task EXCEPT ![t].deadline = d, ![t].top = top]
  /\ UNCHANGED <<notify, now, errors>>

\* Delegate: the task waits, whatever it was, and gets its follow_up reminder
\* unless that statement fails (TaskDelegation has the other statements).
Delegate(t, date) ==
  /\ Row(t)
  /\ \/ Works /\ task' = [WithStatus(t, "waiting") EXCEPT ![t].reminder["follow_up"] = date]
     \/ Fails /\ task' = WithStatus(t, "waiting")
  /\ UNCHANGED <<notify, now>>

Clock ==
  /\ now < MaxTime
  /\ now' = now + 1
  /\ UNCHANGED <<task, notify, errors>>

Next ==
  \/ \E t \in Tasks :
       \/ \E d \in Deadlines : Extract(t, d) \/ Create(t, d)
       \/ \E s \in Statuses : UpdateStatus(t, s)
       \/ \E d \in Deadlines, top \in BOOLEAN : UpdateTask(t, d, top)
       \/ Delegate(t, now)
  \/ CheckReminders \/ (\E tk \in notify.todo : Send(tk)) \/ OverdueUpgrade
  \/ Clock

Spec == Init /\ [][Next]_vars

\* The cron job runs every quarter of an hour.
FairSpec ==
  /\ Spec
  /\ WF_vars(CheckReminders \/ \E tk \in notify.todo : Send(tk))
  /\ WF_vars(OverdueUpgrade)

-------------------------------------------------------------------------------
(* Properties.                                                               *)

\* No reminder names a task that was closed before the check began and has
\* stayed closed.
RemindedWhileOpen ==
  \A tk \in notify.todo : Open(tk[1]) \/ task[tk[1]].ended >= notify.since

\* A reminder that is due is sent unless the task is closed.
ReminderIsSent ==
  \A tk \in Tasks \X AllKinds : tk \in Due ~> (tk \in notify.todo \/ tk \notin Due)

\* An open task past its deadline becomes urgent, or is closed or moved.
Neglected(t) == Overdue(t) /\ ~task[t].top
OverdueEscalates == \A t \in Tasks : Neglected(t) ~> ~Neglected(t)
=============================================================================
