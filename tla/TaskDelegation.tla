--------------------------- MODULE TaskDelegation ---------------------------
(***************************************************************************)
(* Delegated tasks (tasks/delegation.go, delegation_followup.go).  A       *)
(* delegation is inserted and then written to its task; the follow-up      *)
(* check reads the pending delegations and updates each in one or two      *)
(* statements.  Checks of two processes overlap when one replaces the      *)
(* other, and any statement may fail.  A tick is the 48 hours between      *)
(* follow-ups.  What the task's status does is in TaskReminders.          *)
(***************************************************************************)
EXTENDS Naturals, FiniteSets, Functions

CONSTANTS
  Tasks,         \* rows of tasks
  Delegations,   \* rows of task_delegations, each of a request of its own
  Checkers,      \* the processes that run the cron jobs
  Nobody,        \* no delegatee
  MaxFollowUps,
  MaxTime,       \* bound: ticks of the clock
  MaxErrors      \* bound: statements that fail

DelegationAssumption ==
  /\ Tasks # {} /\ IsFiniteSet(Checkers)
  /\ MaxFollowUps \in Nat \ {0}
  /\ Nobody \notin Delegations
  /\ MaxTime \in Nat /\ MaxErrors \in Nat

VARIABLES
  to,        \* to[t]: delegated_to of the task
  deleg,     \* deleg[d]: the row and how far its request is
  check,     \* check[c]: the follow-up check of process c
  mails,     \* mails[d]: follow-ups sent for d
  shared,    \* the delegations that two checks had read at once
  now, errors

vars == <<to, deleg, check, mails, shared, now, errors>>

Never == MaxTime + 2                      \* NULL, and every later date

Unused == [pc |-> "unused", task |-> CHOOSE t \in Tasks : TRUE,
           status |-> "pending", date |-> Never, count |-> 0]
Idle == [pc |-> "idle", todo |-> [d \in {} |-> 0], item |-> Nobody, since |-> 0]

\* The shape of the state.
TypeOK ==
  /\ to \in [Tasks -> Delegations \cup {Nobody}]
  /\ deleg \in [Delegations -> [pc : {"unused", "update", "done"}, task : Tasks,
                                status : {"pending", "overdue"}, date : Nat, count : Nat]]
  /\ \A c \in Checkers : check[c].pc \in {"idle", "send", "mark"}
  /\ shared \subseteq Delegations
  /\ now \in 0 .. MaxTime /\ errors \in 0 .. MaxErrors

Init ==
  /\ to = [t \in Tasks |-> Nobody]
  /\ deleg = [d \in Delegations |-> Unused]
  /\ check = [c \in Checkers |-> Idle]
  /\ mails = [d \in Delegations |-> 0]
  /\ shared = {}
  /\ now = 0 /\ errors = 0

Fails == errors < MaxErrors /\ errors' = errors + 1
Works == UNCHANGED errors

-------------------------------------------------------------------------------
(* Delegate.                                                                 *)

Insert(d, t, date) ==
  /\ deleg[d].pc = "unused"
  /\ deleg' = [deleg EXCEPT ![d] = [pc |-> "update", task |-> t, status |-> "pending",
                                        date |-> date, count |-> 0]]
  /\ UNCHANGED <<to, check, mails, shared, now, errors>>

\* The task, whatever its status and whomever it was delegated to before:
\* that delegation stays pending.  An error ends the request.
Assign(d) ==
  /\ deleg[d].pc = "update"
  /\ \/ Works /\ to' = [to EXCEPT ![deleg[d].task] = d]
     \/ Fails /\ UNCHANGED to
  /\ deleg' = [deleg EXCEPT ![d].pc = "done"]
  /\ UNCHANGED <<check, mails, shared, now>>

-------------------------------------------------------------------------------
(* CheckPending.                                                             *)

\* The check goes on without d.
Done(c, d) ==
  LET rest == DOMAIN check[c].todo \ {d} IN
  check' = [check EXCEPT ![c] =
              IF rest = {} THEN Idle
              ELSE [pc |-> "send", todo |-> Restrict(check[c].todo, rest), item |-> Nobody,
                    since |-> check[c].since]]

\* The pending delegations that are due, with the counts read.
Pending == {d \in Delegations : /\ deleg[d].pc # "unused" /\ deleg[d].status = "pending"
                                /\ deleg[d].date <= now /\ deleg[d].count < MaxFollowUps}

Begin(c) ==
  /\ check[c].pc = "idle" /\ Pending # {}
  /\ check' = [check EXCEPT ![c] = [pc |-> "send", todo |-> [d \in Pending |-> deleg[d].count],
                                      item |-> Nobody, since |-> now]]
  /\ shared' = shared \cup {d \in Pending : \E o \in Checkers : d \in DOMAIN check[o].todo}
  /\ UNCHANGED <<to, deleg, mails, now, errors>>

\* The row of d after an update.
Row(d, status, date, count) ==
  [pc |-> deleg[d].pc, task |-> deleg[d].task, status |-> status, date |-> date, count |-> count]

\* A follow-up: the mail, the update of the row unless it fails, and on to
\* the alert if the count that was read says it was the last one.
SendAndUpdate(c, d, last, date, count) ==
  /\ check[c].pc = "send"
  /\ mails' = [mails EXCEPT ![d] = @ + 1]
  /\ \/ Works /\ deleg' = [deleg EXCEPT ![d] = Row(d, deleg[d].status, date, count)]
     \/ Fails /\ UNCHANGED deleg
  /\ IF last
       THEN check' = [check EXCEPT ![c] = [pc |-> "mark", todo |-> check[c].todo, item |-> d,
                                            since |-> check[c].since]]
       ELSE Done(c, d)
  /\ UNCHANGED <<to, shared, now>>
Read(c, d) == check[c].todo[d]

\* Variant: the count is written as it was read.
FollowUpSetsCount(c, d) ==
  d \in DOMAIN check[c].todo /\
  SendAndUpdate(c, d, Read(c, d) + 1 >= MaxFollowUps,
                check[c].since + 1, Read(c, d) + 1)

\* Variant: a follow-up has no next date.
FollowUpParks(c, d) ==
  d \in DOMAIN check[c].todo /\
  SendAndUpdate(c, d, Read(c, d) + 1 >= MaxFollowUps,
                Never, deleg[d].count + 1)

FollowUp(c, d) ==
  d \in DOMAIN check[c].todo /\
  SendAndUpdate(c, d, Read(c, d) + 1 >= MaxFollowUps,
                check[c].since + 1, deleg[d].count + 1)

\* The last follow-up of the count that was read: overdue.
MarkOverdue(c) ==
  /\ check[c].pc = "mark"
  /\ LET d == check[c].item IN
     /\ \/ Works /\ deleg' = [deleg EXCEPT ![d] = Row(d, "overdue", Never, deleg[d].count)]
        \/ Fails /\ UNCHANGED deleg
     /\ Done(c, d)
  /\ UNCHANGED <<to, mails, shared, now>>

\* The process is replaced in the middle of a check.
Stop(c) ==
  /\ check[c].pc # "idle"
  /\ Fails
  /\ check' = [check EXCEPT ![c] = Idle]
  /\ UNCHANGED <<to, deleg, mails, shared, now>>

Clock ==
  /\ now < MaxTime
  /\ now' = now + 1
  /\ UNCHANGED <<to, deleg, check, mails, shared, errors>>

Check(c) == Begin(c) \/ (\E d \in Delegations : FollowUp(c, d)) \/ MarkOverdue(c)
Next ==
  \/ \E d \in Delegations : Assign(d) \/ \E t \in Tasks : Insert(d, t, now)
  \/ \E c \in Checkers : Check(c) \/ Stop(c)
  \/ Clock

Spec == Init /\ [][Next]_vars

\* The cron jobs run again and again, and a statement ends.
FairSpec == Spec /\ \A c \in Checkers : WF_vars(Check(c))

-------------------------------------------------------------------------------
(* Properties.                                                               *)

\* A task that says whom it was delegated to has a delegation that records
\* it, so a delegatee is never assigned without a follow-up.
DelegateeIsRecorded ==
  \A t \in Tasks : to[t] # Nobody => deleg[to[t]].pc # "unused" /\ deleg[to[t]].task = t

\* A delegatee gets no more than MaxFollowUps mails, one more for each
\* statement that failed and, if two checks had read the delegation at once,
\* for each other process: the count is read before the mail and raised after.
FollowUpsAreLimited ==
  \A d \in Delegations :
    mails[d] <= MaxFollowUps + errors + (IF d \in shared THEN Cardinality(Checkers) - 1 ELSE 0)

\* A pending delegation whose follow-ups are used up is never read again: no
\* more mails, and no alert.  It is about to be marked overdue unless two
\* checks had read it at once (each may take the other's mail for its own
\* last but one) or a statement failed.
Exhausted(d) == deleg[d].status = "pending" /\ deleg[d].count >= MaxFollowUps
ExhaustedIsOverdue ==
  \A d \in Delegations : Exhausted(d) /\ d \notin shared /\ errors = 0 =>
    \E c \in Checkers : check[c].pc = "mark" /\ check[c].item = d

\* What is due is followed up and gets its next date, until its follow-ups
\* have ended.
DueIsFollowedUp ==
  \A d \in Delegations :
    d \in Pending ~> (deleg[d].status = "overdue" \/ Exhausted(d)
                         \/ deleg[d].date \in now + 1 .. MaxTime + 1)

\* A delegation is on record, is followed up a bounded number of times, and
\* ends in the alert (delegation_followup.go:93-136).
FollowedUpWithinLimits ==
  TypeOK /\ DelegateeIsRecorded /\ FollowUpsAreLimited /\ ExhaustedIsOverdue
=============================================================================
