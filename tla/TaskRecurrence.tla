--------------------------- MODULE TaskRecurrence ---------------------------
(***************************************************************************)
(* Recurring tasks (tasks/recurring.go, recurrence.go).  A task with two   *)
(* similar ones before it gets a rule and a date; the task_recurrence job  *)
(* reads the tasks whose date has come, inserts an instance of each, which *)
(* recurs itself, and moves the date in a second statement.  Jobs of two   *)
(* processes overlap when one replaces the other; a statement may fail.    *)
(***************************************************************************)
EXTENDS Naturals, Sequences, FiniteSets, Functions

CONSTANTS
  Processors,  \* the processes that run the job
  Periods,     \* ticks of the rules: daily, weekly, biweekly, monthly
  MaxTime,     \* bound: ticks of the clock
  MaxRows,     \* bound: rows of tasks
  MaxErrors    \* bound: statements that fail, processes that stop

RecurrenceAssumption ==
  /\ Periods \subseteq Nat \ {0}
  /\ MaxTime \in Nat /\ MaxRows \in Nat \ {0} /\ MaxErrors \in Nat

VARIABLES
  rows,    \* the similar tasks, in the order of the inserts
  job,     \* job[p]: what the run of p has read and not dealt with
  shared,  \* rows that two runs had read at once
  now, errors

vars == <<rows, job, shared, now, errors>>

NoRule == 0      \* recurrence_rule IS NULL
Original == 0    \* the parent of a task that no job inserted
Idle == [pc |-> "idle", todo |-> [i \in {} |-> 0], row |-> 0]

Task(parent, deadline, period, next) ==
  [parent |-> parent, deadline |-> deadline, period |-> period, next |-> next, ended |-> FALSE]

\* The shape of the state.
TypeOK ==
  /\ rows \in Seq([parent : Nat, deadline : Nat, period : Periods \cup {NoRule},
                   next : Nat, ended : BOOLEAN])
  /\ \A p \in Processors : job[p].pc \in {"idle", "insert", "move"}
  /\ shared \subseteq 1 .. MaxRows
  /\ now \in 0 .. MaxTime /\ errors \in 0 .. MaxErrors

\* The third of three similar tasks has just been inserted.
Init ==
  /\ rows = <<Task(Original, 0, NoRule, 0)>>
  /\ job = [p \in Processors |-> Idle]
  /\ shared = {}
  /\ now = 0 /\ errors = 0

Fails == errors < MaxErrors /\ errors' = errors + 1
Works == UNCHANGED errors

\* nextOccurrence; a month has a fixed length here.
NextOccurrence(period, from) == from + period

\* RecurringDetector.Check: the period is the average of the intervals.
Detect(period) ==
  /\ rows[1].period = NoRule
  /\ rows' = [rows EXCEPT ![1].period = period, ![1].next = NextOccurrence(period, now)]
  /\ UNCHANGED <<job, shared, now, errors>>

-------------------------------------------------------------------------------
(* ProcessRecurrence.                                                        *)

Due == {i \in DOMAIN rows : rows[i].period # NoRule /\ rows[i].next <= now /\ ~rows[i].ended}

\* The query: the rows with the dates they have.
Begin(p) ==
  /\ job[p].pc = "idle" /\ Due # {}
  /\ job' = [job EXCEPT ![p] = [pc |-> "insert", todo |-> [i \in Due |-> rows[i].next], row |-> 0]]
  /\ shared' = shared \cup {i \in Due : \E o \in Processors : i \in DOMAIN job[o].todo}
  /\ UNCHANGED <<rows, now, errors>>

\* The run of p goes on without i.
Done(p, i) ==
  LET left == DOMAIN job[p].todo \ {i} IN
  job' = [job EXCEPT ![p] = IF left = {} THEN Idle
                            ELSE [@ EXCEPT !.pc = "insert", !.todo = Restrict(job[p].todo, left)]]

\* The instance is due one period after the date, and recurs from then on.
Instance(i, next) ==
  LET deadline == NextOccurrence(rows[i].period, next)
  IN Task(i, deadline, rows[i].period, NextOccurrence(rows[i].period, deadline))

\* A failed insert leaves the row as it is: it is due at the next run.
InsertInstance(p, i) ==
  /\ job[p].pc = "insert" /\ i \in DOMAIN job[p].todo
  /\ \/ /\ Works /\ Len(rows) < MaxRows
        /\ rows' = Append(rows, Instance(i, job[p].todo[i]))
        /\ job' = [job EXCEPT ![p] = [pc |-> "move", todo |-> job[p].todo, row |-> i]]
     \/ /\ Fails
        /\ Done(p, i)
        /\ UNCHANGED rows
  /\ UNCHANGED <<shared, now>>

\* Variant: the date of the original stays.
MoveNothing(p) ==
  /\ job[p].pc = "move"
  /\ Done(p, job[p].row)
  /\ UNCHANGED <<rows, shared, now, errors>>

\* The date of the original moves two periods from the one that was read; an
\* error is only logged.
Move(p) ==
  /\ job[p].pc = "move"
  /\ LET i == job[p].row
         nextNext == NextOccurrence(rows[i].period, job[p].todo[i])
     IN /\ \/ /\ Works
              /\ rows' = [rows EXCEPT ![i].next = NextOccurrence(rows[i].period, nextNext)]
           \/ Fails /\ UNCHANGED rows
        /\ Done(p, i)
  /\ UNCHANGED <<shared, now>>

Stop(p) ==
  /\ job[p].pc # "idle"
  /\ Fails
  /\ job' = [job EXCEPT ![p] = Idle]
  /\ UNCHANGED <<rows, shared, now>>

\* The user dismisses a task: its instances stay.
Dismiss(i) ==
  /\ ~rows[i].ended
  /\ rows' = [rows EXCEPT ![i].ended = TRUE]
  /\ UNCHANGED <<job, shared, now, errors>>

Clock ==
  /\ now < MaxTime
  /\ now' = now + 1
  /\ UNCHANGED <<rows, job, shared, errors>>

ProcessRecurrence(p) ==
  Begin(p) \/ (\E i \in DOMAIN job[p].todo : InsertInstance(p, i)) \/ Move(p)
Next ==
  \/ \E period \in Periods : Detect(period)
  \/ \E p \in Processors : ProcessRecurrence(p) \/ Stop(p)
  \/ \E i \in DOMAIN rows : Dismiss(i)
  \/ Clock

Spec == Init /\ [][Next]_vars

-------------------------------------------------------------------------------
(* Properties.                                                               *)

\* The instances a row has made for one date.
Instances(i, deadline) ==
  {j \in DOMAIN rows : rows[j].parent = i /\ rows[j].deadline = deadline}

\* A row that no two runs had read at once makes one instance for a date, and
\* one more for each failure after the insert.  That is per row: an instance
\* recurs like its original, so the next date of a series is used once by each
\* of them, and its tasks double every two periods (recurrence.go:79).
OncePerRow ==
  \A i \in DOMAIN rows \ shared, j \in DOMAIN rows :
    Cardinality(Instances(i, rows[j].deadline)) <= 1 + errors

\* The date of a row only moves forward: a run that was overtaken by another
\* one would write an older date back.
DatesAdvance ==
  [][\A i \in DOMAIN rows : i \notin shared => rows'[i].next >= rows[i].next]_vars

\* A recurring task uses each of its dates once (recurrence.go:77-116).
DatesUsedOnce == [](TypeOK /\ OncePerRow) /\ DatesAdvance
=============================================================================
