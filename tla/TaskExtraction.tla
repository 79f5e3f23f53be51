--------------------------- MODULE TaskExtraction ---------------------------
(***************************************************************************)
(* How emails become tasks (tasks/extraction.go, dedup.go) beside the      *)
(* tasks the user makes (api/task_handlers.go).  Workers process emails at *)
(* the same time; each item is looked up in two queries and inserted, in   *)
(* statements of their own.  Any of them may fail, and a lookup that fails *)
(* finds nothing.                                                          *)
(***************************************************************************)
EXTENDS Naturals, Sequences, FiniteSets

CONSTANTS
  Emails, Workers,
  Manual,      \* the email of a task that came from none
  Items,       \* Items[e]: the titles extracted from e with enough confidence
  Window,      \* ticks during which a similar open task is a duplicate
  MaxTime,     \* bound: ticks of the clock
  MaxRows,     \* bound: rows of tasks
  MaxErrors    \* bound: statements that fail

Titles == UNION {{Items[e][i] : i \in DOMAIN Items[e]} : e \in Emails}

ExtractionAssumption ==
  /\ Items \in [Emails -> Seq(Titles)]
  /\ Window \in Nat /\ MaxTime \in Nat /\ MaxRows \in Nat /\ MaxErrors \in Nat

VARIABLES
  rows,    \* the table, in the order of the inserts
  work,    \* work[w]: the email w processes and how far it is
  loose,   \* emails and titles whose check was answered too early, or not at all
  now, errors

vars == <<rows, work, loose, now, errors>>

Idle == [pc |-> "idle", email |-> CHOOSE e \in Emails : TRUE, item |-> 1]
Open(i) == rows[i].open

\* The shape of the state.
TypeOK ==
  /\ rows \in Seq([email : Emails \cup {Manual}, title : Titles, open : BOOLEAN,
                   created : Nat, ever : BOOLEAN])
  /\ \A w \in Workers : work[w].pc \in {"idle", "check", "similar", "insert"}
  /\ loose \subseteq Emails \cup Titles
  /\ now \in 0 .. MaxTime /\ errors \in 0 .. MaxErrors

Init ==
  /\ rows = <<>>
  /\ work = [w \in Workers |-> Idle]
  /\ loose = {}
  /\ now = 0 /\ errors = 0

Fails == errors < MaxErrors /\ errors' = errors + 1
Works == UNCHANGED errors

-------------------------------------------------------------------------------
(* ProcessTasks.                                                             *)

Title(w) == Items[work[w].email][work[w].item]

\* The next item, if there is one.
NextItem(w) ==
  work' = [work EXCEPT ![w] = IF @.item < Len(Items[@.email])
                                THEN [@ EXCEPT !.pc = "check", !.item = work[w].item + 1] ELSE Idle]

\* The pipeline has summarised e; it may do so again.
Process(w, e) ==
  /\ work[w].pc = "idle" /\ Items[e] # <<>>
  /\ work' = [work EXCEPT ![w] = [pc |-> "check", email |-> e, item |-> 1]]
  /\ UNCHANGED <<rows, loose, now, errors>>

\* The first query of IsDuplicate: a task of the email, in any status.
OfEmail(e) == \E i \in DOMAIN rows : rows[i].email = e

CheckEmail(w) ==
  /\ work[w].pc = "check"
  /\ LET e == work[w].email
         goto(pc) == work' = [work EXCEPT ![w].pc = pc]
     IN \/ /\ Works
           /\ IF OfEmail(e) THEN NextItem(w) ELSE goto("similar")
           /\ loose' = IF \E o \in Workers : work[o].email = e /\ work[o].pc \in {"similar", "insert"}
                         THEN loose \cup {e} ELSE loose
        \/ /\ Fails
           /\ goto("insert")
           /\ loose' = loose \cup {e, Title(w)}
  /\ UNCHANGED <<rows, now>>

\* The second query: an open task with as good as the same title.
Similar(title) ==
  \E i \in DOMAIN rows : Open(i) /\ rows[i].title = title /\ now - rows[i].created < Window

\* A run has found nothing similar and not yet inserted its task.
Inserting(title) == \E o \in Workers : work[o].pc = "insert" /\ Title(o) = title

CheckSimilar(w) ==
  /\ work[w].pc = "similar"
  /\ LET insert == work' = [work EXCEPT ![w].pc = "insert"]
     IN \/ /\ Works
           /\ IF Similar(Title(w)) THEN NextItem(w) ELSE insert
           /\ loose' = IF Inserting(Title(w))
                         THEN loose \cup {Title(w)} ELSE loose
        \/ /\ Fails
           /\ insert
           /\ loose' = loose \cup {Title(w)}
  /\ UNCHANGED <<rows, now>>

\* open: to_do, in_progress or waiting; ever: it has been closed since.
NewRow(e, title) ==
  [email |-> e, title |-> title, open |-> TRUE, created |-> now, ever |-> FALSE]

\* insertTask, without what follows it (TaskReminders, TaskRecurrence); an
\* error ends the run of the email.
Insert(w) ==
  /\ work[w].pc = "insert"
  /\ \/ /\ Works /\ Len(rows) < MaxRows
        /\ rows' = Append(rows, NewRow(work[w].email, Title(w)))
        /\ NextItem(w)
     \/ /\ Fails
        /\ work' = [work EXCEPT ![w] = Idle]
        /\ UNCHANGED rows
  /\ UNCHANGED <<loose, now>>

-------------------------------------------------------------------------------
(* The user, through the API.                                                *)

\* HandleCreateTask: no lookup and no reminders.
Create(title) ==
  /\ Len(rows) < MaxRows
  /\ rows' = Append(rows, NewRow(Manual, title))
  /\ loose' = IF Inserting(title) THEN loose \cup {title} ELSE loose
  /\ UNCHANGED <<work, now, errors>>

\* HandleUpdateStatus, HandleDismissTask, and a delegation, which reopens.
SetOpen(i, open) ==
  /\ rows[i].open # open
  /\ rows' = [rows EXCEPT ![i].open = open, ![i].ever = TRUE]
  /\ UNCHANGED <<work, loose, now, errors>>

Clock ==
  /\ now < MaxTime
  /\ now' = now + 1
  /\ UNCHANGED <<rows, work, loose, errors>>

ProcessTasks(w) == CheckEmail(w) \/ CheckSimilar(w) \/ Insert(w)
Next ==
  \/ \E w \in Workers : ProcessTasks(w) \/ \E e \in Emails : Process(w, e)
  \/ \E title \in Titles : Create(title)
  \/ \E i \in DOMAIN rows, open \in BOOLEAN : SetOpen(i, open)
  \/ Clock

Spec == Init /\ [][Next]_vars

-------------------------------------------------------------------------------
(* Properties.                                                               *)

\* An email leaves at most one task, whatever it asked for and however often
\* it is processed, unless two runs of it overlapped or a lookup failed.
OnePerEmail ==
  \A i, j \in DOMAIN rows :
    rows[i].email = rows[j].email /\ rows[i].email \notin loose \cup {Manual} => i = j

\* No extracted task repeats a task that is open and inside the window, with
\* the same exceptions.
SimilarOnce ==
  \A i, j \in DOMAIN rows :
    /\ i < j /\ rows[j].email # Manual
    /\ rows[i].title = rows[j].title /\ rows[i].title \notin loose
    /\ ~rows[i].ever
    => rows[j].created - rows[i].created >= Window

\* Neither an email nor a title leaves two tasks (dedup.go:26-92).
StoredOnce == TypeOK /\ OnePerEmail /\ SimilarOnce
=============================================================================
