---------------------------- MODULE CronScheduler ----------------------------
(***************************************************************************)
(* The cron service of each user's bundle (orchestrator/cron.go): one loop *)
(* that recovers overdue jobs, runs two jobs at once and then runs         *)
(* whatever its tickers ask for, one job after the other.  The rows of     *)
(* cron_jobs outlive the process; the tickers do not.                      *)
(*                                                                         *)
(* All schedulers share one pool of connections.  A statement that takes a *)
(* connection and gives it back is one step that needs a free one; what a  *)
(* scheduler keeps across steps is counted by Held.  A statement, or the   *)
(* wait for its connection, may fail: that is logged and nothing else.     *)
(* Jobs are short: time passes when no scheduler has anything to do.       *)
(***************************************************************************)
EXTENDS Naturals, Sequences, FiniteSets, SequencesExt

CONSTANTS
  Users,        \* the users with a bundle
  Jobs,         \* the job types
  AtStart,      \* the jobs Run calls before its loop, in order
  Pooled,       \* the jobs whose function takes a connection
  Interval,     \* getJobInterval, in ticks of the model's clock
  Conns,        \* MaxConns of the pool
  Boot,         \* when the process starts
  MaxTime,      \* bound: ticks of the clock
  MaxStops,     \* bound: cancelled contexts and crashes
  MaxFailures,  \* bound: jobs that return an error
  MaxErrors     \* bound: statements that fail

CronAssumption ==
  /\ IsFiniteSet(Jobs)
  /\ Interval \in [Jobs -> Nat \ {0}]
  /\ AtStart \in Seq(Jobs)
  /\ Pooled \subseteq Jobs
  /\ Conns \in Nat /\ MaxTime \in Nat /\ Boot \in 1 .. MaxTime
  /\ MaxStops \in Nat /\ MaxFailures \in Nat /\ MaxErrors \in Nat

VARIABLES
  row,      \* row[u][j]: the row of cron_jobs, or NoRow
  sched,    \* sched[u]: where the scheduler of u is
  ticked,   \* ticked[u]: the tickers with a tick nobody took
  now,      \* the clock
  ran,      \* ran[u][j]: when the job was last called
  stops,    \* stops so far
  failures, \* failures so far
  errors    \* failed statements so far

vars == <<row, sched, ticked, now, ran, stops, failures, errors>>

NoRow == [status |-> "none", next |-> 0]
NoNext == 0          \* next_run IS NULL
Statuses == {"running", "completed", "failed"}

PCs == {"down", "recover", "overdue", "start", "loop"}
Steps == {"mark", "call", "failed", "completed"}

\* pc "recover": waits for a connection; "overdue": runs todo, holding one;
\* "start": runs AtStart; "loop": polls the tickers.  at is the step of
\* runJob that is under way for Head(todo); missed are the jobs whose row an
\* error left as it was, unread by the recovery or without their result.
Scheduler == [pc : PCs, todo : Seq(Jobs), at : Steps, since : Nat, missed : SUBSET Jobs]
Down == [pc |-> "down", todo |-> <<>>, at |-> "mark", since |-> 0, missed |-> {}]

\* The shape of the state.
TypeOK ==
  /\ row \in [Users -> [Jobs -> [status : Statuses \cup {"none"}, next : Nat]]]
  /\ sched \in [Users -> Scheduler]
  /\ ticked \in [Users -> SUBSET Jobs]
  /\ now \in 0 .. MaxTime
  /\ stops \in 0 .. MaxStops /\ failures \in 0 .. MaxFailures /\ errors \in 0 .. MaxErrors

\* The process starts at Boot.  Some users are new; the jobs of the others
\* were all called at 1, by an earlier process.
Init ==
  /\ now = Boot
  /\ \E known \in SUBSET Users :
       /\ ran = [u \in Users |-> [j \in Jobs |-> IF u \in known THEN 1 ELSE 0]]
       /\ row = [u \in Users |-> [j \in Jobs |->
                    IF u \in known
                      THEN [status |-> "completed", next |-> 1 + Interval[j]]
                      ELSE NoRow]]
  /\ sched = [u \in Users |-> Down]
  /\ ticked = [u \in Users |-> {}]
  /\ stops = 0 /\ failures = 0 /\ errors = 0

Error == errors < MaxErrors /\ errors' = errors + 1

-------------------------------------------------------------------------------
(* The pool.                                                                 *)

\* recoverMissedJobs keeps its connection until it returns.
Held(u) == IF sched[u].pc = "overdue" THEN 1 ELSE 0

Free == Conns > FoldFunctionOnSet(+, 0, [u \in Users |-> Held(u)], Users)

-------------------------------------------------------------------------------
(* Run.                                                                      *)

Spawn(u) ==
  /\ sched[u].pc = "down"
  /\ sched' = [sched EXCEPT ![u] = [Down EXCEPT !.pc = "recover", !.since = now]]
  /\ ticked' = [ticked EXCEPT ![u] = {}]
  /\ UNCHANGED <<row, now, ran, stops, failures, errors>>

\* Variant: only the rows nobody has run yet.
OverdueOnlyPending(u) ==
  {j \in Jobs : row[u][j].status = "pending" /\ row[u][j].next < now}

\* The rows recoverMissedJobs selects.  No code writes "pending".
Overdue(u) ==
  {j \in Jobs : /\ row[u][j].status \in {"pending", "completed"}
                /\ row[u][j].next # NoNext
                /\ row[u][j].next < now}

\* The connection and the query; the order of the rows is the database's.
Recover(u) ==
  /\ sched[u].pc = "recover"
  /\ Free
  /\ \E order \in SetToSeqs(Overdue(u)) :
       sched' = [sched EXCEPT ![u].pc = "overdue", ![u].todo = order]
  /\ UNCHANGED <<row, ticked, now, ran, stops, failures, errors>>

\* No connection and no recovery; or rows, perhaps all, that were not read.
RecoverFails(u) ==
  /\ sched[u].pc = "recover"
  /\ Error
  /\ \/ sched' = [sched EXCEPT ![u].pc = "start", ![u].todo = AtStart,
                                ![u].missed = Overdue(u)]
     \/ /\ Free
        /\ \E set \in SUBSET Overdue(u) : \E order \in SetToSeqs(set) :
             sched' = [sched EXCEPT ![u].pc = "overdue", ![u].todo = order,
                                    ![u].missed = Overdue(u) \ set]
  /\ UNCHANGED <<row, ticked, now, ran, stops, failures>>

\* Nothing is left of a phase: the next one.  The tickers start with the loop.
NextPhase(u) ==
  /\ sched[u].todo = <<>>
  /\ \/ /\ sched[u].pc = "overdue"
        /\ sched' = [sched EXCEPT ![u].pc = "start", ![u].todo = AtStart]
     \/ /\ sched[u].pc = "start"
        /\ sched' = [sched EXCEPT ![u].pc = "loop", ![u].since = now]
  /\ UNCHANGED <<row, ticked, now, ran, stops, failures, errors>>

\* A round of the loop: the tickers that have fired, in the order of the list.
Poll(u) ==
  /\ sched[u].pc = "loop" /\ sched[u].todo = <<>>
  /\ ticked[u] # {}
  /\ \E order \in SetToSeqs(ticked[u]) :
       sched' = [sched EXCEPT ![u].todo = order]
  /\ ticked' = [ticked EXCEPT ![u] = {}]
  /\ UNCHANGED <<row, now, ran, stops, failures, errors>>

-------------------------------------------------------------------------------
(* runJob for the head of todo.                                              *)

Job(u) == Head(sched[u].todo)
Running(u, at) == sched[u].todo # <<>> /\ sched[u].at = at
Goto(u, at) == sched' = [sched EXCEPT ![u].at = at]

\* updateJobStatus: inserts the row or leaves its other columns alone.
MarkRunning(u) ==
  /\ Running(u, "mark")
  /\ Free
  /\ row' = [row EXCEPT ![u][Job(u)].status = "running"]
  /\ Goto(u, "call")
  /\ UNCHANGED <<ticked, now, ran, stops, failures, errors>>

\* The job runs all the same.
MarkFails(u) ==
  /\ Running(u, "mark")
  /\ Error
  /\ Goto(u, "call")
  /\ UNCHANGED <<row, ticked, now, ran, stops, failures>>

Call(u) ==
  /\ Running(u, "call")
  /\ Job(u) \in Pooled => Free
  /\ ran' = [ran EXCEPT ![u][Job(u)] = now]
  /\ \/ /\ Goto(u, "completed")
        /\ UNCHANGED failures
     \/ /\ Job(u) \in Pooled
        /\ failures < MaxFailures
        /\ failures' = failures + 1
        /\ Goto(u, "failed")
  /\ UNCHANGED <<row, ticked, now, stops, errors>>

\* updateJobResult: if the row is there the conflict branch schedules the next
\* run, after a failure too; a row that is inserted here has no next run.
Result(u) ==
  /\ \E status \in {"failed", "completed"} :
       /\ Running(u, status)
       /\ Free
       /\ row' = [row EXCEPT ![u][Job(u)] =
                    [status |-> status,
                     next |-> IF @.status = "none" THEN NoNext ELSE now + Interval[Job(u)]]]
  /\ sched' = [sched EXCEPT ![u].todo = Tail(@), ![u].at = "mark",
                            ![u].missed = @ \ {Job(u)}]
  /\ UNCHANGED <<ticked, now, ran, stops, failures, errors>>

\* The row stays as it is: "running", if updateJobStatus wrote it.
ResultFails(u) ==
  /\ Running(u, "failed") \/ Running(u, "completed")
  /\ Error
  /\ sched' = [sched EXCEPT ![u].todo = Tail(@), ![u].at = "mark",
                            ![u].missed = @ \cup {Job(u)}]
  /\ UNCHANGED <<row, ticked, now, ran, stops, failures>>

\* The context is cancelled or the process dies, wherever the scheduler is.
Stop(u) ==
  /\ sched[u].pc # "down"
  /\ stops < MaxStops
  /\ stops' = stops + 1
  /\ sched' = [sched EXCEPT ![u] = Down]
  /\ ticked' = [ticked EXCEPT ![u] = {}]
  /\ UNCHANGED <<row, now, ran, failures, errors>>

\* A ticker fires every Interval since its loop began; a tick nobody took is
\* not counted twice.
Fires(u, t) == {j \in Jobs : (t - sched[u].since) % Interval[j] = 0}
Quiet(u) == sched[u].pc = "down" \/ (sched[u].pc = "loop" /\ sched[u].todo = <<>>
                                     /\ ticked[u] = {})
Clock ==
  /\ now < MaxTime
  /\ \A u \in Users : Quiet(u)
  /\ now' = now + 1
  /\ ticked' = [u \in Users |-> IF sched[u].pc = "loop" THEN Fires(u, now') ELSE {}]
  /\ UNCHANGED <<row, sched, ran, stops, failures, errors>>

Run(u) ==
  \/ Recover(u) \/ NextPhase(u) \/ Poll(u)
  \/ MarkRunning(u) \/ Call(u) \/ Result(u)
Fails(u) == RecoverFails(u) \/ MarkFails(u) \/ ResultFails(u)
Next == Clock \/ \E u \in Users : Spawn(u) \/ Stop(u) \/ Run(u) \/ Fails(u)

Spec == Init /\ [][Next]_vars

\* A goroutine that can run does; the pool serves its waiters in order.
FairSpec == Spec /\ \A u \in Users : SF_vars(Run(u))

-------------------------------------------------------------------------------
(* Properties.                                                               *)

\* "recoverMissedJobs checks for overdue jobs and runs them immediately"
\* (cron.go:144): a recovery ends.  It does not where every connection of the
\* pool is held by a recovery that waits for another one (cron.go:159).
RecoveryEnds ==
  \A u \in Users : sched[u].pc \in {"recover", "overdue"} ~> sched[u].pc \in {"loop", "down"}

\* What was overdue when the scheduler started has been run before its tickers
\* count, but for what an error left unread or unrecorded and for rows that
\* have no next run.
OverdueIsRecovered ==
  \A u \in Users, j \in Jobs :
    sched[u].pc = "loop" /\ row[u][j].status = "completed" /\ row[u][j].next # NoNext
      => row[u][j].next >= sched[u].since \/ j \in sched[u].missed

\* However often the process restarts, a job that completed is called again
\* within two intervals, counted while its user's scheduler is there to see;
\* one that an error kept from the recovery at the latest with its ticker's
\* first tick.  Only jobs that failed, were cut off while running or have a row
\* without a next run may starve.
CompletedJobsReturn ==
  \A u \in Users, j \in Jobs :
    sched[u].pc = "loop" /\ Quiet(u) /\ row[u][j].status = "completed"
                         /\ row[u][j].next # NoNext
      => \/ now - ran[u][j] <= 2 * Interval[j]
         \/ j \in sched[u].missed /\ now - sched[u].since < Interval[j]

\* A row that says running while nobody runs the job was left by a stop or by
\* an error, and one leaves at most one: these are the rows no recovery selects
\* (cron.go:165).
CutOff(u, j) ==
  /\ row[u][j].status = "running"
  /\ ~(sched[u].todo # <<>> /\ Job(u) = j /\ sched[u].at # "mark")
CutOffByStops ==
  Cardinality({uj \in Users \X Jobs : CutOff(uj[1], uj[2])}) <= stops + errors

\* What the recovery promises of the rows: what was overdue and could be
\* selected has run, what completed returns, and what is left out was cut off
\* by a stop or an error (cron.go:146-314).
JobsAreRecovered == TypeOK /\ OverdueIsRecovered /\ CompletedJobsReturn /\ CutOffByStops
=============================================================================
