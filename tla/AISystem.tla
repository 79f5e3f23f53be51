------------------------------- MODULE AISystem -------------------------------
(***************************************************************************)
(* The way of an email through the AI part of one server process: the cron *)
(* scheduler of its user selects it (orchestrator/cron.go aiQueueProcess), *)
(* the job queue keeps it (JobQueue), the worker pool takes it under a     *)
(* semaphore (ai/queue/worker.go Run) and a worker processes it            *)
(* (AIPipeline).  A crash keeps Redis and PostgreSQL and nothing else.     *)
(***************************************************************************)
EXTENDS AIPipeline, Sequences, FiniteSets

CONSTANTS
  Users,        \* positive numbers
  Owner,        \* Owner[e]: the user of email e
  PlanPriority, \* PlanPriority[p]: the queue score of plan p
  Capacity,     \* slots of the worker pool's semaphore
  BatchSize,    \* LIMIT of the selection and of its first two branches (5)
  RetryBatch,   \* LIMIT of the branch of errors (3)
  MaxRetries,   \* retry_count below this is retried (3)
  Pool,         \* the worker pool
  MaxLen,       \* bound: jobs in one list
  MaxFaults     \* bound: failed commands and crashes

ASSUME OwnerAssumption == Owner \in [Emails -> Users] /\ IsFiniteSet(Emails)
\* What JobQueue assumes of its constants; NoJob is the nil *Job.
ASSUME QueueAssumption ==
  /\ Users \subseteq Nat \ {0}
  /\ PlanPriority \in [Plans -> Nat \ {0}]
  /\ NoJob \notin JobsOf
  /\ MaxLen \in Nat /\ MaxFaults \in Nat
ASSUME SizesAssumption ==
  /\ {Capacity, BatchSize, RetryBatch, MaxRetries} \subseteq Nat \ {0}
  /\ MaxRetries <= RetryCap

VARIABLES
  list, meta, enq, deq, faults,  \* the queue
  sem,     \* free slots of the semaphore
  loop,    \* whether Run waits for a slot or is in Dequeue with one
  cron     \* cron[u]: the emails still to enqueue, with the plan read

Q == INSTANCE JobQueue
       WITH Jobs <- JobsOf, Clients <- Users, Pools <- {Pool},
            UserOf <- [j \in JobsOf |-> Owner[Email(j)]],
            ScoreOf <- [j \in JobsOf |-> PlanPriority[Plan(j)]]

queue == <<list, meta, enq, deq, faults>>
vars == <<row, drafts, proc, queue, sem, loop, cron>>

NoBatch == [emails |-> <<>>, plan |-> NoJob]

\* The shape of the state, the one of the queue and of the pipeline included.
TypeOK ==
  /\ PipelineTypeOK
  /\ Q!TypeOK
  /\ sem \in 0 .. Capacity
  /\ loop \in {"acquire", "dequeue"}
  /\ \A u \in Users : cron[u] = NoBatch \/
       (cron[u].emails \in Seq(Emails) /\ cron[u].plan \in Plans)

Init ==
  /\ PipelineInit
  /\ Q!Init
  /\ sem = Capacity
  /\ loop = "acquire"
  /\ cron = [u \in Users |-> NoBatch]

-------------------------------------------------------------------------------
(* aiQueueProcess.                                                           *)

\* Variant: the branch of errors does not look at retry_count.
RetryableUncounted(e) == row[e].stage = "error" /\ row[e].rested

Fresh(e) == row[e].stage = "none"
Stale(e) == row[e].stage \in Working /\ row[e].stale
Retryable(e) ==
  /\ row[e].stage = "error"
  /\ row[e].retries < MaxRetries
  /\ row[e].rested

\* The branches of the UNION ALL, in their order.
Branch(e) == CASE Fresh(e) -> 1 [] Stale(e) -> 2 [] Retryable(e) -> 3

\* The results the query can have: as many rows as the LIMITs allow, the rows
\* of an earlier branch first, the order in a branch that of the dates.
Batches(u) ==
  LET Mine == {e \in Emails : Owner[e] = u}
      First == {e \in Mine : Fresh(e) \/ Stale(e)}
      Retry == {e \in Mine : Retryable(e)}
      size == Capped(Cardinality(First) + Capped(Cardinality(Retry), RetryBatch), BatchSize)
  IN {b \in [1 .. size -> First \union Retry] :
        /\ \A i, k \in 1 .. size : i < k => b[i] # b[k] /\ Branch(b[i]) <= Branch(b[k])
        /\ \A e \in First : (\A i \in 1 .. size : b[i] # e) =>
             \A i \in 1 .. size : Branch(b[i]) <= Branch(e)}

\* The query and the tenant's plan.  A failed query is the tick that does
\* nothing.
Select(u) ==
  /\ cron[u] = NoBatch
  /\ \E b \in Batches(u), p \in Plans :
       /\ b # <<>>
       /\ cron' = [cron EXCEPT ![u] = [emails |-> b, plan |-> p]]
  /\ UNCHANGED <<row, drafts, proc, queue, sem, loop>>

Enqueued(u) ==
  cron' = [cron EXCEPT ![u] =
             IF Len(@.emails) = 1 THEN NoBatch
                                  ELSE [@ EXCEPT !.emails = Tail(cron[u].emails)]]

EnqueueLPush(u) ==
  /\ cron[u] # NoBatch
  /\ Q!LPush(u, <<Head(cron[u].emails), cron[u].plan>>)
  /\ UNCHANGED <<row, drafts, proc, sem, loop, cron>>

\* Bound: a list that already holds MaxLen jobs takes no further copy, so that
\* a list nobody looks at does not block the scheduler.
EnqueueSaturated(u) ==
  /\ cron[u] # NoBatch
  /\ enq[u] = NoJob
  /\ Len(list[u]) = MaxLen
  /\ enq' = [enq EXCEPT ![u] = <<Head(cron[u].emails), cron[u].plan>>]
  /\ UNCHANGED <<row, drafts, proc, list, meta, deq, faults, sem, loop, cron>>

EnqueueZAdd(u) ==
  /\ Q!ZAdd(u)
  /\ Enqueued(u)
  /\ UNCHANGED <<row, drafts, proc, sem, loop>>

\* The error is logged and the loop goes on to the next email.
EnqueueFails(u) ==
  /\ Q!EnqueueFails(u)
  /\ Enqueued(u)
  /\ UNCHANGED <<row, drafts, proc, sem, loop>>

Cron(u) == Select(u) \/ EnqueueLPush(u) \/ EnqueueSaturated(u) \/ EnqueueZAdd(u)

-------------------------------------------------------------------------------
(* WorkerPool.Run.                                                           *)

Acquire ==
  /\ loop = "acquire"
  /\ sem > 0
  /\ sem' = sem - 1
  /\ loop' = "dequeue"
  /\ UNCHANGED <<row, drafts, proc, queue, cron>>

HandOver == loop' = "acquire" /\ UNCHANGED sem

\* A command of Dequeue.  When it ends without a job (nil or an error), Run
\* gives the slot back and sleeps before it tries again.
Dequeueing(command) ==
  /\ loop = "dequeue"
  /\ command
  /\ IF deq'[Pool] = Q!Idle
       THEN sem' = sem + 1 /\ loop' = "acquire"
       ELSE UNCHANGED <<sem, loop>>
  /\ UNCHANGED <<row, drafts, proc, cron>>

DequeueCommand ==
  Dequeueing(Q!ZRevRange(Pool) \/ Q!RPop(Pool) \/ Q!LLen(Pool) \/ Q!ZRem(Pool))

DequeueFails ==
  Dequeueing(Q!RPopFails(Pool) \/ Q!LLenFails(Pool) \/ Q!ZRemFails(Pool))

\* Variant: the job variable is shared, not passed to the goroutine.
StartWorkerKeepsJob(w) ==
  /\ loop = "dequeue"
  /\ deq[Pool].pc = "return"
  /\ Start(w, deq[Pool].job)
  /\ HandOver
  /\ UNCHANGED <<row, drafts, queue, cron>>

\* A job: a goroutine takes it, and the slot with it.
StartWorker(w) ==
  /\ loop = "dequeue"
  /\ deq[Pool].pc = "return"
  /\ Start(w, deq[Pool].job)
  /\ Q!Return(Pool)
  /\ HandOver
  /\ UNCHANGED <<row, drafts, cron>>

Run == Acquire \/ DequeueCommand \/ (\E w \in Workers : StartWorker(w))

\* The deferred Release of the goroutine that returns.
Returned(w) == sem' = IF proc'[w] = Asleep THEN sem + 1 ELSE sem

Work(w) ==
  /\ Process(w)
  /\ Returned(w)
  /\ UNCHANGED <<queue, loop, cron>>

WorkFails(w) ==
  /\ Q!Fault
  /\ ProcessFails(w)
  /\ Returned(w)
  /\ UNCHANGED <<list, meta, enq, deq, loop, cron>>

-------------------------------------------------------------------------------
Clock ==
  /\ \E e \in Emails : AgeStart(e) \/ AgeError(e)
  /\ UNCHANGED <<queue, sem, loop, cron>>

Crash ==
  /\ Q!Crash
  /\ proc' = [w \in Workers |-> Asleep]
  /\ sem' = Capacity
  /\ loop' = "acquire"
  /\ cron' = [u \in Users |-> NoBatch]
  /\ UNCHANGED <<row, drafts>>

Next ==
  \/ \E u \in Users : Cron(u) \/ EnqueueFails(u)
  \/ Run
  \/ DequeueFails
  \/ \E w \in Workers : Work(w) \/ WorkFails(w)
  \/ Clock
  \/ Crash

Spec == Init /\ [][Next]_vars

\* The cron scheduler ticks for ever, Run never stops polling, an AI call has
\* a timeout (ai/ollama.go:67), the database answers, and time passes.
FairSpec ==
  /\ Spec
  /\ \A u \in Users : WF_vars(Cron(u))
  /\ WF_vars(Run)
  /\ \A w \in Workers : WF_vars(Work(w))
  /\ \A e \in Emails : WF_vars(AgeStart(e) /\ UNCHANGED <<queue, sem, loop, cron>>)
  /\ \A e \in Emails : WF_vars(AgeError(e) /\ UNCHANGED <<queue, sem, loop, cron>>)

-------------------------------------------------------------------------------
(* Properties.                                                               *)

Busy == {w \in Workers : proc[w] # Asleep}

\* Every slot is free, with Run or with a goroutine, so never more than
\* Capacity emails are processed at once, though the slot changes hands
\* between Run and the goroutine and every exit must give it back
\* (worker.go:52-97).
SlotsAccounted ==
  sem + Cardinality(Busy) + (IF loop = "dequeue" THEN 1 ELSE 0) = Capacity

\* The copies of e that may still become a draft.
CopiesIn(u, e) == Cardinality({i \in DOMAIN list[u] : Email(list[u][i]) = e})
InHand(e) == IF deq[Pool].job # NoJob /\ Email(deq[Pool].job) = e THEN 1 ELSE 0
Undrafted(e) ==
  Cardinality({w \in Busy : /\ Email(proc[w].job) = e
                            /\ proc[w].pc \notin {"setComplete", "setError"}})
Tokens(e) == drafts[e] + CopiesIn(Owner[e], e) + InHand(e) + Undrafted(e)

\* From the cron scheduler to draft_replies nothing is doubled: an email gains
\* at most one draft for every LPUSH of it, whichever commands, workers,
\* failures and crashes come between (cron.go:618, queue.go, worker.go,
\* pipeline.go:162).
OneDraftPerEnqueue ==
  [][\A e \in Emails : Tokens(e)' > Tokens(e) =>
       /\ Tokens(e)' = Tokens(e) + 1
       /\ CopiesIn(Owner[e], e)' = CopiesIn(Owner[e], e) + 1]_vars

\* Slots and drafts are accounted for together: neither a slot nor a draft
\* comes out of nothing (worker.go:41-97).
DraftsAccounted == [](TypeOK /\ SlotsAccounted) /\ OneDraftPerEnqueue

Settled(e) ==
  \/ row[e].stage = "complete"
  \/ row[e].stage = "error" /\ row[e].retries >= MaxRetries

\* No copy of e is in the queue, in the hands of the pool, with a worker, or
\* in the batch of a cron scheduler that read the table earlier.
Quiet(e) ==
  /\ CopiesIn(Owner[e], e) = 0 /\ InHand(e) = 0
  /\ \A w \in Busy : Email(proc[w].job) # e
  /\ cron[Owner[e]] # NoBatch =>
       \A i \in DOMAIN cron[Owner[e]].emails : cron[Owner[e]].emails[i] # e

\* An email that is complete, or has used up its retries, and of which no copy
\* is left anywhere is never processed again (cron.go:546-577).
SettledAndQuietStays ==
  [][\A e \in Emails : Settled(e) /\ Quiet(e) => Settled(e)' /\ Quiet(e)']_vars

\* Whatever fails, and wherever a crash interrupts it, every email is
\* eventually processed to the end or has used up its retries
\* (cron.go:546-550).
EveryEmailSettles == \A e \in Emails : <>Settled(e)
===============================================================================
