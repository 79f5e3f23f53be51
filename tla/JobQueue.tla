------------------------------- MODULE JobQueue -------------------------------
(***************************************************************************)
(* The AI job queue (src/internal/ai/queue/queue.go): one Redis list per   *)
(* user, "ai_queue:{user}", and the sorted set "ai_meta_queue" that holds  *)
(* the users with work, scored by the priority of their plan.              *)
(*                                                                         *)
(* Enqueue is a pipeline of two commands and Dequeue is a sequence of up   *)
(* to four.  Neither is a transaction, so each command is an action of its *)
(* own and the commands of other clients run in between.                   *)
(***************************************************************************)
EXTENDS Naturals, Sequences

CONSTANTS
  Users,      \* positive numbers, in the order of the user ids
  Jobs,       \* the jobs that may be enqueued
  UserOf,     \* UserOf[j]: job.UserID
  ScoreOf,    \* ScoreOf[j]: job.Priority
  Clients,    \* the callers of Enqueue: one cron scheduler per user and server
  Pools,      \* the callers of Dequeue: one worker pool per server process
  NoJob,      \* the nil *Job
  MaxLen,     \* bound: jobs in one list
  MaxFaults   \* bound: failed commands and crashes

ASSUME UsersAssumption == Users \subseteq Nat \ {0}
ASSUME JobsAssumption ==
  /\ UserOf \in [Jobs -> Users]
  /\ ScoreOf \in [Jobs -> Nat \ {0}]
  /\ NoJob \notin Jobs
ASSUME BoundsAssumption == MaxLen \in Nat /\ MaxFaults \in Nat

VARIABLES
  list,       \* list[u]: ai_queue:{u}, the right end (oldest job) first
  meta,       \* meta[u]: the score of u in ai_meta_queue, 0 when not a member
  enq,        \* enq[c]: the job c has pushed and not yet added to the meta-queue
  deq,        \* deq[p]: where p is inside Dequeue
  faults      \* faults so far

queueVars == <<list, meta, enq, deq, faults>>

NoUser == 0
Idle == [pc |-> "idle", user |-> NoUser, job |-> NoJob]

\* Where a Dequeue can be, with the user it picked and the job it popped.
DeqStates ==
  {Idle}
    \union [pc : {"pop"}, user : Users, job : {NoJob}]
    \union [pc : {"len", "return"}, user : Users, job : Jobs]
    \union [pc : {"rem"}, user : Users, job : Jobs \union {NoJob}]

\* The shape of the state.  It also says that a Dequeue in its LLEN or about
\* to return always holds a job: Process is never given a nil job.
TypeOK ==
  /\ list \in [Users -> Seq(Jobs)]
  /\ meta \in [Users -> Nat]
  /\ enq \in [Clients -> Jobs \union {NoJob}]
  /\ deq \in [Pools -> DeqStates]
  /\ faults \in 0 .. MaxFaults

Init ==
  /\ list = [u \in Users |-> <<>>]
  /\ meta = [u \in Users |-> 0]
  /\ enq = [c \in Clients |-> NoJob]
  /\ deq = [p \in Pools |-> Idle]
  /\ faults = 0

Fault ==
  /\ faults < MaxFaults
  /\ faults' = faults + 1

-------------------------------------------------------------------------------
(* Enqueue: LPUSH the job, then ZADD the user with the job's priority.     *)

LPush(c, j) ==
  /\ enq[c] = NoJob
  /\ Len(list[UserOf[j]]) < MaxLen
  /\ list' = [list EXCEPT ![UserOf[j]] = Append(@, j)]
  /\ enq' = [enq EXCEPT ![c] = j]
  /\ UNCHANGED <<meta, deq, faults>>

\* ZADD overwrites the score of a user that is already a member.
ZAdd(c) ==
  /\ enq[c] # NoJob
  /\ meta' = [meta EXCEPT ![UserOf[enq[c]]] = ScoreOf[enq[c]]]
  /\ enq' = [enq EXCEPT ![c] = NoJob]
  /\ UNCHANGED <<list, deq, faults>>

\* The connection drops after the LPUSH: Exec returns an error, which the
\* cron scheduler logs, and nothing takes the pushed job back.
EnqueueFails(c) ==
  /\ enq[c] # NoJob
  /\ Fault
  /\ enq' = [enq EXCEPT ![c] = NoJob]
  /\ UNCHANGED <<list, meta, deq>>

-------------------------------------------------------------------------------
(* Dequeue: ZREVRANGE 0 0, RPOP, LLEN and, when nothing remains, ZREM.     *)

\* The member ZREVRANGE puts first: highest score, then largest user id.
Top(u) ==
  /\ meta[u] # 0
  /\ \A v \in Users :
       \/ meta[v] < meta[u]
       \/ meta[v] = meta[u] /\ v <= u

\* An empty meta-queue makes Dequeue return nil; the pool asks again later.
ZRevRange(p) ==
  /\ deq[p].pc = "idle"
  /\ \/ \E u \in Users :
          /\ Top(u)
          /\ deq' = [deq EXCEPT ![p] = [pc |-> "pop", user |-> u, job |-> NoJob]]
     \/ /\ \A u \in Users : meta[u] = 0
        /\ UNCHANGED deq
  /\ UNCHANGED <<list, meta, enq, faults>>

\* Variants of RPop that a slip in the code could produce: the popped job
\* stays in the list, the user leaves the meta-queue before LLEN, and the
\* nil reply returns without the ZREM.
RPopKeepsJob(p) ==
  LET u == deq[p].user IN
  /\ deq[p].pc = "pop"
  /\ deq' = [deq EXCEPT ![p] = IF list[u] = <<>> THEN [@ EXCEPT !.pc = "rem"]
                                ELSE [@ EXCEPT !.pc = "len", !.job = Head(list[u])]]
  /\ UNCHANGED <<list, meta, enq, faults>>

RPopRemovesUser(p) ==
  LET u == deq[p].user IN
  /\ deq[p].pc = "pop" /\ list[u] # <<>>
  /\ deq' = [deq EXCEPT ![p] = [@ EXCEPT !.pc = "return", !.job = Head(list[u])]]
  /\ list' = [list EXCEPT ![u] = Tail(@)]
  /\ meta' = [meta EXCEPT ![u] = 0]
  /\ UNCHANGED <<enq, faults>>

RPopNilKeepsUser(p) ==
  LET u == deq[p].user IN
  /\ deq[p].pc = "pop"
  /\ deq' = [deq EXCEPT ![p] = IF list[u] = <<>> THEN Idle
                                ELSE [@ EXCEPT !.pc = "len", !.job = Head(list[u])]]
  /\ list' = IF list[u] = <<>> THEN list ELSE [list EXCEPT ![u] = Tail(@)]
  /\ UNCHANGED <<meta, enq, faults>>

RPop(p) ==
  LET u == deq[p].user IN
  /\ deq[p].pc = "pop"
  /\ \/ /\ list[u] = <<>>
        /\ deq' = [deq EXCEPT ![p].pc = "rem"]
        /\ UNCHANGED list
     \/ /\ list[u] # <<>>
        /\ deq' = [deq EXCEPT ![p] = [@ EXCEPT !.pc = "len", !.job = Head(list[u])]]
        /\ list' = [list EXCEPT ![u] = Tail(@)]
  /\ UNCHANGED <<meta, enq, faults>>

\* RPOP fails: not executed, or executed and its reply lost with the job.
RPopFails(p) ==
  LET u == deq[p].user IN
  /\ deq[p].pc = "pop"
  /\ Fault
  /\ \/ UNCHANGED list
     \/ list[u] # <<>> /\ list' = [list EXCEPT ![u] = Tail(@)]
  /\ deq' = [deq EXCEPT ![p] = Idle]
  /\ UNCHANGED <<meta, enq>>

LLen(p) ==
  /\ deq[p].pc = "len"
  /\ deq' = [deq EXCEPT ![p].pc =
               IF list[deq[p].user] = <<>> THEN "rem" ELSE "return"]
  /\ UNCHANGED <<list, meta, enq, faults>>

\* The error of LLEN is dropped and its result is then 0.
LLenFails(p) ==
  /\ deq[p].pc = "len"
  /\ Fault
  /\ deq' = [deq EXCEPT ![p].pc = "rem"]
  /\ UNCHANGED <<list, meta, enq>>

AfterRem(p) ==
  deq' = [deq EXCEPT ![p] = IF @.job = NoJob THEN Idle ELSE [@ EXCEPT !.pc = "return"]]

ZRem(p) ==
  /\ deq[p].pc = "rem"
  /\ meta' = [meta EXCEPT ![deq[p].user] = 0]
  /\ AfterRem(p)
  /\ UNCHANGED <<list, enq, faults>>

\* The result of ZREM is not looked at.
ZRemFails(p) ==
  /\ deq[p].pc = "rem"
  /\ Fault
  /\ AfterRem(p)
  /\ UNCHANGED <<list, meta, enq>>

\* Dequeue returns the job to the worker pool.
Return(p) ==
  /\ deq[p].pc = "return"
  /\ deq' = [deq EXCEPT ![p] = Idle]
  /\ UNCHANGED <<list, meta, enq, faults>>

\* The server process dies; Redis keeps its keys.
Crash ==
  /\ Fault
  /\ enq' = [c \in Clients |-> NoJob]
  /\ deq' = [p \in Pools |-> Idle]
  /\ UNCHANGED <<list, meta>>

-------------------------------------------------------------------------------
Enqueue == \E c \in Clients : (\E j \in Jobs : LPush(c, j)) \/ ZAdd(c)

DequeueStep(p) == ZRevRange(p) \/ RPop(p) \/ LLen(p) \/ ZRem(p) \/ Return(p)

Failure ==
  \/ \E c \in Clients : EnqueueFails(c)
  \/ \E p \in Pools : RPopFails(p) \/ LLenFails(p) \/ ZRemFails(p)
  \/ Crash

Next ==
  \/ Enqueue
  \/ \E p \in Pools : DequeueStep(p)
  \/ Failure

Spec == Init /\ [][Next]_queueVars

\* A started pipeline goes on to its ZADD, and the pool's loop never stops
\* calling Dequeue (worker.go:38, a nil job or an error only delays it).
FairSpec ==
  /\ Spec
  /\ \A c \in Clients : WF_queueVars(ZAdd(c))
  /\ \A p \in Pools : WF_queueVars(DequeueStep(p))

-------------------------------------------------------------------------------
(* Properties.                                                             *)

\* The queue keeps the promise of WorkQueue: per user first in, first out,
\* each accepted job returned by Dequeue at most once, whatever the
\* interleaving of the commands and the faults (queue.go:44-104).
Abstract == INSTANCE WorkQueue
              WITH fifo <- list, hand <- [p \in Pools |-> deq[p].job]
ImplementsWorkQueue == Abstract!Spec

\* u has jobs, is not in the meta-queue, and no Enqueue is about to put it
\* there: Dequeue cannot see these jobs until the next Enqueue for u.
Stranded(u) ==
  /\ list[u] # <<>>
  /\ meta[u] = 0
  /\ \A c \in Clients : enq[c] # NoJob => UserOf[enq[c]] # u

\* The only steps that hide the jobs of a user from Dequeue are the ZREM of
\* a Dequeue that saw the list empty earlier and an Enqueue cut off between
\* its two commands; pushing, popping and scoring never do (queue.go:50-97).
StrandedOnlyByZRemOrCutEnqueue ==
  [][\A u \in Users : ~Stranded(u) /\ Stranded(u)' =>
       \/ \E p \in Pools : deq[p].pc = "rem" /\ deq[p].user = u /\ deq'[p].pc # "rem"
       \/ \E c \in Clients : /\ enq[c] # NoJob /\ enq'[c] = NoJob
                             /\ UserOf[enq[c]] = u /\ faults' > faults]_queueVars

\* A member of the meta-queue whose list is empty does not block the users
\* behind it: once nothing is pushed any more, Dequeue works the meta-queue
\* off, stale members included (queue.go:84-88).
MetaQueueDrains ==
  <>[][~ \E c \in Clients, j \in Jobs : LPush(c, j)]_queueVars
    => <>[](\A u \in Users : meta[u] = 0)
===============================================================================
