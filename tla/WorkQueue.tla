------------------------------ MODULE WorkQueue ------------------------------
(***************************************************************************)
(* What the AI job queue promises, without Redis: every user has a FIFO of *)
(* accepted jobs, a consumer takes the oldest job of one user, and a job   *)
(* that was taken is handed out once.  A fault may lose a job (the oldest  *)
(* of a FIFO, or one in the hands of a consumer), but no job is invented,  *)
(* handed out twice, reordered within its user or moved to another user.   *)
(* JobQueue, one action per Redis command, is shown to implement it.       *)
(***************************************************************************)
EXTENDS Sequences

CONSTANTS
  Users,     \* the users that own jobs
  Jobs,      \* the jobs
  UserOf,    \* UserOf[j]: the user that owns job j
  Pools,     \* the consumers, one worker pool per server process
  NoJob      \* not a job

VARIABLES
  fifo,      \* fifo[u]: the accepted jobs of u, oldest first
  hand       \* hand[p]: the job p took and has not handed out yet, or NoJob

vars == <<fifo, hand>>

TypeOK ==
  /\ fifo \in [Users -> Seq(Jobs)]
  /\ hand \in [Pools -> Jobs \union {NoJob}]

Init ==
  /\ fifo = [u \in Users |-> <<>>]
  /\ hand = [p \in Pools |-> NoJob]

Accept(j) ==
  /\ fifo' = [fifo EXCEPT ![UserOf[j]] = Append(@, j)]
  /\ UNCHANGED hand

Take(p, u) ==
  /\ hand[p] = NoJob
  /\ fifo[u] # <<>>
  /\ hand' = [hand EXCEPT ![p] = Head(fifo[u])]
  /\ fifo' = [fifo EXCEPT ![u] = Tail(@)]

HandOut(p) ==
  /\ hand[p] # NoJob
  /\ hand' = [hand EXCEPT ![p] = NoJob]
  /\ UNCHANGED fifo

LoseOldest(u) ==
  /\ fifo[u] # <<>>
  /\ fifo' = [fifo EXCEPT ![u] = Tail(@)]
  /\ UNCHANGED hand

LoseHands ==
  /\ hand' = [p \in Pools |-> NoJob]
  /\ UNCHANGED fifo

Next ==
  \/ \E j \in Jobs : Accept(j)
  \/ \E p \in Pools, u \in Users : Take(p, u)
  \/ \E p \in Pools : HandOut(p)
  \/ \E u \in Users : LoseOldest(u)
  \/ LoseHands

Spec == Init /\ [][Next]_vars
==============================================================================
