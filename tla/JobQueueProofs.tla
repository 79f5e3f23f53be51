---------------------------- MODULE JobQueueProofs ----------------------------
(***************************************************************************)
(* Proofs about JobQueue for every set of users, jobs, clients and pools.  *)
(* TypeOK is inductive.  It is enough to show that every Redis command is  *)
(* a step of WorkQueue or invisible there, because the state of a Dequeue  *)
(* says whether it holds a job.                                            *)
(***************************************************************************)
EXTENDS JobQueue, TLAPS

\* Taking the oldest job of a list leaves a list of jobs (RPOP, queue.go:83).
LEMMA PopTyped ==
  ASSUME NEW s \in Seq(Jobs), s # <<>>
  PROVE  Head(s) \in Jobs /\ Tail(s) \in Seq(Jobs)
  OBVIOUS

\* A Dequeue before its RPOP has picked a user and holds no job.
LEMMA AtPop ==
  ASSUME TypeOK, NEW p \in Pools, deq[p].pc = "pop"
  PROVE  deq[p] \in [pc : {"pop"}, user : Users, job : {NoJob}]
<1>1. deq[p] \in DeqStates
  BY DEF TypeOK
<1>2. QED
  BY <1>1 DEF DeqStates, Idle

\* The step of each action keeps the shape of the state.
LEMMA TypeStep == TypeOK /\ [Next]_queueVars => TypeOK'
<1> SUFFICES ASSUME TypeOK, [Next]_queueVars PROVE TypeOK'
  OBVIOUS
<1> USE UsersAssumption, JobsAssumption, BoundsAssumption
<1>1. ASSUME NEW c \in Clients, NEW j \in Jobs, LPush(c, j) PROVE TypeOK'
  <2>1. UserOf[j] \in Users
    OBVIOUS
  <2>2. Append(list[UserOf[j]], j) \in Seq(Jobs)
    <3>1. list[UserOf[j]] \in Seq(Jobs)
      BY <2>1 DEF TypeOK
    <3>2. QED
      BY <3>1
  <2>3. list' \in [Users -> Seq(Jobs)]
    BY <1>1, <2>2 DEF LPush, TypeOK
  <2>4. QED
    BY <1>1, <2>3 DEF LPush, TypeOK
<1>2. ASSUME NEW c \in Clients, ZAdd(c) PROVE TypeOK'
  BY <1>2 DEF ZAdd, TypeOK
<1>3. ASSUME NEW p \in Pools, ZRevRange(p) PROVE TypeOK'
  BY <1>3 DEF ZRevRange, TypeOK, DeqStates
<1>4. ASSUME NEW p \in Pools, RPop(p) PROVE TypeOK'
  <2>1. deq[p] \in [pc : {"pop"}, user : Users, job : {NoJob}]
    BY <1>4, AtPop DEF RPop
  <2>2. CASE list[deq[p].user] = <<>>
    <3>1. [deq[p] EXCEPT !.pc = "rem"] \in DeqStates
      BY <2>1 DEF DeqStates
    <3>2. deq' = [deq EXCEPT ![p] = [deq[p] EXCEPT !.pc = "rem"]]
      BY <1>4, <2>2 DEF RPop
    <3>3. QED
      BY <1>4, <2>2, <3>1, <3>2 DEF RPop, TypeOK
  <2>3. CASE list[deq[p].user] # <<>>
    <3>1. /\ Head(list[deq[p].user]) \in Jobs
          /\ Tail(list[deq[p].user]) \in Seq(Jobs)
      BY <2>1, <2>3, PopTyped DEF TypeOK
    <3>2. [deq[p] EXCEPT !.pc = "len", !.job = Head(list[deq[p].user])] \in DeqStates
      BY <2>1, <3>1 DEF DeqStates
    <3>3. list' \in [Users -> Seq(Jobs)]
      BY <1>4, <2>1, <2>3, <3>1 DEF RPop, TypeOK
    <3>4. deq' \in [Pools -> DeqStates]
      BY <1>4, <2>3, <3>2 DEF RPop, TypeOK
    <3>5. QED
      BY <1>4, <3>3, <3>4 DEF RPop, TypeOK
  <2>4. QED
    BY <2>2, <2>3
<1>5. ASSUME NEW p \in Pools, LLen(p) PROVE TypeOK'
  <2>1. deq[p] \in [pc : {"len"}, user : Users, job : Jobs]
    BY <1>5 DEF LLen, TypeOK, DeqStates, Idle
  <2>2. QED
    BY <1>5, <2>1 DEF LLen, TypeOK, DeqStates
<1>6. ASSUME NEW p \in Pools, AfterRem(p), deq[p].pc = "rem"
      PROVE  deq' \in [Pools -> DeqStates]
  <2>1. deq[p] \in [pc : {"rem"}, user : Users, job : Jobs \union {NoJob}]
    BY <1>6 DEF TypeOK, DeqStates, Idle
  <2>2. QED
    BY <1>6, <2>1 DEF AfterRem, TypeOK, DeqStates
<1>7. ASSUME NEW p \in Pools, ZRem(p) PROVE TypeOK'
  BY <1>6, <1>7 DEF ZRem, TypeOK
<1>8. ASSUME NEW p \in Pools, Return(p) PROVE TypeOK'
  BY <1>8 DEF Return, TypeOK, DeqStates
<1>9. ASSUME NEW c \in Clients, EnqueueFails(c) PROVE TypeOK'
  BY <1>9 DEF EnqueueFails, Fault, TypeOK
<1>10. ASSUME NEW p \in Pools, RPopFails(p) PROVE TypeOK'
  <2>1. deq[p] \in [pc : {"pop"}, user : Users, job : {NoJob}]
    BY <1>10, AtPop DEF RPopFails
  <2>2. list[deq[p].user] # <<>> => Tail(list[deq[p].user]) \in Seq(Jobs)
    BY <2>1, PopTyped DEF TypeOK
  <2>3. list' \in [Users -> Seq(Jobs)]
    BY <1>10, <2>1, <2>2 DEF RPopFails, TypeOK
  <2>4. deq' \in [Pools -> DeqStates]
    BY <1>10 DEF RPopFails, TypeOK, DeqStates
  <2>5. faults' \in 0 .. MaxFaults
    BY <1>10 DEF RPopFails, Fault, TypeOK
  <2>6. UNCHANGED <<meta, enq>>
    BY <1>10 DEF RPopFails
  <2>7. meta' \in [Users -> Nat] /\ enq' \in [Clients -> Jobs \union {NoJob}]
    BY <2>6 DEF TypeOK
  <2>8. QED
    BY <2>3, <2>4, <2>5, <2>7 DEF TypeOK
<1>11. ASSUME NEW p \in Pools, LLenFails(p) PROVE TypeOK'
  <2>1. deq[p] \in [pc : {"len"}, user : Users, job : Jobs]
    BY <1>11 DEF LLenFails, TypeOK, DeqStates, Idle
  <2>2. [deq[p] EXCEPT !.pc = "rem"] \in DeqStates
    BY <2>1 DEF DeqStates
  <2>3. deq' \in [Pools -> DeqStates]
    BY <1>11, <2>2 DEF LLenFails, TypeOK
  <2>4. QED
    BY <1>11, <2>3 DEF LLenFails, Fault, TypeOK
<1>12. ASSUME NEW p \in Pools, ZRemFails(p) PROVE TypeOK'
  BY <1>6, <1>12 DEF ZRemFails, Fault, TypeOK
<1>13. CASE Crash
  BY <1>13 DEF Crash, Fault, TypeOK, DeqStates
<1>14. CASE UNCHANGED queueVars
  BY <1>14 DEF queueVars, TypeOK
<1>15. QED
  BY <1>1, <1>2, <1>3, <1>4, <1>5, <1>7, <1>8, <1>9, <1>10, <1>11, <1>12, <1>13, <1>14
  DEF Next, Enqueue, DequeueStep, Failure

\* In every reachable state a Dequeue past its RPOP holds a job, or it is
\* about to remove a user whose list was empty (queue.go:82-103).
THEOREM TypeCorrect == Spec => []TypeOK
<1>1. Init => TypeOK
  BY UsersAssumption, BoundsAssumption DEF Init, TypeOK, DeqStates
<1>2. QED
  BY <1>1, TypeStep, PTL DEF Spec

-------------------------------------------------------------------------------
(* JobQueue implements WorkQueue.                                          *)

\* The abstract hand of p after a step that rewrites the state of p only.
LEMMA HandStep ==
  ASSUME NEW p \in Pools, NEW d, deq \in [Pools -> DeqStates],
         deq' = [deq EXCEPT ![p] = d]
  PROVE  [q \in Pools |-> deq'[q].job]
           = [[q \in Pools |-> deq[q].job] EXCEPT ![p] = d.job]
  OBVIOUS

\* Every step of a Redis command, a crash included, is a step of the abstract
\* queue or leaves it unchanged.
LEMMA AbstractStep ==
  TypeOK /\ [Next]_queueVars => [Abstract!Next]_(Abstract!vars)
<1> SUFFICES ASSUME TypeOK, [Next]_queueVars
             PROVE  [Abstract!Next]_(Abstract!vars)
  OBVIOUS
<1> DEFINE hand == [p \in Pools |-> deq[p].job]
<1> USE UsersAssumption, JobsAssumption
<1>0. deq \in [Pools -> DeqStates]
  BY DEF TypeOK
<1>1. ASSUME NEW c \in Clients, NEW j \in Jobs, LPush(c, j)
      PROVE  Abstract!Accept(j)
  BY <1>1 DEF LPush, Abstract!Accept
<1>2. ASSUME NEW c \in Clients, ZAdd(c) \/ EnqueueFails(c)
      PROVE  UNCHANGED Abstract!vars
  BY <1>2 DEF ZAdd, EnqueueFails, Abstract!vars
<1>3. ASSUME NEW p \in Pools, NEW d, deq' = [deq EXCEPT ![p] = d],
             d.job = deq[p].job, UNCHANGED list
      PROVE  UNCHANGED Abstract!vars
  BY <1>0, <1>3, HandStep DEF Abstract!vars
<1>4. ASSUME NEW p \in Pools, ZRevRange(p)
      PROVE  UNCHANGED Abstract!vars
  <2>1. deq[p] = Idle
    BY <1>0, <1>4 DEF ZRevRange, DeqStates
  <2>2. CASE UNCHANGED deq
    BY <1>4, <2>2 DEF ZRevRange, Abstract!vars
  <2>3. ASSUME NEW u \in Users,
               deq' = [deq EXCEPT ![p] = [pc |-> "pop", user |-> u, job |-> NoJob]]
        PROVE  UNCHANGED Abstract!vars
    <3> DEFINE d == [pc |-> "pop", user |-> u, job |-> NoJob]
    <3>1. d.job = deq[p].job /\ UNCHANGED list
      BY <1>4, <2>1 DEF ZRevRange, Idle
    <3>2. QED
      BY <1>3, <2>3, <3>1
  <2>4. QED
    BY <1>4, <2>2, <2>3 DEF ZRevRange
<1>5. ASSUME NEW p \in Pools, RPop(p)
      PROVE  [Abstract!Next]_(Abstract!vars)
  <2>1. deq[p] \in [pc : {"pop"}, user : Users, job : {NoJob}]
    BY <1>5, AtPop DEF RPop
  <2>2. CASE list[deq[p].user] = <<>>
    <3>1. deq' = [deq EXCEPT ![p] = [deq[p] EXCEPT !.pc = "rem"]]
      BY <1>5, <2>2 DEF RPop
    <3>2. [deq[p] EXCEPT !.pc = "rem"].job = deq[p].job
      BY <2>1
    <3>3. UNCHANGED Abstract!vars
      BY <1>3, <1>5, <2>2, <3>1, <3>2 DEF RPop
    <3>4. QED
      BY <3>3
  <2>3. CASE list[deq[p].user] # <<>>
    <3> DEFINE d == [deq[p] EXCEPT !.pc = "len", !.job = Head(list[deq[p].user])]
    <3>1. deq' = [deq EXCEPT ![p] = d]
      BY <1>5, <2>3 DEF RPop
    <3>2. d.job = Head(list[deq[p].user])
      BY <2>1
    <3> HIDE DEF d
    <3>3. [q \in Pools |-> deq'[q].job] = [hand EXCEPT ![p] = Head(list[deq[p].user])]
      BY <1>0, <3>1, <3>2, HandStep
    <3>4. /\ hand[p] = NoJob
          /\ list' = [list EXCEPT ![deq[p].user] = Tail(@)]
      BY <1>5, <2>1, <2>3 DEF RPop
    <3>5. \E q \in Pools, u \in Users : Abstract!Take(q, u)
      <4>1. deq[p].user \in Users
        BY <2>1
      <4>2. PICK u \in Users : u = deq[p].user
        BY <4>1
      <4>3. Abstract!Take(p, u)
        BY <2>3, <3>3, <3>4, <4>2 DEF Abstract!Take
      <4>4. QED
        BY <4>3
    <3>6. QED
      BY <3>5 DEF Abstract!Next
  <2>4. QED
    BY <2>2, <2>3
<1>6. ASSUME NEW p \in Pools, LLen(p) \/ LLenFails(p)
      PROVE  UNCHANGED Abstract!vars
  <2>1. deq[p] \in [pc : {"len"}, user : Users, job : Jobs]
    BY <1>0, <1>6 DEF LLen, LLenFails, DeqStates, Idle
  <2>2. PICK s : deq' = [deq EXCEPT ![p] = [deq[p] EXCEPT !.pc = s]]
    BY <1>6 DEF LLen, LLenFails
  <2>3. [deq[p] EXCEPT !.pc = s].job = deq[p].job
    BY <2>1
  <2>4. UNCHANGED list
    BY <1>6 DEF LLen, LLenFails
  <2>5. QED
    BY <1>3, <2>2, <2>3, <2>4
<1>7. ASSUME NEW p \in Pools, ZRem(p) \/ ZRemFails(p)
      PROVE  UNCHANGED Abstract!vars
  <2>1. deq[p] \in [pc : {"rem"}, user : Users, job : Jobs \union {NoJob}]
    BY <1>0, <1>7 DEF ZRem, ZRemFails, DeqStates, Idle
  <2> DEFINE d == IF deq[p].job = NoJob THEN Idle ELSE [deq[p] EXCEPT !.pc = "return"]
  <2>2. deq' = [deq EXCEPT ![p] = d]
    BY <1>7 DEF ZRem, ZRemFails, AfterRem
  <2>3. d.job = deq[p].job
    BY <2>1 DEF Idle
  <2>4. QED
    BY <1>3, <1>7, <2>2, <2>3 DEF ZRem, ZRemFails
<1>8. ASSUME NEW p \in Pools, Return(p)
      PROVE  Abstract!HandOut(p)
  <2>1. deq[p] \in [pc : {"return"}, user : Users, job : Jobs]
    BY <1>0, <1>8 DEF Return, DeqStates, Idle
  <2>2. [q \in Pools |-> deq'[q].job] = [hand EXCEPT ![p] = NoJob]
    BY <1>0, <1>8, HandStep DEF Return, Idle
  <2>3. hand[p] # NoJob
    BY <2>1
  <2>4. QED
    BY <1>8, <2>2, <2>3 DEF Return, Abstract!HandOut
<1>9. ASSUME NEW p \in Pools, RPopFails(p)
      PROVE  [Abstract!Next]_(Abstract!vars)
  <2>1. deq[p] \in [pc : {"pop"}, user : Users, job : {NoJob}]
    BY <1>9, AtPop DEF RPopFails
  <2>2. [q \in Pools |-> deq'[q].job] = hand
    BY <1>0, <1>9, <2>1, HandStep DEF RPopFails, Idle
  <2>3. CASE UNCHANGED list
    BY <2>2, <2>3 DEF Abstract!vars
  <2>4. CASE ~ UNCHANGED list
    <3>1. Abstract!LoseOldest(deq[p].user)
      BY <1>9, <2>2, <2>4 DEF RPopFails, Abstract!LoseOldest
    <3>2. QED
      BY <2>1, <3>1 DEF Abstract!Next
  <2>5. QED
    BY <2>3, <2>4
<1>10. ASSUME Crash
       PROVE  Abstract!LoseHands
  BY <1>10 DEF Crash, Idle, Abstract!LoseHands
<1>11. CASE UNCHANGED queueVars
  BY <1>11 DEF queueVars, Abstract!vars
<1>12. QED
  BY <1>1, <1>2, <1>4, <1>5, <1>6, <1>7, <1>8, <1>9, <1>10, <1>11
  DEF Next, Enqueue, DequeueStep, Failure, Abstract!Next

\* The Redis queue keeps the promise of WorkQueue, for any number of users,
\* producers and worker pools: first in, first out per user and no job
\* returned twice (queue.go:44-104).
THEOREM QueueImplementsWorkQueue == Spec => ImplementsWorkQueue
<1>1. Init => Abstract!Init
  BY DEF Init, Idle, Abstract!Init
<1>2. QED
  BY <1>1, TypeCorrect, AbstractStep, PTL DEF Spec, ImplementsWorkQueue, Abstract!Spec

-------------------------------------------------------------------------------
(* What hides the jobs of a user.                                          *)

\* A step that takes jobs away from lists at most, and leaves the meta-queue
\* and the Enqueues alone, hides nothing.
LEMMA TakingHidesNothing ==
  ASSUME UNCHANGED <<meta, enq>>, NEW u \in Users, list'[u] # <<>> => list[u] # <<>>
  PROVE  Stranded(u)' => Stranded(u)
  BY DEF Stranded

\* What is left of a list after an RPOP is not more than there was.
LEMMA RestOfList ==
  ASSUME TypeOK, NEW v, NEW u \in Users,
         UNCHANGED list \/ (list[v] # <<>> /\ list' = [list EXCEPT ![v] = Tail(@)])
  PROVE  list'[u] # <<>> => list[u] # <<>>
<1>1. list \in [Users -> Seq(Jobs)]
  BY DEF TypeOK
<1>2. CASE u = v
  BY <1>1, <1>2
<1>3. CASE u # v
  BY <1>1, <1>3
<1>4. QED
  BY <1>2, <1>3

\* The step of each command, for the jobs of one user.
LEMMA StrandedStep ==
  ASSUME TypeOK, [Next]_queueVars, NEW u \in Users, ~ Stranded(u), Stranded(u)'
  PROVE  \/ \E p \in Pools : deq[p].pc = "rem" /\ deq[p].user = u /\ deq'[p].pc # "rem"
         \/ \E c \in Clients : /\ enq[c] # NoJob /\ enq'[c] = NoJob
                               /\ UserOf[enq[c]] = u /\ faults' > faults
<1> DEFINE Hidden ==
      \/ \E p \in Pools : deq[p].pc = "rem" /\ deq[p].user = u /\ deq'[p].pc # "rem"
      \/ \E c \in Clients : /\ enq[c] # NoJob /\ enq'[c] = NoJob
                            /\ UserOf[enq[c]] = u /\ faults' > faults
<1> USE UsersAssumption, JobsAssumption, BoundsAssumption
<1>0. /\ list \in [Users -> Seq(Jobs)] /\ meta \in [Users -> Nat]
      /\ enq \in [Clients -> Jobs \union {NoJob}] /\ deq \in [Pools -> DeqStates]
      /\ faults \in Nat
  BY DEF TypeOK
<1>1. ASSUME NEW c \in Clients, NEW j \in Jobs, LPush(c, j) PROVE FALSE
  <2>1. enq'[c] = j /\ j # NoJob /\ \A d \in Clients : d # c => enq'[d] = enq[d]
    BY <1>0, <1>1 DEF LPush
  <2>2. UserOf[j] # u
    BY <2>1 DEF Stranded
  <2>3. list'[u] = list[u] /\ meta' = meta
    BY <1>0, <1>1, <2>2 DEF LPush
  <2>4. \A d \in Clients : enq[d] # NoJob => enq'[d] = enq[d]
    BY <1>1, <2>1 DEF LPush
  <2>5. QED
    BY <2>3, <2>4 DEF Stranded
<1>2. ASSUME NEW c \in Clients, ZAdd(c) PROVE FALSE
  <2> DEFINE v == UserOf[enq[c]]
  <2>1. enq[c] \in Jobs /\ v \in Users /\ ScoreOf[enq[c]] # 0
    BY <1>0, <1>2 DEF ZAdd
  <2>2. meta'[v] = ScoreOf[enq[c]] /\ \A x \in Users : x # v => meta'[x] = meta[x]
    BY <1>0, <1>2, <2>1 DEF ZAdd
  <2>3. u # v
    BY <2>1, <2>2 DEF Stranded
  <2>4. list' = list /\ \A d \in Clients : d # c => enq'[d] = enq[d]
    BY <1>0, <1>2 DEF ZAdd
  <2>5. QED
    BY <2>2, <2>3, <2>4 DEF Stranded
<1>3. ASSUME NEW c \in Clients, EnqueueFails(c) PROVE Hidden
  <2>1. /\ enq[c] # NoJob /\ enq'[c] = NoJob /\ faults' > faults
        /\ UNCHANGED <<list, meta>> /\ \A d \in Clients : d # c => enq'[d] = enq[d]
    BY <1>0, <1>3 DEF EnqueueFails, Fault
  <2>2. UserOf[enq[c]] = u
    BY <2>1 DEF Stranded
  <2>3. QED
    BY <2>1, <2>2
<1>4. ASSUME NEW p \in Pools, ZRem(p) PROVE Hidden
  <2>1. deq[p] \in [pc : {"rem"}, user : Users, job : Jobs \union {NoJob}]
    BY <1>0, <1>4 DEF ZRem, DeqStates, Idle
  <2>2. deq[p].user = u
    <3>1. deq[p].user # u => meta'[u] = meta[u]
      BY <1>0, <1>4, <2>1 DEF ZRem
    <3>2. UNCHANGED <<list, enq>>
      BY <1>4 DEF ZRem
    <3>3. QED
      BY <3>1, <3>2 DEF Stranded
  <2>3. deq'[p].pc # "rem"
    <3>1. deq'[p] = IF deq[p].job = NoJob THEN Idle ELSE [deq[p] EXCEPT !.pc = "return"]
      BY <1>0, <1>4 DEF ZRem, AfterRem
    <3>2. [deq[p] EXCEPT !.pc = "return"].pc = "return"
      BY <2>1
    <3>3. QED
      BY <3>1, <3>2 DEF Idle
  <2>4. QED
    BY <1>4, <2>2, <2>3 DEF ZRem
<1>5. ASSUME NEW p \in Pools, RPop(p) \/ RPopFails(p) PROVE FALSE
  <2>1. UNCHANGED <<meta, enq>>
    BY <1>5 DEF RPop, RPopFails
  <2>2. \/ UNCHANGED list
        \/ /\ list[deq[p].user] # <<>>
           /\ list' = [list EXCEPT ![deq[p].user] = Tail(@)]
    BY <1>5 DEF RPop, RPopFails
  <2>3. QED
    BY <2>1, <2>2, RestOfList, TakingHidesNothing
<1>6. ASSUME NEW p \in Pools,
             ZRevRange(p) \/ LLen(p) \/ LLenFails(p) \/ ZRemFails(p) \/ Return(p)
      PROVE  FALSE
  <2>1. UNCHANGED <<list, meta, enq>>
    BY <1>6 DEF ZRevRange, LLen, LLenFails, ZRemFails, Return
  <2>2. QED
    BY <2>1, TakingHidesNothing
<1>7. CASE Crash
  <2>1. /\ UNCHANGED <<list, meta>> /\ \A c \in Clients : enq'[c] = NoJob
        /\ faults' > faults
    BY <1>0, <1>7 DEF Crash, Fault
  <2>2. PICK c \in Clients : enq[c] # NoJob /\ UserOf[enq[c]] = u
    BY <2>1 DEF Stranded
  <2>3. QED
    BY <2>1, <2>2
<1>8. CASE UNCHANGED queueVars
  BY <1>8 DEF queueVars, Stranded
<1>9. QED
  BY <1>1, <1>2, <1>3, <1>4, <1>5, <1>6, <1>7, <1>8
     DEF Next, Enqueue, DequeueStep, Failure

\* The jobs of a user vanish from Dequeue's sight only by the ZREM of a Dequeue
\* that saw the list empty earlier, or by an Enqueue cut off between its two
\* commands, for any number of users, producers and worker pools
\* (queue.go:50-97).
THEOREM HiddenOnlyByZRemOrCutEnqueue == Spec => StrandedOnlyByZRemOrCutEnqueue
<1>1. TypeOK /\ [Next]_queueVars =>
        [\A u \in Users : ~Stranded(u) /\ Stranded(u)' =>
           \/ \E p \in Pools : deq[p].pc = "rem" /\ deq[p].user = u /\ deq'[p].pc # "rem"
           \/ \E c \in Clients : /\ enq[c] # NoJob /\ enq'[c] = NoJob
                                 /\ UserOf[enq[c]] = u /\ faults' > faults]_queueVars
  BY StrandedStep
<1>2. QED
  BY <1>1, TypeCorrect, PTL DEF Spec, StrandedOnlyByZRemOrCutEnqueue

===============================================================================
