----------------------------- MODULE AISystemProofs -----------------------------
(***************************************************************************)
(* Proofs about AISystem for every set of users, emails, plans and         *)
(* workers, every capacity and every bound.                                *)
(*                                                                         *)
(* A slot of the semaphore is free, with Run or with a goroutine (Slots);  *)
(* a copy of an email is in its owner's list, in the hands of Run or with  *)
(* a worker that has not drafted yet (Mine, Tokens).                       *)
(***************************************************************************)
EXTENDS AISystem, SequenceTheorems, FiniteSetTheorems, TLAPS

-------------------------------------------------------------------------------
(* The inductive invariant.                                                *)

BatchesOf == [emails : Seq(Emails), plan : Plans]

\* TypeOK, and a scheduler that is enqueueing has a batch with the email.
Typed ==
  /\ PipelineTypeOK
  /\ Q!TypeOK
  /\ sem \in Nat
  /\ loop \in {"acquire", "dequeue"}
  /\ cron \in [Users -> BatchesOf \union {NoBatch}]
  /\ \A u \in Users : cron[u] # NoBatch => cron[u].emails # <<>>
  /\ \A u \in Users : enq[u] # NoJob => cron[u] # NoBatch

\* The jobs of a list and the emails of a batch are those of the user.
Mine ==
  /\ \A u \in Users : \A i \in 1 .. Len(list[u]) : Owner[Email(list[u][i])] = u
  /\ \A u \in Users : \A i \in 1 .. Len(cron[u].emails) : Owner[cron[u].emails[i]] = u

Slots == IsFiniteSet(Busy) /\ SlotsAccounted

Inv == Typed /\ Mine /\ Slots

-------------------------------------------------------------------------------
(* What the steps do.                                                      *)

\* The rest of a sequence.
LEMMA TailOK ==
  ASSUME NEW S, NEW q \in Seq(S), q # <<>>
  PROVE  /\ Head(q) = q[1] /\ q[1] \in S /\ Len(q) \in Nat \ {0}
         /\ Tail(q) \in Seq(S)
         /\ Len(Tail(q)) = Len(q) - 1
         /\ \A i \in 1 .. Len(Tail(q)) : Tail(q)[i] = q[i + 1]
         /\ Len(q) # 1 => Tail(q) # <<>>
<1>1. /\ Tail(q) \in Seq(S) /\ Len(Tail(q)) = Len(q) - 1
      /\ \A i \in 1 .. Len(Tail(q)) : Tail(q)[i] = q[i + 1]
  BY HeadTailProperties
<1>2. Len(q) \in Nat \ {0} /\ q[1] \in S
  BY EmptySeq, ElementOfSeq
<1>3. Tail(q) = <<>> => Len(Tail(q)) = 0
  BY EmptySeq
<1>4. QED
  BY <1>1, <1>2, <1>3

\* A worker that goes on has the same job; a draft is written on the way to
\* "setComplete"; the table changes for its email only.
WorkerTo(w, d) ==
  /\ proc[w] # Asleep /\ proc[w] \in [pc : ProcPCs, job : JobsOf]
  /\ d \in ProcStates /\ proc' = [proc EXCEPT ![w] = d]
  /\ d # Asleep => d.job = proc[w].job
  /\ row' \in [Emails -> Rows]
  /\ \A e \in Emails : e # Email(proc[w].job) => row'[e] = row[e]
  /\ \/ /\ drafts' = drafts
        /\ proc[w].pc \in {"setComplete", "setError"} => d = Asleep
     \/ /\ proc[w].pc = "draft" /\ d.pc = "setComplete"
        /\ drafts' = [drafts EXCEPT ![Email(proc[w].job)] = Capped(@ + 1, DraftCap)]

\* A job has an email and a plan.
LEMMA JobParts ==
  /\ \A j \in JobsOf : Email(j) \in Emails /\ Plan(j) \in Plans /\ Owner[Email(j)] \in Users
  /\ \A e \in Emails, p \in Plans : <<e, p>> \in JobsOf /\ Email(<<e, p>>) = e
  BY OwnerAssumption DEF JobsOf, Email, Plan

\* A worker that is not asleep has a job.
LEMMA Awake ==
  ASSUME Typed, NEW w \in Workers, proc[w].pc \in ProcPCs
  PROVE  proc[w] # Asleep /\ proc[w] \in [pc : ProcPCs, job : JobsOf]
  BY DEF Typed, PipelineTypeOK, ProcStates, Asleep, ProcPCs

\* An upsert leaves a row.
LEMMA UpsertRow ==
  ASSUME NEW r \in Rows, NEW st \in {"categorizing", "summarizing", "drafting", "complete", "error"}
  PROVE  Upsert(r, st) \in Rows
<1>1. RetryCap \in Nat \ {0}
  BY CapsAssumption
<1>2. Capped(r.retries + 1, RetryCap) \in 0 .. RetryCap
  BY <1>1 DEF Rows, Capped
<1>3. QED
  BY <1>1, <1>2 DEF Rows, Upsert, Stages, Working

\* The steps that only move the worker on.
LEMMA GotoShape ==
  ASSUME Typed, NEW w \in Workers, NEW pc \in ProcPCs, proc[w].pc \in ProcPCs,
         proc[w].pc \notin {"setComplete", "setError"},
         Goto(w, pc), UNCHANGED <<row, drafts>>
  PROVE  \E d : WorkerTo(w, d)
<1> DEFINE d == [proc[w] EXCEPT !.pc = pc]
<1>1. proc[w] # Asleep /\ proc[w] \in [pc : ProcPCs, job : JobsOf]
  BY Awake
<1>2. d \in [pc : ProcPCs, job : JobsOf] /\ d.job = proc[w].job
  BY <1>1
<1>3. proc' = [proc EXCEPT ![w] = d]
  BY DEF Goto, Typed, PipelineTypeOK
<1>4. QED
  BY <1>1, <1>2, <1>3 DEF WorkerTo, ProcStates, Typed, PipelineTypeOK

\* The report of a stage, written or not.
LEMMA ReportShape ==
  ASSUME Typed, NEW w \in Workers, UpdateStatus(w) \/ UpdateStatusFails(w)
  PROVE  \E d : WorkerTo(w, d)
<1>1. proc[w].pc \in DOMAIN Report /\ ReportDone(w) /\ UNCHANGED drafts
  BY DEF UpdateStatus, UpdateStatusFails, Reporting
<1>2. DOMAIN Report = {"setCategorizing", "setSummarizing", "setDrafting", "setComplete",
                       "setError"}
  BY DEF Report
<1>3. proc[w] # Asleep /\ proc[w] \in [pc : ProcPCs, job : JobsOf]
  BY <1>1, <1>2, Awake DEF ProcPCs
<1> DEFINE e == Email(proc[w].job)
           d == IF After(proc[w].pc) = "idle" THEN Asleep
                ELSE [proc[w] EXCEPT !.pc = After(proc[w].pc)]
<1>4. /\ row' \in [Emails -> Rows]
      /\ \A f \in Emails : f # e => row'[f] = row[f]
  <2>1. CASE UpdateStatus(w)
    <3>1. Report[proc[w].pc] \in {"categorizing", "summarizing", "drafting", "complete", "error"}
      BY <1>1, <1>2 DEF Report
    <3>2. e \in Emails /\ row[e] \in Rows
      BY <1>3, JobParts DEF Typed, PipelineTypeOK
    <3>3. Upsert(row[e], Report[proc[w].pc]) \in Rows
      BY <3>1, <3>2, UpsertRow
    <3>4. QED
      BY <2>1, <3>2, <3>3 DEF UpdateStatus, StatusWritten, Typed, PipelineTypeOK
  <2>2. CASE UpdateStatusFails(w)
    BY <2>2 DEF UpdateStatusFails, Typed, PipelineTypeOK
  <2>3. QED
    BY <2>1, <2>2
<1>5. /\ After(proc[w].pc) \in {"idle", "categorize", "summarize", "draft"}
      /\ proc[w].pc \in {"setComplete", "setError"} => After(proc[w].pc) = "idle"
  BY <1>1, <1>2 DEF After
<1>6. d \in ProcStates /\ (d # Asleep => d.job = proc[w].job)
  BY <1>3, <1>5 DEF ProcStates, ProcPCs
<1>7. proc' = [proc EXCEPT ![w] = d]
  BY <1>1, <1>3 DEF ReportDone, Goto, Typed, PipelineTypeOK
<1>8. proc[w].pc \in {"setComplete", "setError"} => d = Asleep
  BY <1>5
<1>9. QED
  BY <1>1, <1>3, <1>4, <1>6, <1>7, <1>8 DEF WorkerTo

\* Every step of Process, and every failure of it.
LEMMA WorkerShape ==
  ASSUME Typed, NEW w \in Workers, Process(w) \/ ProcessFails(w)
  PROVE  \E d : WorkerTo(w, d)
<1>1. AfterCategorize(w) \in ProcPCs
  BY DEF AfterCategorize, ProcPCs
<1>2. CASE Load(w) \/ LoadFails(w) \/ Categorize(w) \/ Summarize(w)
  <2>1. /\ proc[w].pc \in {"load", "categorize", "summarize"} /\ UNCHANGED <<row, drafts>>
        /\ \E pc \in ProcPCs : Goto(w, pc)
    BY <1>1, <1>2 DEF Load, LoadFails, Categorize, Summarize, ProcPCs
  <2>2. QED
    BY <2>1, GotoShape DEF ProcPCs
<1>3. CASE GenerateDraft(w)
  <2>1. CASE UNCHANGED drafts
    <3>1. proc[w].pc = "draft" /\ Goto(w, "setComplete") /\ UNCHANGED <<row, drafts>>
      BY <1>3, <2>1 DEF GenerateDraft
    <3>2. QED
      BY <3>1, GotoShape DEF ProcPCs
  <2>2. CASE drafts' = [drafts EXCEPT ![Email(proc[w].job)] = Capped(@ + 1, DraftCap)]
    <3> DEFINE d == [proc[w] EXCEPT !.pc = "setComplete"]
    <3>1. proc[w].pc = "draft" /\ Goto(w, "setComplete") /\ UNCHANGED row
      BY <1>3 DEF GenerateDraft
    <3>2. proc[w] # Asleep /\ proc[w] \in [pc : ProcPCs, job : JobsOf]
      BY <3>1, Awake DEF ProcPCs
    <3>3. d \in [pc : ProcPCs, job : JobsOf] /\ d.job = proc[w].job /\ d.pc = "setComplete"
      BY <3>2 DEF ProcPCs
    <3>4. proc' = [proc EXCEPT ![w] = d]
      BY <3>1 DEF Goto, Typed, PipelineTypeOK
    <3>5. QED
      BY <2>2, <3>1, <3>2, <3>3, <3>4 DEF WorkerTo, ProcStates, Typed, PipelineTypeOK
  <2>3. QED
    BY <1>3, <2>1, <2>2 DEF GenerateDraft
<1>4. CASE UpdateStatus(w) \/ UpdateStatusFails(w)
  BY <1>4, ReportShape
<1>5. QED
  BY <1>2, <1>3, <1>4 DEF Process, ProcessFails

\* A command of Dequeue keeps the lists and the job, or drops the job, or takes
\* the oldest job of the user it picked.
DequeueTo(d) ==
  /\ d \in Q!DeqStates /\ deq[Pool] \in Q!DeqStates
  /\ deq' = [deq EXCEPT ![Pool] = d]
  /\ enq' = enq /\ meta' \in [Users -> Nat] /\ faults' \in 0 .. MaxFaults
  /\ \/ list' = list /\ d.job \in {deq[Pool].job, NoJob}
     \/ \E u \in Users :
          /\ deq[Pool].job = NoJob
          /\ list[u] # <<>> /\ list' = [list EXCEPT ![u] = Tail(@)]
          /\ d.job \in {Head(list[u]), NoJob}

\* The states of a Dequeue by where it is.
LEMMA DequeueStates ==
  ASSUME Typed
  PROVE  /\ deq \in [{Pool} -> Q!DeqStates] /\ deq[Pool] \in Q!DeqStates
         /\ deq[Pool].pc = "pop" => deq[Pool] \in [pc : {"pop"}, user : Users, job : {NoJob}]
         /\ deq[Pool].pc = "len" => deq[Pool] \in [pc : {"len"}, user : Users, job : JobsOf]
         /\ deq[Pool].pc = "rem" =>
              deq[Pool] \in [pc : {"rem"}, user : Users, job : JobsOf \union {NoJob}]
         /\ deq[Pool].pc = "return" =>
              deq[Pool] \in [pc : {"return"}, user : Users, job : JobsOf]
         /\ deq[Pool].pc = "idle" => deq[Pool].job = NoJob
<1>1. deq \in [{Pool} -> Q!DeqStates] /\ deq[Pool] \in Q!DeqStates
  BY DEF Typed, Q!TypeOK
<1>2. QED
  BY <1>1 DEF Q!DeqStates, Q!Idle

\* The command that reads the meta-queue, and its answer.
LEMMA ZRevRangeShape ==
  ASSUME Typed, Q!ZRevRange(Pool)
  PROVE  \E d : DequeueTo(d)
<1>1. CASE UNCHANGED deq
  BY <1>1, DequeueStates DEF Q!ZRevRange, DequeueTo, Typed, Q!TypeOK
<1>2. ASSUME NEW u \in Users,
             deq' = [deq EXCEPT ![Pool] = [pc |-> "pop", user |-> u, job |-> NoJob]]
      PROVE  \E d : DequeueTo(d)
  <2> DEFINE d == [pc |-> "pop", user |-> u, job |-> NoJob]
  <2>1. d \in Q!DeqStates
    BY DEF Q!DeqStates
  <2>2. DequeueTo(d)
    BY <1>2, <2>1, DequeueStates DEF Q!ZRevRange, DequeueTo, Typed, Q!TypeOK
  <2>3. QED
    BY <2>2
<1>3. QED
  BY <1>1, <1>2 DEF Q!ZRevRange

\* A failed command adds a fault.
LEMMA FaultOK ==
  ASSUME Typed
  PROVE  /\ UNCHANGED faults => faults' \in 0 .. MaxFaults
         /\ Q!Fault => faults' \in 0 .. MaxFaults
  BY QueueAssumption DEF Typed, Q!TypeOK, Q!Fault

\* RPOP, with its reply, without it and not executed.
LEMMA RPopShape ==
  ASSUME Typed, Q!RPop(Pool) \/ Q!RPopFails(Pool)
  PROVE  \E d : DequeueTo(d)
<1> DEFINE u == deq[Pool].user
<1>1. /\ deq[Pool] \in [pc : {"pop"}, user : Users, job : {NoJob}]
      /\ deq \in [{Pool} -> Q!DeqStates]
  BY DequeueStates DEF Q!RPop, Q!RPopFails
<1>2. UNCHANGED <<meta, enq>> /\ meta \in [Users -> Nat] /\ faults' \in 0 .. MaxFaults
  BY FaultOK DEF Q!RPop, Q!RPopFails, Typed, Q!TypeOK
<1>3. u \in Users /\ list \in [Users -> Seq(JobsOf)]
  BY <1>1 DEF Typed, Q!TypeOK
<1>4. CASE Q!RPop(Pool) /\ list[u] = <<>>
  <2> DEFINE d == [deq[Pool] EXCEPT !.pc = "rem"]
  <2>1. d \in Q!DeqStates /\ d.job = NoJob
    BY <1>1 DEF Q!DeqStates
  <2>2. deq' = [deq EXCEPT ![Pool] = d] /\ list' = list
    BY <1>1, <1>4 DEF Q!RPop
  <2>3. QED
    BY <1>2, <2>1, <2>2, DequeueStates DEF DequeueTo
<1>5. CASE Q!RPop(Pool) /\ list[u] # <<>>
  <2> DEFINE d == [deq[Pool] EXCEPT !.pc = "len", !.job = Head(list[u])]
  <2>1. Head(list[u]) \in JobsOf
    BY <1>3, <1>5, TailOK
  <2>2. d \in Q!DeqStates /\ d.job = Head(list[u])
    BY <1>1, <2>1 DEF Q!DeqStates
  <2>3. deq' = [deq EXCEPT ![Pool] = d] /\ list' = [list EXCEPT ![u] = Tail(@)]
    BY <1>1, <1>5 DEF Q!RPop
  <2>4. deq[Pool].job = NoJob
    BY <1>1
  <2>5. QED
    BY <1>2, <1>3, <1>5, <2>2, <2>3, <2>4, DequeueStates DEF DequeueTo
<1>6. CASE Q!RPopFails(Pool)
  <2>1. Q!Idle \in Q!DeqStates /\ Q!Idle.job = NoJob
    BY DEF Q!DeqStates, Q!Idle
  <2>2. /\ deq' = [deq EXCEPT ![Pool] = Q!Idle]
        /\ list' = list \/ (list[u] # <<>> /\ list' = [list EXCEPT ![u] = Tail(@)])
    BY <1>6 DEF Q!RPopFails
  <2>3. deq[Pool].job = NoJob
    BY <1>1
  <2>4. DequeueTo(Q!Idle)
    BY <1>2, <1>3, <2>1, <2>2, <2>3, DequeueStates DEF DequeueTo
  <2>5. QED
    BY <2>4
<1>7. QED
  BY <1>4, <1>5, <1>6

\* LLEN and ZREM, with their answers and without.
LEMMA LenRemShape ==
  ASSUME Typed,
         Q!LLen(Pool) \/ Q!LLenFails(Pool) \/ Q!ZRem(Pool) \/ Q!ZRemFails(Pool)
  PROVE  \E d : DequeueTo(d)
<1>1. deq \in [{Pool} -> Q!DeqStates] /\ deq[Pool] \in Q!DeqStates
  BY DequeueStates
<1>2. UNCHANGED <<list, enq>> /\ faults' \in 0 .. MaxFaults
  BY FaultOK DEF Q!LLen, Q!LLenFails, Q!ZRem, Q!ZRemFails
<1>3. meta' \in [Users -> Nat]
  <2>1. CASE UNCHANGED meta
    BY <2>1 DEF Typed, Q!TypeOK
  <2>2. CASE meta' = [meta EXCEPT ![deq[Pool].user] = 0]
    BY <2>2 DEF Typed, Q!TypeOK
  <2>3. QED
    BY <2>1, <2>2 DEF Q!LLen, Q!LLenFails, Q!ZRem, Q!ZRemFails
<1>4. CASE Q!LLen(Pool) \/ Q!LLenFails(Pool)
  <2>1. PICK pc \in {"rem", "return"} : deq' = [deq EXCEPT ![Pool].pc = pc]
    BY <1>4 DEF Q!LLen, Q!LLenFails
  <2>2. deq[Pool] \in [pc : {"len"}, user : Users, job : JobsOf]
    BY <1>4, DequeueStates DEF Q!LLen, Q!LLenFails
  <2> DEFINE d == [deq[Pool] EXCEPT !.pc = pc]
  <2>3. d \in Q!DeqStates /\ d.job = deq[Pool].job
    BY <2>2 DEF Q!DeqStates
  <2>4. deq' = [deq EXCEPT ![Pool] = d]
    BY <1>1, <2>1
  <2>5. DequeueTo(d)
    BY <1>1, <1>2, <1>3, <2>3, <2>4 DEF DequeueTo
  <2>6. QED
    BY <2>5
<1>5. CASE Q!ZRem(Pool) \/ Q!ZRemFails(Pool)
  <2>1. deq[Pool] \in [pc : {"rem"}, user : Users, job : JobsOf \union {NoJob}]
    BY <1>5, DequeueStates DEF Q!ZRem, Q!ZRemFails
  <2> DEFINE d == IF deq[Pool].job = NoJob THEN Q!Idle ELSE [deq[Pool] EXCEPT !.pc = "return"]
  <2>2. deq' = [deq EXCEPT ![Pool] = d]
    BY <1>1, <1>5 DEF Q!ZRem, Q!ZRemFails, Q!AfterRem
  <2>3. d \in Q!DeqStates /\ d.job = deq[Pool].job
    <3>1. CASE deq[Pool].job = NoJob
      BY <3>1 DEF Q!DeqStates, Q!Idle
    <3>2. CASE deq[Pool].job # NoJob
      BY <2>1, <3>2 DEF Q!DeqStates
    <3>3. QED
      BY <3>1, <3>2
  <2>4. DequeueTo(d)
    BY <1>1, <1>2, <1>3, <2>2, <2>3 DEF DequeueTo
  <2>5. QED
    BY <2>4
<1>6. QED
  BY <1>4, <1>5

\* Run with a slot in Dequeue.
LEMMA DequeueShape ==
  ASSUME Typed, DequeueCommand \/ DequeueFails
  PROVE  /\ \E d : DequeueTo(d)
         /\ loop = "dequeue" /\ UNCHANGED <<row, drafts, proc, cron>>
         /\ IF deq'[Pool] = Q!Idle THEN sem' = sem + 1 /\ loop' = "acquire"
                                   ELSE UNCHANGED <<sem, loop>>
  BY ZRevRangeShape, RPopShape, LenRemShape DEF DequeueCommand, DequeueFails, Dequeueing

\* The plan's priority is a score.
LEMMA ScoreOK == \A j \in JobsOf : PlanPriority[Plan(j)] \in Nat \ {0}
  BY JobParts, QueueAssumption

-------------------------------------------------------------------------------
(* The shape of the state.                                                 *)

\* A batch a query can have: emails of the user that qualify.
LEMMA BatchOK ==
  ASSUME NEW u \in Users, NEW b \in Batches(u)
  PROVE  /\ b \in Seq(Emails)
         /\ \A i \in 1 .. Len(b) : /\ b[i] \in Emails /\ Owner[b[i]] = u
                                   /\ Fresh(b[i]) \/ Stale(b[i]) \/ Retryable(b[i])
<1> DEFINE My == {e \in Emails : Owner[e] = u}
           First == {e \in My : Fresh(e) \/ Stale(e)}
           Retry == {e \in My : Retryable(e)}
           size == Capped(Cardinality(First) + Capped(Cardinality(Retry), RetryBatch), BatchSize)
<1>1. Cardinality(First) \in Nat /\ Cardinality(Retry) \in Nat
  <2>1. IsFiniteSet(First) /\ IsFiniteSet(Retry)
    BY OwnerAssumption, FS_Subset
  <2>2. QED
    BY <2>1, FS_CardinalityType
<1>2. RetryBatch \in Nat /\ BatchSize \in Nat
  BY SizesAssumption
<1> HIDE DEF First, Retry
<1>3. size \in Nat
  BY <1>1, <1>2 DEF Capped
<1>4. b \in [1 .. size -> First \union Retry]
  BY DEF Batches, First, Retry
<1> HIDE DEF size
<1>5. First \union Retry \subseteq Emails
  BY DEF First, Retry
<1>6. b \in Seq(Emails) /\ Len(b) = size
  BY <1>3, <1>4, <1>5
<1>7. \A i \in 1 .. size : b[i] \in First \union Retry
  BY <1>4
<1>8. QED
  BY <1>6, <1>7 DEF First, Retry

\* The scheduler goes on with the rest of its batch.
LEMMA EnqueuedOK ==
  ASSUME Typed, NEW u \in Users, cron[u] # NoBatch, Enqueued(u)
  PROVE  /\ cron' \in [Users -> BatchesOf \union {NoBatch}]
         /\ cron'[u] # NoBatch => cron'[u].emails # <<>>
         /\ \A v \in Users : v # u => cron'[v] = cron[v]
         /\ \A i \in 1 .. Len(cron'[u].emails) :
              /\ i + 1 \in 1 .. Len(cron[u].emails)
              /\ cron'[u].emails[i] = cron[u].emails[i + 1]
<1>1. cron[u] \in BatchesOf /\ cron[u].emails \in Seq(Emails) /\ cron[u].emails # <<>>
  BY DEF Typed, BatchesOf
<1> DEFINE d == IF Len(cron[u].emails) = 1 THEN NoBatch
                ELSE [cron[u] EXCEPT !.emails = Tail(cron[u].emails)]
<1>2. cron' = [cron EXCEPT ![u] = d]
  <2>1. CASE Len(cron[u].emails) = 1
    BY <2>1 DEF Enqueued
  <2>2. CASE Len(cron[u].emails) # 1
    BY <2>2 DEF Enqueued
  <2>3. QED
    BY <2>1, <2>2
<1>3. CASE Len(cron[u].emails) = 1
  <2>1. cron'[u] = NoBatch /\ Len(NoBatch.emails) = 0
    BY <1>2, <1>3 DEF Typed, NoBatch
  <2>2. QED
    BY <1>2, <1>3, <2>1 DEF Typed
<1>4. CASE Len(cron[u].emails) # 1
  <2>1. /\ Tail(cron[u].emails) \in Seq(Emails) /\ Tail(cron[u].emails) # <<>>
        /\ Len(Tail(cron[u].emails)) = Len(cron[u].emails) - 1
        /\ \A i \in 1 .. Len(Tail(cron[u].emails)) :
             Tail(cron[u].emails)[i] = cron[u].emails[i + 1]
        /\ Len(cron[u].emails) \in Nat
    BY <1>1, <1>4, TailOK
  <2>2. d \in BatchesOf /\ d.emails = Tail(cron[u].emails)
    BY <1>1, <1>4, <2>1 DEF BatchesOf
  <2>3. /\ cron' \in [Users -> BatchesOf \union {NoBatch}] /\ cron'[u] = d
        /\ \A v \in Users : v # u => cron'[v] = cron[v]
    BY <1>2, <2>2 DEF Typed
  <2>4. \A i \in 1 .. Len(d.emails) :
          i + 1 \in 1 .. Len(cron[u].emails) /\ d.emails[i] = cron[u].emails[i + 1]
    BY <2>1, <2>2
  <2>5. QED
    BY <2>1, <2>2, <2>3, <2>4
<1>5. QED
  BY <1>3, <1>4

\* The job a scheduler pushes is of its own user, and its list gets it last.
LEMMA PushShape ==
  ASSUME Typed, Mine, NEW u \in Users, EnqueueLPush(u)
  PROVE  \E j \in JobsOf :
           /\ Email(j) = cron[u].emails[1] /\ Owner[Email(j)] = u
           /\ list' = [list EXCEPT ![u] = Append(@, j)]
           /\ enq' = [enq EXCEPT ![u] = j]
           /\ list[u] \in Seq(JobsOf)
<1> DEFINE j == <<Head(cron[u].emails), cron[u].plan>>
<1>1. /\ cron[u] # NoBatch /\ cron[u] \in BatchesOf
      /\ cron[u].emails \in Seq(Emails) /\ cron[u].emails # <<>>
  BY DEF EnqueueLPush, Typed, BatchesOf
<1>2. Head(cron[u].emails) = cron[u].emails[1] /\ cron[u].emails[1] \in Emails
      /\ 1 \in 1 .. Len(cron[u].emails)
  BY <1>1, TailOK
<1>3. j \in JobsOf /\ Email(j) = cron[u].emails[1]
  BY <1>1, <1>2, JobParts DEF BatchesOf
<1>4. Owner[Email(j)] = u
  BY <1>2, <1>3 DEF Mine
<1>5. [k \in JobsOf |-> Owner[Email(k)]][j] = u
  BY <1>3, <1>4, Zenon
<1> HIDE DEF j
<1>6. list' = [list EXCEPT ![u] = Append(@, j)] /\ enq' = [enq EXCEPT ![u] = j]
  BY <1>5, Zenon DEF EnqueueLPush, Q!LPush, j
<1>7. QED
  BY <1>3, <1>4, <1>6 DEF Typed, Q!TypeOK

\* The steps of the schedulers keep the shape.
LEMMA CronTyped ==
  ASSUME Typed, Mine, NEW u \in Users, Cron(u) \/ EnqueueFails(u)
  PROVE  Typed'
<1> USE DEF Typed, PipelineTypeOK, Q!TypeOK
<1>1. CASE Select(u)
  <2>1. PICK b \in Batches(u), p \in Plans :
          b # <<>> /\ cron' = [cron EXCEPT ![u] = [emails |-> b, plan |-> p]]
    BY <1>1 DEF Select
  <2>2. [emails |-> b, plan |-> p] \in BatchesOf
    BY BatchOK DEF BatchesOf
  <2>3. /\ cron' \in [Users -> BatchesOf \union {NoBatch}]
        /\ cron'[u].emails = b /\ cron'[u] # NoBatch
        /\ \A v \in Users : v # u => cron'[v] = cron[v]
    BY <2>1, <2>2 DEF NoBatch
  <2>4. UNCHANGED <<row, drafts, proc, list, meta, enq, deq, faults, sem, loop>>
    BY <1>1 DEF Select, queue
  <2>5. QED
    BY <2>1, <2>3, <2>4
<1>2. CASE EnqueueLPush(u)
  <2>1. PICK j \in JobsOf :
          /\ Owner[Email(j)] = u
          /\ list' = [list EXCEPT ![u] = Append(@, j)]
          /\ enq' = [enq EXCEPT ![u] = j] /\ list[u] \in Seq(JobsOf)
    BY <1>2, PushShape
  <2>2. list' \in [Users -> Seq(JobsOf)]
    BY <2>1, AppendProperties
  <2>3. enq' \in [Users -> JobsOf \union {NoJob}]
    BY <2>1, SMTT(20)
  <2>4. UNCHANGED <<row, drafts, proc, meta, deq, faults, sem, loop, cron>> /\ cron[u] # NoBatch
    BY <1>2 DEF EnqueueLPush, Q!LPush
  <2>5. \A v \in Users : enq'[v] # NoJob => cron'[v] # NoBatch
    BY <2>1, <2>4
  <2>6. QED
    BY <2>2, <2>3, <2>4, <2>5
<1>3. CASE EnqueueSaturated(u)
  <2> DEFINE j == <<Head(cron[u].emails), cron[u].plan>>
  <2>1. cron[u] \in BatchesOf /\ cron[u].emails \in Seq(Emails) /\ cron[u].emails # <<>>
    BY <1>3 DEF EnqueueSaturated, BatchesOf
  <2>2. Head(cron[u].emails) \in Emails
    BY <2>1, TailOK
  <2>3. j \in JobsOf
    BY <2>1, <2>2, JobParts DEF BatchesOf
  <2> HIDE DEF j
  <2>4. enq' = [enq EXCEPT ![u] = j] /\ cron[u] # NoBatch
        /\ UNCHANGED <<row, drafts, proc, list, meta, deq, faults, sem, loop, cron>>
    BY <1>3 DEF EnqueueSaturated, j
  <2>5. \A v \in Users : enq'[v] # NoJob => cron'[v] # NoBatch
    BY <2>4
  <2>6. QED
    BY <2>3, <2>4, <2>5
<1>4. CASE EnqueueZAdd(u) \/ EnqueueFails(u)
  <2>1. enq[u] # NoJob /\ Enqueued(u) /\ enq' = [enq EXCEPT ![u] = NoJob]
        /\ UNCHANGED <<row, drafts, proc, list, deq, sem, loop>>
    BY <1>4 DEF EnqueueZAdd, EnqueueFails, Q!ZAdd, Q!EnqueueFails
  <2>2. enq[u] \in JobsOf /\ cron[u] # NoBatch
    BY <2>1
  <2>3. /\ cron' \in [Users -> BatchesOf \union {NoBatch}]
        /\ cron'[u] # NoBatch => cron'[u].emails # <<>>
        /\ \A v \in Users : v # u => cron'[v] = cron[v]
    BY <2>1, <2>2, EnqueuedOK
  <2>4. \A v \in Users : enq'[v] # NoJob => cron'[v] # NoBatch
    BY <2>1, <2>3
  <2>5. \A v \in Users : cron'[v] # NoBatch => cron'[v].emails # <<>>
    BY <2>3
  <2>6. faults' \in 0 .. MaxFaults
    BY <1>4, FaultOK DEF EnqueueZAdd, EnqueueFails, Q!ZAdd, Q!EnqueueFails
  <2>7. meta' \in [Users -> Nat]
    <3>1. CASE UNCHANGED meta
      BY <3>1
    <3>2. CASE EnqueueZAdd(u)
      <4>1. [k \in JobsOf |-> PlanPriority[Plan(k)]][enq[u]] \in Nat
        BY <2>2, ScoreOK
      <4>2. QED
        BY <3>2, <4>1 DEF EnqueueZAdd, Q!ZAdd
    <3>3. QED
      BY <1>4, <3>1, <3>2 DEF EnqueueFails, Q!EnqueueFails
  <2>8. QED
    BY <2>1, <2>3, <2>4, <2>5, <2>6, <2>7
<1>5. QED
  BY <1>1, <1>2, <1>3, <1>4 DEF Cron

\* Run hands the job it has to a worker that sleeps, and the slot with it.
LEMMA StartShape ==
  ASSUME Typed, NEW w \in Workers, StartWorker(w)
  PROVE  LET d == [pc |-> "load", job |-> deq[Pool].job]
         IN  /\ loop = "dequeue" /\ loop' = "acquire" /\ sem' = sem
             /\ proc[w] = Asleep /\ deq[Pool].job \in JobsOf
             /\ d \in ProcStates /\ d # Asleep /\ proc' = [proc EXCEPT ![w] = d]
             /\ Q!Idle \in Q!DeqStates /\ deq' = [deq EXCEPT ![Pool] = Q!Idle]
             /\ UNCHANGED <<row, drafts, cron, list, meta, enq, faults>>
<1>1. deq[Pool].job \in JobsOf
  BY DequeueStates DEF StartWorker
<1>2. [pc |-> "load", job |-> deq[Pool].job] \in ProcStates
      /\ [pc |-> "load", job |-> deq[Pool].job] # Asleep
  BY <1>1 DEF ProcStates, ProcPCs, Asleep
<1>3. QED
  BY <1>1, <1>2 DEF StartWorker, Start, HandOver, Q!Return, Q!DeqStates, Q!Idle

\* A worker's step, done or failed, and what it leaves to the others.
LEMMA WorkShape ==
  ASSUME Typed, NEW w \in Workers, Work(w) \/ WorkFails(w)
  PROVE  /\ \E d : WorkerTo(w, d)
         /\ Returned(w) /\ UNCHANGED <<list, meta, enq, deq, loop, cron>>
         /\ faults' \in 0 .. MaxFaults
  BY WorkerShape, FaultOK DEF Work, WorkFails, queue

\* The cap of the drafts.
LEMMA CappedOK == ASSUME NEW n \in Nat PROVE Capped(n, DraftCap) \in 0 .. DraftCap /\ Capped(n, DraftCap) <= n
  BY CapsAssumption DEF Capped

\* Every step keeps the shape of the state.
LEMMA TypedStep == Typed /\ Mine /\ [Next]_vars /\ sem' \in Nat => Typed'
<1> SUFFICES ASSUME Typed, Mine, [Next]_vars, sem' \in Nat PROVE Typed'
  OBVIOUS
<1> USE DEF Typed, PipelineTypeOK, Q!TypeOK
<1>1. ASSUME NEW u \in Users, Cron(u) \/ EnqueueFails(u) PROVE Typed'
  BY <1>1, CronTyped
<1>2. CASE Acquire
  BY <1>2 DEF Acquire, queue
<1>3. CASE DequeueCommand \/ DequeueFails
  <2>1. PICK d : DequeueTo(d)
    BY <1>3, DequeueShape
  <2>2. UNCHANGED <<row, drafts, proc, cron>> /\ loop' \in {"acquire", "dequeue"}
    BY <1>3, DequeueShape
  <2>3. list' \in [Users -> Seq(JobsOf)]
    <3>1. CASE list' = list
      BY <3>1
    <3>2. ASSUME NEW u \in Users, list[u] # <<>>, list' = [list EXCEPT ![u] = Tail(@)]
          PROVE  list' \in [Users -> Seq(JobsOf)]
      <4>1. Tail(list[u]) \in Seq(JobsOf)
        BY <3>2, TailOK
      <4>2. QED
        BY <3>2, <4>1
    <3>3. QED
      BY <2>1, <3>1, <3>2 DEF DequeueTo
  <2>4. enq' = enq /\ meta' \in [Users -> Nat] /\ faults' \in 0 .. MaxFaults
        /\ deq' \in [{Pool} -> Q!DeqStates]
    BY <2>1 DEF DequeueTo
  <2>5. QED
    BY <2>2, <2>3, <2>4
<1>4. ASSUME NEW w \in Workers, StartWorker(w) PROVE Typed'
  <2> DEFINE d == [pc |-> "load", job |-> deq[Pool].job]
  <2>1. /\ loop' = "acquire" /\ d \in ProcStates /\ proc' = [proc EXCEPT ![w] = d]
        /\ Q!Idle \in Q!DeqStates /\ deq' = [deq EXCEPT ![Pool] = Q!Idle]
        /\ UNCHANGED <<row, drafts, cron, list, meta, enq, faults>>
    BY <1>4, StartShape
  <2> HIDE DEF d
  <2>2. proc' \in [Workers -> ProcStates] /\ deq' \in [{Pool} -> Q!DeqStates]
    BY <2>1
  <2>3. QED
    BY <2>1, <2>2
<1>5. ASSUME NEW w \in Workers, Work(w) \/ WorkFails(w) PROVE Typed'
  <2>1. PICK d : WorkerTo(w, d)
    BY <1>5, WorkShape
  <2>2. UNCHANGED <<list, meta, enq, deq, loop, cron>> /\ faults' \in 0 .. MaxFaults
    BY <1>5, WorkShape
  <2>3. row' \in [Emails -> Rows] /\ proc' \in [Workers -> ProcStates]
    BY <2>1 DEF WorkerTo
  <2>4. drafts' \in [Emails -> 0 .. DraftCap]
    <3>1. CASE drafts' = drafts
      BY <3>1
    <3>2. CASE drafts' = [drafts EXCEPT ![Email(proc[w].job)] = Capped(@ + 1, DraftCap)]
      <4>1. Email(proc[w].job) \in Emails
        BY <2>1, JobParts DEF WorkerTo
      <4>2. Capped(drafts[Email(proc[w].job)] + 1, DraftCap) \in 0 .. DraftCap
        <5>1. drafts[Email(proc[w].job)] + 1 \in Nat
          BY <4>1, CapsAssumption
        <5>2. QED
          BY <5>1, CappedOK
      <4>3. QED
        BY <3>2, <4>2
    <3>3. QED
      BY <2>1, <3>1, <3>2 DEF WorkerTo
  <2>5. QED
    BY <2>2, <2>3, <2>4
<1>6. CASE Clock
  <2>1. row' \in [Emails -> Rows] /\ UNCHANGED <<drafts, proc>>
    <3>1. PICK e \in Emails : AgeStart(e) \/ AgeError(e)
      BY <1>6 DEF Clock
    <3>2. row[e] \in Rows
      OBVIOUS
    <3>3. [row[e] EXCEPT !.stale = TRUE] \in Rows /\ [row[e] EXCEPT !.rested = TRUE] \in Rows
      BY <3>2 DEF Rows
    <3>4. \/ row' = [row EXCEPT ![e] = [row[e] EXCEPT !.stale = TRUE]]
          \/ row' = [row EXCEPT ![e] = [row[e] EXCEPT !.rested = TRUE]]
      BY <3>1 DEF AgeStart, AgeError
    <3>5. QED
      BY <3>1, <3>3, <3>4 DEF AgeStart, AgeError
  <2>2. QED
    BY <1>6, <2>1 DEF Clock, queue
<1>7. CASE Crash
  <2>1. faults' \in 0 .. MaxFaults
    BY <1>7, FaultOK DEF Crash, Q!Crash
  <2>2. Asleep \in ProcStates /\ Q!Idle \in Q!DeqStates
    BY DEF ProcStates, Q!DeqStates
  <2>3. QED
    BY <1>7, <2>1, <2>2 DEF Crash, Q!Crash
<1>8. CASE UNCHANGED vars
  BY <1>8 DEF vars, queue
<1>9. QED
  BY <1>1, <1>2, <1>3, <1>4, <1>5, <1>6, <1>7, <1>8 DEF Next, Run

-------------------------------------------------------------------------------
(* The jobs of a list are those of the user.                               *)

\* The rest of a user's list is the user's.
LEMMA TailMine ==
  ASSUME Typed, Mine, NEW u \in Users, list[u] # <<>>,
         list' = [list EXCEPT ![u] = Tail(@)]
  PROVE  \A v \in Users : \A i \in 1 .. Len(list'[v]) : Owner[Email(list'[v][i])] = v
<1>1. list \in [Users -> Seq(JobsOf)]
  BY DEF Typed, Q!TypeOK
<1>2. /\ Len(Tail(list[u])) = Len(list[u]) - 1 /\ Len(list[u]) \in Nat
      /\ \A i \in 1 .. Len(Tail(list[u])) : Tail(list[u])[i] = list[u][i + 1]
  BY <1>1, TailOK
<1>3. \A i \in 1 .. Len(Tail(list[u])) : i + 1 \in 1 .. Len(list[u])
  BY <1>2
<1>4. \A i \in 1 .. Len(Tail(list[u])) : Owner[Email(Tail(list[u])[i])] = u
  <2>1. TAKE i \in 1 .. Len(Tail(list[u]))
  <2>2. Tail(list[u])[i] = list[u][i + 1]
    BY <1>2
  <2>3. Owner[Email(list[u][i + 1])] = u
    BY <1>3 DEF Mine
  <2>4. QED
    BY <2>2, <2>3
<1>5. list'[u] = Tail(list[u]) /\ \A v \in Users : v # u => list'[v] = list[v]
  BY <1>1
<1>6. TAKE v \in Users
<1>7. CASE v = u
  BY <1>4, <1>5, <1>7
<1>8. CASE v # u
  BY <1>5, <1>8 DEF Mine
<1>9. QED
  BY <1>7, <1>8

\* A user's list with a job of the user at its end is the user's.
LEMMA AppendMine ==
  ASSUME Typed, Mine, NEW u \in Users, NEW j \in JobsOf, Owner[Email(j)] = u,
         list' = [list EXCEPT ![u] = Append(@, j)]
  PROVE  \A v \in Users : \A i \in 1 .. Len(list'[v]) : Owner[Email(list'[v][i])] = v
<1>1. list \in [Users -> Seq(JobsOf)] /\ list[u] \in Seq(JobsOf)
  BY DEF Typed, Q!TypeOK
<1> DEFINE n == Len(list[u])
<1>2. /\ Len(Append(list[u], j)) = n + 1 /\ n \in Nat
      /\ Append(list[u], j)[n + 1] = j
      /\ \A i \in 1 .. n : Append(list[u], j)[i] = list[u][i]
  BY <1>1, AppendProperties
<1>3. \A i \in 1 .. n + 1 : i \in 1 .. n \/ i = n + 1
  BY <1>2
<1>4. \A i \in 1 .. n + 1 : Owner[Email(Append(list[u], j)[i])] = u
  <2>1. TAKE i \in 1 .. n + 1
  <2>2. CASE i \in 1 .. n
    <3>1. Owner[Email(list[u][i])] = u
      BY <2>2 DEF Mine
    <3>2. QED
      BY <1>2, <2>2, <3>1
  <2>3. CASE i = n + 1
    BY <1>2, <2>3
  <2>4. QED
    BY <1>3, <2>2, <2>3
<1>5. list'[u] = Append(list[u], j) /\ \A v \in Users : v # u => list'[v] = list[v]
  BY <1>1
<1>6. TAKE v \in Users
<1>7. CASE v = u
  BY <1>2, <1>4, <1>5, <1>7
<1>8. CASE v # u
  BY <1>5, <1>8 DEF Mine
<1>9. QED
  BY <1>7, <1>8

\* A scheduler that goes on has only emails of its user.
LEMMA BatchMine ==
  ASSUME Typed, Mine, NEW u \in Users, cron[u] # NoBatch, Enqueued(u)
  PROVE  \A v \in Users : \A i \in 1 .. Len(cron'[v].emails) : Owner[cron'[v].emails[i]] = v
<1>1. /\ \A v \in Users : v # u => cron'[v] = cron[v]
      /\ \A i \in 1 .. Len(cron'[u].emails) :
           /\ i + 1 \in 1 .. Len(cron[u].emails)
           /\ cron'[u].emails[i] = cron[u].emails[i + 1]
  BY EnqueuedOK
<1>2. \A i \in 1 .. Len(cron'[u].emails) : Owner[cron'[u].emails[i]] = u
  <2>1. TAKE i \in 1 .. Len(cron'[u].emails)
  <2>2. Owner[cron[u].emails[i + 1]] = u
    BY <1>1 DEF Mine
  <2>3. QED
    BY <1>1, <2>2
<1>3. TAKE v \in Users
<1>4. CASE v = u
  BY <1>2, <1>4
<1>5. CASE v # u
  BY <1>1, <1>5 DEF Mine
<1>6. QED
  BY <1>4, <1>5

\* No step mixes the emails of two users.
LEMMA MineStep == Typed /\ Mine /\ [Next]_vars => Mine'
<1> SUFFICES ASSUME Typed, Mine, [Next]_vars PROVE Mine'
  OBVIOUS
<1>0. ASSUME list' = list, cron' = cron PROVE Mine'
  BY <1>0 DEF Mine
<1>1. ASSUME NEW u \in Users, Cron(u) \/ EnqueueFails(u) PROVE Mine'
  <2>1. CASE Select(u)
    <3>1. PICK b \in Batches(u), p \in Plans :
            cron' = [cron EXCEPT ![u] = [emails |-> b, plan |-> p]]
      BY <2>1 DEF Select
    <3>2. \A i \in 1 .. Len(b) : Owner[b[i]] = u
      BY BatchOK
    <3>3. cron'[u].emails = b /\ \A v \in Users : v # u => cron'[v] = cron[v]
      BY <3>1 DEF Typed
    <3>4. list' = list
      BY <2>1 DEF Select, queue
    <3>5. ASSUME NEW v \in Users PROVE \A i \in 1 .. Len(cron'[v].emails) : Owner[cron'[v].emails[i]] = v
      <4>1. CASE v = u
        BY <3>2, <3>3, <4>1
      <4>2. CASE v # u
        BY <3>3, <4>2 DEF Mine
      <4>3. QED
        BY <4>1, <4>2
    <3>6. QED
      BY <3>4, <3>5 DEF Mine
  <2>2. CASE EnqueueLPush(u)
    <3>1. PICK j \in JobsOf : Owner[Email(j)] = u /\ list' = [list EXCEPT ![u] = Append(@, j)]
      BY <2>2, PushShape
    <3>2. cron' = cron
      BY <2>2 DEF EnqueueLPush
    <3>3. \A v \in Users : \A i \in 1 .. Len(list'[v]) : Owner[Email(list'[v][i])] = v
      BY <3>1, AppendMine
    <3>4. QED
      BY <3>2, <3>3 DEF Mine
  <2>3. CASE EnqueueSaturated(u)
    BY <1>0, <2>3 DEF EnqueueSaturated
  <2>4. CASE EnqueueZAdd(u) \/ EnqueueFails(u)
    <3>1. enq[u] # NoJob /\ Enqueued(u) /\ list' = list
      BY <2>4 DEF EnqueueZAdd, EnqueueFails, Q!ZAdd, Q!EnqueueFails
    <3>2. cron[u] # NoBatch
      BY <3>1 DEF Typed
    <3>3. \A v \in Users : \A i \in 1 .. Len(cron'[v].emails) : Owner[cron'[v].emails[i]] = v
      BY <3>1, <3>2, BatchMine
    <3>4. QED
      BY <3>1, <3>3 DEF Mine
  <2>5. QED
    BY <1>1, <2>1, <2>2, <2>3, <2>4 DEF Cron
<1>2. CASE Acquire
  BY <1>0, <1>2 DEF Acquire, queue
<1>3. CASE DequeueCommand \/ DequeueFails
  <2>1. PICK d : DequeueTo(d)
    BY <1>3, DequeueShape
  <2>2. cron' = cron
    BY <1>3, DequeueShape
  <2>3. ASSUME NEW u \in Users, list[u] # <<>>, list' = [list EXCEPT ![u] = Tail(@)]
        PROVE  Mine'
    <3>1. \A v \in Users : \A i \in 1 .. Len(list'[v]) : Owner[Email(list'[v][i])] = v
      BY <2>3, TailMine
    <3>2. QED
      BY <2>2, <3>1 DEF Mine
  <2>4. QED
    BY <1>0, <2>1, <2>2, <2>3 DEF DequeueTo
<1>4. ASSUME NEW w \in Workers, StartWorker(w) PROVE Mine'
  <2>1. list' = list /\ cron' = cron
    BY <1>4, StartShape
  <2>2. QED
    BY <1>0, <2>1
<1>5. ASSUME NEW w \in Workers, Work(w) \/ WorkFails(w) PROVE Mine'
  <2>1. list' = list /\ cron' = cron
    BY <1>5, WorkShape
  <2>2. QED
    BY <1>0, <2>1
<1>6. CASE Clock
  BY <1>0, <1>6 DEF Clock, queue
<1>7. CASE Crash
  <2>1. list' = list /\ cron' = [u \in Users |-> NoBatch] /\ Len(NoBatch.emails) = 0
    BY <1>7 DEF Crash, Q!Crash, NoBatch
  <2>2. QED
    BY <2>1 DEF Mine
<1>8. CASE UNCHANGED vars
  BY <1>0, <1>8 DEF vars, queue
<1>9. QED
  BY <1>1, <1>2, <1>3, <1>4, <1>5, <1>6, <1>7, <1>8 DEF Next, Run

-------------------------------------------------------------------------------
(* The slots.                                                              *)

\* A worker that gets a state is busy, unless the state is that of a sleeper.
LEMMA BusyShape ==
  ASSUME Typed, NEW w \in Workers, NEW d, proc' = [proc EXCEPT ![w] = d]
  PROVE  /\ d # Asleep => Busy' = Busy \union {w}
         /\ d = Asleep => Busy' = Busy \ {w}
         /\ w \in Busy <=> proc[w] # Asleep
<1>1. proc'[w] = d /\ \A v \in Workers : v # w => proc'[v] = proc[v]
  BY DEF Typed, PipelineTypeOK
<1>2. QED
  BY <1>1 DEF Busy

\* The sizes of a finite set with one worker more and with one less.
LEMMA BusyCard ==
  ASSUME NEW S, IsFiniteSet(S), NEW w
  PROVE  /\ Cardinality(S) \in Nat
         /\ IsFiniteSet(S \union {w}) /\ IsFiniteSet(S \ {w})
         /\ w \in S => S \union {w} = S /\ Cardinality(S \ {w}) = Cardinality(S) - 1
         /\ w \notin S => Cardinality(S \union {w}) = Cardinality(S) + 1
<1>1. Cardinality(S) \in Nat
  BY FS_CardinalityType
<1>2. IsFiniteSet(S \union {w}) /\ (w \notin S => Cardinality(S \union {w}) = Cardinality(S) + 1)
  BY FS_AddElement
<1>3. IsFiniteSet(S \ {w}) /\ (w \in S => Cardinality(S \ {w}) = Cardinality(S) - 1)
  BY FS_RemoveElement
<1>4. w \in S => S \union {w} = S
  OBVIOUS
<1>5. QED
  BY <1>1, <1>2, <1>3, <1>4

\* A slot accounted for leaves a count of free ones.
LEMMA SemOK ==
  ASSUME Typed, Slots
  PROVE  /\ sem \in 0 .. Capacity /\ Cardinality(Busy) \in Nat
         /\ loop = "dequeue" => sem + Cardinality(Busy) + 1 = Capacity
         /\ loop = "acquire" => sem + Cardinality(Busy) = Capacity
<1>1. Cardinality(Busy) \in Nat
  BY FS_CardinalityType DEF Slots
<1>2. sem \in Nat /\ Capacity \in Nat
  BY SizesAssumption DEF Typed
<1>3. QED
  BY <1>1, <1>2 DEF Slots, SlotsAccounted, Typed

\* Whoever has a slot hands it on or gives it back.
LEMMA SlotsStep == Typed /\ Mine /\ Slots /\ [Next]_vars => Slots' /\ sem' \in Nat
<1> SUFFICES ASSUME Typed, Mine, Slots, [Next]_vars PROVE Slots' /\ sem' \in Nat
  OBVIOUS
<1>a. /\ sem \in Nat /\ Capacity \in Nat /\ Cardinality(Busy) \in Nat /\ IsFiniteSet(Busy)
      /\ loop = "dequeue" => sem + Cardinality(Busy) + 1 = Capacity
      /\ loop = "acquire" => sem + Cardinality(Busy) = Capacity
      /\ loop \in {"acquire", "dequeue"}
  BY SemOK, SizesAssumption DEF Slots, Typed
<1>b. ASSUME proc' = proc PROVE Busy' = Busy
  BY <1>b DEF Busy
<1>0. ASSUME UNCHANGED <<proc, sem, loop>> PROVE Slots' /\ sem' \in Nat
  <2>1. Busy' = Busy
    BY <1>0, <1>b
  <2>2. QED
    BY <1>a, <1>0, <2>1 DEF Slots, SlotsAccounted
<1>1. ASSUME NEW u \in Users, Cron(u) \/ EnqueueFails(u) PROVE Slots' /\ sem' \in Nat
  BY <1>0, <1>1
     DEF Cron, Select, EnqueueLPush, EnqueueSaturated, EnqueueZAdd, EnqueueFails
<1>2. CASE Acquire
  <2>1. loop = "acquire" /\ sem' = sem - 1 /\ sem > 0 /\ loop' = "dequeue" /\ proc' = proc
    BY <1>2 DEF Acquire
  <2>2. Busy' = Busy
    BY <1>b, <2>1
  <2>3. sem' \in Nat /\ sem' + Cardinality(Busy) + 1 = Capacity
    BY <1>a, <2>1
  <2>4. QED
    BY <1>a, <2>1, <2>2, <2>3 DEF Slots, SlotsAccounted
<1>3. CASE DequeueCommand \/ DequeueFails
  <2>1. /\ loop = "dequeue" /\ proc' = proc
        /\ IF deq'[Pool] = Q!Idle THEN sem' = sem + 1 /\ loop' = "acquire"
                                  ELSE UNCHANGED <<sem, loop>>
    BY <1>3, DequeueShape
  <2>2. CASE UNCHANGED <<sem, loop>>
    BY <1>0, <2>1, <2>2
  <2>3. CASE sem' = sem + 1 /\ loop' = "acquire"
    <3>1. Busy' = Busy
      BY <1>b, <2>1
    <3>2. sem' \in Nat /\ sem' + Cardinality(Busy) + 0 = Capacity
      BY <1>a, <2>1, <2>3
    <3>3. QED
      BY <1>a, <2>3, <3>1, <3>2 DEF Slots, SlotsAccounted
  <2>4. QED
    BY <2>1, <2>2, <2>3
<1>4. ASSUME NEW w \in Workers, StartWorker(w) PROVE Slots' /\ sem' \in Nat
  <2> DEFINE d == [pc |-> "load", job |-> deq[Pool].job]
  <2>1. /\ loop = "dequeue" /\ loop' = "acquire" /\ sem' = sem
        /\ proc[w] = Asleep /\ d # Asleep /\ proc' = [proc EXCEPT ![w] = d]
    BY <1>4, StartShape
  <2> HIDE DEF d
  <2>2. Busy' = Busy \union {w} /\ w \notin Busy
    BY <2>1, BusyShape
  <2>3. IsFiniteSet(Busy') /\ Cardinality(Busy') = Cardinality(Busy) + 1
    BY <1>a, <2>2, BusyCard
  <2>4. sem' \in Nat /\ sem' + Cardinality(Busy') + 0 = Capacity
    BY <1>a, <2>1, <2>3
  <2>5. QED
    BY <2>1, <2>3, <2>4 DEF Slots, SlotsAccounted
<1>5. ASSUME NEW w \in Workers, Work(w) \/ WorkFails(w) PROVE Slots' /\ sem' \in Nat
  <2>1. PICK d : WorkerTo(w, d)
    BY <1>5, WorkShape
  <2>2. Returned(w) /\ loop' = loop
    BY <1>5, WorkShape
  <2>3. proc' = [proc EXCEPT ![w] = d] /\ w \in Busy /\ proc'[w] = d
    BY <2>1, BusyShape DEF WorkerTo, Typed, PipelineTypeOK
  <2>4. CASE d = Asleep
    <3>1. Busy' = Busy \ {w} /\ sem' = sem + 1
      BY <2>2, <2>3, <2>4, BusyShape DEF Returned
    <3>2. IsFiniteSet(Busy') /\ Cardinality(Busy') = Cardinality(Busy) - 1
      BY <1>a, <2>3, <3>1, BusyCard
    <3>3. sem' \in Nat /\ sem' + Cardinality(Busy') = sem + Cardinality(Busy)
      BY <1>a, <3>1, <3>2
    <3>4. Cardinality(Busy') \in Nat
      BY <3>2, FS_CardinalityType
    <3>5. QED
      BY <1>a, <2>2, <3>2, <3>3, <3>4 DEF Slots, SlotsAccounted
  <2>5. CASE d # Asleep
    <3>1. Busy' = Busy /\ sem' = sem
      <4>1. Busy' = Busy \union {w}
        BY <2>3, <2>5, BusyShape
      <4>2. QED
        BY <2>2, <2>3, <2>5, <4>1 DEF Returned
    <3>2. QED
      BY <1>a, <2>2, <3>1 DEF Slots, SlotsAccounted
  <2>6. QED
    BY <2>4, <2>5
<1>6. CASE Clock
  BY <1>0, <1>6 DEF Clock, AgeStart, AgeError
<1>7. CASE Crash
  <2>1. Busy' = {} /\ sem' = Capacity /\ loop' = "acquire"
    BY <1>7 DEF Crash, Busy
  <2>2. IsFiniteSet({}) /\ Cardinality({}) = 0
    BY FS_EmptySet
  <2>3. QED
    BY <1>a, <2>1, <2>2 DEF Slots, SlotsAccounted
<1>8. CASE UNCHANGED vars
  BY <1>0, <1>8 DEF vars
<1>9. QED
  BY <1>1, <1>2, <1>3, <1>4, <1>5, <1>6, <1>7, <1>8 DEF Next, Run

\* The invariant holds initially.
LEMMA InvInit == Init => Inv
<1> SUFFICES ASSUME Init PROVE Inv
  OBVIOUS
<1>1. PipelineTypeOK
  BY CapsAssumption
     DEF Init, PipelineInit, PipelineTypeOK, ProcStates, Rows, Stages, NoRow
<1>2. Q!TypeOK
  <2>1. list = [u \in Users |-> <<>>] /\ <<>> \in Seq(JobsOf)
    BY DEF Init, Q!Init
  <2>2. deq = [p \in {Pool} |-> Q!Idle] /\ Q!Idle \in Q!DeqStates
    BY DEF Init, Q!Init, Q!DeqStates
  <2>3. QED
    BY <2>1, <2>2, QueueAssumption DEF Init, Q!Init, Q!TypeOK
<1>3. Typed
  BY <1>1, <1>2, SizesAssumption DEF Init, Q!Init, Typed
<1>4. Mine
  <2>1. Len(NoBatch.emails) = 0
    BY DEF NoBatch
  <2>2. QED
    BY <2>1 DEF Init, Q!Init, Mine
<1>5. Slots
  <2>1. Busy = {} /\ IsFiniteSet({}) /\ Cardinality({}) = 0
    BY FS_EmptySet DEF Init, PipelineInit, Busy
  <2>2. sem = Capacity /\ loop = "acquire" /\ Capacity \in Nat
    BY SizesAssumption DEF Init
  <2>3. QED
    BY <2>1, <2>2 DEF Slots, SlotsAccounted
<1>6. QED
  BY <1>3, <1>4, <1>5 DEF Inv

\* The invariant is kept.
LEMMA InvStep == Inv /\ [Next]_vars => Inv'
  BY TypedStep, MineStep, SlotsStep DEF Inv

\* The invariant gives the shape of the state and the account of the slots.
LEMMA InvImplies == Inv => TypeOK /\ SlotsAccounted
<1> SUFFICES ASSUME Inv PROVE TypeOK /\ SlotsAccounted
  OBVIOUS
<1>1. sem \in 0 .. Capacity
  BY SemOK DEF Inv
<1>2. \A u \in Users : cron[u] = NoBatch \/
        (cron[u].emails \in Seq(Emails) /\ cron[u].plan \in Plans)
  BY DEF Inv, Typed, BatchesOf
<1>3. QED
  BY <1>1, <1>2 DEF Inv, Typed, TypeOK, Slots

-------------------------------------------------------------------------------
(* The copies of an email.                                                 *)

\* Where a list holds e.
Copies(q, e) == {i \in 1 .. Len(q) : Email(q[i]) = e}

\* What a list with e at that place adds to the count.
One(is) == IF is THEN 1 ELSE 0

\* A worker in this state may still draft e.
MayDraft(s, e) == s # Asleep /\ Email(s.job) = e /\ s.pc \notin {"setComplete", "setError"}

\* The copies in a list are finitely many.
LEMMA CopiesFinite ==
  ASSUME NEW q \in Seq(JobsOf), NEW e
  PROVE  /\ IsFiniteSet(Copies(q, e)) /\ Cardinality(Copies(q, e)) \in Nat
         /\ Copies(q, e) = {i \in DOMAIN q : Email(q[i]) = e}
<1>1. Len(q) \in Nat /\ DOMAIN q = 1 .. Len(q)
  OBVIOUS
<1>2. IsFiniteSet(1 .. Len(q)) /\ Copies(q, e) \subseteq 1 .. Len(q)
  BY <1>1, FS_Interval DEF Copies
<1>3. IsFiniteSet(Copies(q, e))
  BY <1>2, FS_Subset
<1>4. QED
  BY <1>1, <1>3, FS_CardinalityType DEF Copies

\* A job at the end of a list is one copy of its email.
LEMMA CopiesAppend ==
  ASSUME NEW q \in Seq(JobsOf), NEW j \in JobsOf, NEW e
  PROVE  Cardinality(Copies(Append(q, j), e)) = Cardinality(Copies(q, e)) + One(Email(j) = e)
<1> DEFINE n == Len(q)
<1>1. /\ n \in Nat /\ Len(Append(q, j)) = n + 1 /\ Append(q, j)[n + 1] = j
      /\ \A i \in 1 .. n : Append(q, j)[i] = q[i]
  BY AppendProperties
<1>2. 1 .. n + 1 = (1 .. n) \union {n + 1} /\ n + 1 \notin 1 .. n
  BY <1>1
<1> HIDE DEF n
<1>3. /\ Email(j) = e => Copies(Append(q, j), e) = Copies(q, e) \union {n + 1}
      /\ Email(j) # e => Copies(Append(q, j), e) = Copies(q, e)
      /\ n + 1 \notin Copies(q, e)
  <2>1. Copies(q, e) = {i \in 1 .. n : Email(q[i]) = e}
    BY DEF Copies, n
  <2>2. Copies(Append(q, j), e) = {i \in (1 .. n) \union {n + 1} : Email(Append(q, j)[i]) = e}
    BY <1>1, <1>2 DEF Copies
  <2>3. {i \in (1 .. n) \union {n + 1} : Email(Append(q, j)[i]) = e}
          = {i \in 1 .. n : Email(q[i]) = e} \union {i \in {n + 1} : Email(j) = e}
    BY <1>1
  <2>4. QED
    BY <1>2, <2>1, <2>2, <2>3
<1>4. IsFiniteSet(Copies(q, e)) /\ Cardinality(Copies(q, e)) \in Nat
  BY CopiesFinite
<1>5. CASE Email(j) = e
  <2>1. Cardinality(Copies(q, e) \union {n + 1}) = Cardinality(Copies(q, e)) + 1
    BY <1>3, <1>4, FS_AddElement
  <2>2. QED
    BY <1>3, <1>5, <2>1 DEF One
<1>6. CASE Email(j) # e
  BY <1>3, <1>4, <1>6 DEF One
<1>7. QED
  BY <1>5, <1>6

\* The first job of a list is one copy of its email.
LEMMA CopiesTail ==
  ASSUME NEW q \in Seq(JobsOf), q # <<>>, NEW e
  PROVE  Cardinality(Copies(q, e)) = Cardinality(Copies(Tail(q), e)) + One(Email(Head(q)) = e)
<1>1. /\ Head(q) = q[1] /\ Len(q) \in Nat \ {0} /\ Tail(q) \in Seq(JobsOf)
      /\ Len(Tail(q)) = Len(q) - 1
      /\ \A i \in 1 .. Len(Tail(q)) : Tail(q)[i] = q[i + 1]
  BY TailOK
<1> DEFINE m == Len(Tail(q))
           F == [i \in Copies(Tail(q), e) |-> i + 1]
           Rest == Copies(q, e) \ {1}
<1>2. m \in Nat /\ Len(q) = m + 1
  BY <1>1
<1>3. /\ \A i \in 1 .. m : i + 1 \in 1 .. m + 1 /\ i + 1 # 1
      /\ \A i \in 1 .. m + 1 : i # 1 => i - 1 \in 1 .. m /\ (i - 1) + 1 = i
      /\ \A i, k \in 1 .. m : i + 1 = k + 1 => i = k
  BY <1>2
<1> HIDE DEF m
<1>4. Copies(Tail(q), e) = {i \in 1 .. m : Email(q[i + 1]) = e}
  BY <1>1 DEF Copies, m
<1>5. Rest = {i \in 1 .. m + 1 : i # 1 /\ Email(q[i]) = e}
  BY <1>2 DEF Copies
<1>6. F \in Bijection(Copies(Tail(q), e), Rest)
  <2>1. F \in [Copies(Tail(q), e) -> Rest]
    BY <1>3, <1>4, <1>5
  <2>2. \A a, b \in Copies(Tail(q), e) : F[a] = F[b] => a = b
    BY <1>3, <1>4
  <2>3. \A t \in Rest : \E s \in Copies(Tail(q), e) : F[s] = t
    <3>1. TAKE t \in Rest
    <3>2. t \in 1 .. m + 1 /\ t # 1 /\ Email(q[t]) = e
      BY <1>5
    <3>3. t - 1 \in 1 .. m /\ (t - 1) + 1 = t
      BY <1>3, <3>2
    <3>4. t - 1 \in Copies(Tail(q), e)
      BY <1>4, <3>2, <3>3
    <3>5. F[t - 1] = t
      BY <3>3, <3>4
    <3>6. QED
      BY <3>4, <3>5
  <2>4. QED
    BY <2>1, <2>2, <2>3 DEF Bijection, Injection, Surjection, IsInjective
<1> HIDE DEF F, Rest
<1>7. ExistsBijection(Copies(Tail(q), e), Rest)
  BY <1>6 DEF ExistsBijection
<1>8. IsFiniteSet(Copies(Tail(q), e)) /\ IsFiniteSet(Copies(q, e))
  BY <1>1, CopiesFinite
<1>9. Cardinality(Rest) = Cardinality(Copies(Tail(q), e)) /\ Cardinality(Rest) \in Nat
  BY <1>7, <1>8, FS_Bijection, FS_CardinalityType
<1>10. 1 \in Copies(q, e) <=> Email(Head(q)) = e
  BY <1>1 DEF Copies
<1>11. CASE 1 \in Copies(q, e)
  <2>1. Cardinality(Rest) = Cardinality(Copies(q, e)) - 1 /\ Cardinality(Copies(q, e)) \in Nat
    BY <1>8, <1>11, FS_RemoveElement, FS_CardinalityType DEF Rest
  <2>2. QED
    BY <1>9, <1>10, <1>11, <2>1 DEF One
<1>12. CASE 1 \notin Copies(q, e)
  <2>1. Rest = Copies(q, e)
    BY <1>12 DEF Rest
  <2>2. QED
    BY <1>9, <1>10, <1>12, <2>1 DEF One
<1>13. QED
  BY <1>11, <1>12

\* A worker that gets a state leaves its old count and takes the new one.
LEMMA UndraftedShape ==
  ASSUME Typed, IsFiniteSet(Busy), NEW w \in Workers, NEW d, proc' = [proc EXCEPT ![w] = d],
         NEW e
  PROVE  /\ Undrafted(e) \in Nat /\ Undrafted(e)' \in Nat
         /\ Undrafted(e)' + One(MayDraft(proc[w], e)) = Undrafted(e) + One(MayDraft(d, e))
<1> DEFINE S == {v \in Workers : MayDraft(proc[v], e)}
           T == {v \in Workers : MayDraft(proc'[v], e)}
           Others == S \ {w}
<1>1. proc'[w] = d /\ \A v \in Workers : v # w => proc'[v] = proc[v]
  BY DEF Typed, PipelineTypeOK
<1>2. Undrafted(e) = Cardinality(S) /\ Undrafted(e)' = Cardinality(T)
  <2>1. S = {v \in Busy : /\ Email(proc[v].job) = e
                          /\ proc[v].pc \notin {"setComplete", "setError"}}
    BY DEF Busy, MayDraft
  <2>2. T = {v \in Busy : /\ Email(proc[v].job) = e
                          /\ proc[v].pc \notin {"setComplete", "setError"}}'
    BY DEF Busy, MayDraft
  <2>3. QED
    BY <2>1, <2>2 DEF Undrafted
<1>3. IsFiniteSet(S)
  BY FS_Subset DEF Busy, MayDraft
<1>4. IsFiniteSet(Others) /\ w \notin Others
  BY <1>3, FS_RemoveElement
<1>5. /\ S = IF MayDraft(proc[w], e) THEN Others \union {w} ELSE Others
      /\ T = IF MayDraft(d, e) THEN Others \union {w} ELSE Others
  BY <1>1
<1> HIDE DEF S, T, Others
<1>6. Cardinality(Others) \in Nat /\ Cardinality(Others \union {w}) = Cardinality(Others) + 1
  BY <1>4, FS_AddElement, FS_CardinalityType
<1>7. /\ Cardinality(S) = Cardinality(Others) + One(MayDraft(proc[w], e))
      /\ Cardinality(T) = Cardinality(Others) + One(MayDraft(d, e))
  BY <1>5, <1>6 DEF One
<1>8. One(MayDraft(proc[w], e)) \in Nat /\ One(MayDraft(d, e)) \in Nat
  BY DEF One
<1>9. QED
  BY <1>2, <1>6, <1>7, <1>8

-------------------------------------------------------------------------------
(* The tokens of an email.                                                 *)

\* What a step may do to the tokens: none come, or one with a copy.
Accounted(e) ==
  \/ Tokens(e)' <= Tokens(e)
  \/ /\ Tokens(e)' = Tokens(e) + 1
     /\ CopiesIn(Owner[e], e)' = CopiesIn(Owner[e], e) + 1

\* The parts of the tokens, before and after.
LEMMA Parts ==
  ASSUME Typed, Typed', NEW e \in Emails
  PROVE  LET u == Owner[e] IN
         /\ u \in Users /\ drafts[e] \in Nat /\ drafts'[e] \in Nat
         /\ InHand(e) = One(deq[Pool].job # NoJob /\ Email(deq[Pool].job) = e)
         /\ InHand(e)' = One(deq'[Pool].job # NoJob /\ Email(deq'[Pool].job) = e)
         /\ CopiesIn(u, e) = Cardinality(Copies(list[u], e)) /\ CopiesIn(u, e) \in Nat
         /\ CopiesIn(u, e)' = Cardinality(Copies(list'[u], e)) /\ CopiesIn(u, e)' \in Nat
<1>1. Owner[e] \in Users
  BY OwnerAssumption
<1>2. list \in [Users -> Seq(JobsOf)] /\ list' \in [Users -> Seq(JobsOf)]
  BY DEF Typed, Q!TypeOK
<1>3. drafts \in [Emails -> 0 .. DraftCap] /\ drafts' \in [Emails -> 0 .. DraftCap]
  BY DEF Typed, PipelineTypeOK
<1>4. drafts[e] \in Nat /\ drafts'[e] \in Nat
  BY <1>3, CapsAssumption
<1>5. /\ CopiesIn(Owner[e], e) = Cardinality(Copies(list[Owner[e]], e))
      /\ Cardinality(Copies(list[Owner[e]], e)) \in Nat
  BY <1>1, <1>2, CopiesFinite DEF CopiesIn
<1>6. /\ CopiesIn(Owner[e], e)' = Cardinality(Copies(list'[Owner[e]], e))
      /\ Cardinality(Copies(list'[Owner[e]], e)) \in Nat
  BY <1>1, <1>2, CopiesFinite DEF CopiesIn
<1>7. /\ InHand(e) = One(deq[Pool].job # NoJob /\ Email(deq[Pool].job) = e)
      /\ InHand(e)' = One(deq'[Pool].job # NoJob /\ Email(deq'[Pool].job) = e)
  BY DEF InHand, One
<1>8. QED
  BY <1>1, <1>4, <1>5, <1>6, <1>7

\* The workers' part is a number, the same when no worker moves.
LEMMA UndraftedOK ==
  ASSUME IsFiniteSet(Busy), NEW e
  PROVE  /\ Undrafted(e) \in Nat
         /\ proc' = proc => Undrafted(e)' = Undrafted(e)
<1>1. Undrafted(e) \in Nat
  BY FS_Subset, FS_CardinalityType DEF Undrafted
<1>2. proc' = proc => Undrafted(e)' = Undrafted(e)
  BY DEF Undrafted, Busy
<1>3. QED
  BY <1>1, <1>2

\* A pushed job is one token of its email and of no other.
LEMMA PushTokens ==
  ASSUME Typed, Typed', Mine, IsFiniteSet(Busy), NEW u \in Users, EnqueueLPush(u), NEW e \in Emails
  PROVE  Accounted(e)
<1> DEFINE v == Owner[e]
<1>1. PICK j \in JobsOf :
        /\ Owner[Email(j)] = u
        /\ list' = [list EXCEPT ![u] = Append(@, j)] /\ list[u] \in Seq(JobsOf)
  BY PushShape
<1>2. UNCHANGED <<drafts, proc, deq>>
  BY DEF EnqueueLPush, Q!LPush
<1>3. /\ v \in Users /\ drafts[e] \in Nat /\ InHand(e)' = InHand(e) /\ InHand(e) \in Nat
      /\ Undrafted(e)' = Undrafted(e) /\ Undrafted(e) \in Nat
      /\ CopiesIn(v, e) = Cardinality(Copies(list[v], e)) /\ CopiesIn(v, e) \in Nat
      /\ CopiesIn(v, e)' = Cardinality(Copies(list'[v], e)) /\ CopiesIn(v, e)' \in Nat
  BY <1>2, Parts, UndraftedOK DEF One
<1>4. CASE u = v
  <2>1. list'[v] = Append(list[v], j)
    BY <1>1, <1>4 DEF Typed, Q!TypeOK
  <2>2. CopiesIn(v, e)' = CopiesIn(v, e) + One(Email(j) = e)
    BY <1>1, <1>3, <1>4, <2>1, CopiesAppend
  <2>3. One(Email(j) = e) \in {0, 1}
    BY DEF One
  <2>4. QED
    BY <1>2, <1>3, <2>2, <2>3 DEF Accounted, Tokens
<1>5. CASE u # v
  <2>1. list'[v] = list[v]
    BY <1>1, <1>3, <1>5 DEF Typed, Q!TypeOK
  <2>2. QED
    BY <1>2, <1>3, <2>1 DEF Accounted, Tokens
<1>6. QED
  BY <1>4, <1>5

\* A command of Dequeue takes a copy into its hand, or loses one.
LEMMA DequeueTokens ==
  ASSUME Typed, Typed', Mine, IsFiniteSet(Busy), DequeueCommand \/ DequeueFails, NEW e \in Emails
  PROVE  Accounted(e)
<1> DEFINE v == Owner[e]
<1>1. PICK d : DequeueTo(d)
  BY DequeueShape
<1>2. UNCHANGED <<drafts, proc>>
  BY DequeueShape
<1>3. /\ v \in Users /\ drafts[e] \in Nat
      /\ Undrafted(e)' = Undrafted(e) /\ Undrafted(e) \in Nat
      /\ CopiesIn(v, e) = Cardinality(Copies(list[v], e)) /\ CopiesIn(v, e) \in Nat
      /\ CopiesIn(v, e)' = Cardinality(Copies(list'[v], e)) /\ CopiesIn(v, e)' \in Nat
  BY <1>2, Parts, UndraftedOK
<1>4. deq'[Pool] = d
  BY <1>1 DEF DequeueTo, Typed, Q!TypeOK
<1>5. /\ InHand(e) = One(deq[Pool].job # NoJob /\ Email(deq[Pool].job) = e)
      /\ InHand(e)' = One(d.job # NoJob /\ Email(d.job) = e)
  BY <1>4, Parts
<1>6. CASE list' = list /\ d.job \in {deq[Pool].job, NoJob}
  <2>1. InHand(e)' <= InHand(e) /\ InHand(e) \in Nat /\ InHand(e)' \in Nat
    BY <1>5, <1>6 DEF One
  <2>2. QED
    BY <1>2, <1>3, <1>6, <2>1 DEF Accounted, Tokens
<1>7. ASSUME NEW u \in Users, deq[Pool].job = NoJob, list[u] # <<>>,
             list' = [list EXCEPT ![u] = Tail(@)], d.job \in {Head(list[u]), NoJob}
      PROVE  Accounted(e)
  <2>1. InHand(e) = 0 /\ InHand(e)' <= One(Email(Head(list[u])) = e) /\ InHand(e)' \in Nat
    BY <1>5, <1>7 DEF One
  <2>2. list[u] \in Seq(JobsOf)
    BY DEF Typed, Q!TypeOK
  <2>3. CASE u = v
    <3>1. list'[v] = Tail(list[v])
      BY <1>7, <2>3 DEF Typed, Q!TypeOK
    <3>2. CopiesIn(v, e) = CopiesIn(v, e)' + One(Email(Head(list[u])) = e)
      BY <1>3, <1>7, <2>2, <2>3, <3>1, CopiesTail
    <3>3. One(Email(Head(list[u])) = e) \in Nat
      BY DEF One
    <3>4. QED
      BY <1>2, <1>3, <2>1, <3>2, <3>3 DEF Accounted, Tokens
  <2>4. CASE u # v
    <3>1. list'[v] = list[v]
      BY <1>3, <1>7, <2>4 DEF Typed, Q!TypeOK
    <3>2. Email(Head(list[u])) # e
      <4>1. Head(list[u]) = list[u][1] /\ 1 \in 1 .. Len(list[u])
        BY <1>7, <2>2, TailOK
      <4>2. Owner[Email(list[u][1])] = u
        BY <4>1 DEF Mine
      <4>3. QED
        BY <2>4, <4>1, <4>2
    <3>3. InHand(e)' = 0
      BY <2>1, <3>2 DEF One
    <3>4. QED
      BY <1>2, <1>3, <2>1, <3>1, <3>3 DEF Accounted, Tokens
  <2>5. QED
    BY <2>3, <2>4
<1>8. QED
  BY <1>1, <1>6, <1>7 DEF DequeueTo

\* The worker takes the copy from the hand of Run.
LEMMA StartTokens ==
  ASSUME Typed, Typed', IsFiniteSet(Busy), NEW w \in Workers, StartWorker(w), NEW e \in Emails
  PROVE  Accounted(e)
<1> DEFINE d == [pc |-> "load", job |-> deq[Pool].job]
           v == Owner[e]
<1>1. /\ proc[w] = Asleep /\ deq[Pool].job \in JobsOf
      /\ d # Asleep /\ proc' = [proc EXCEPT ![w] = d]
      /\ deq' = [deq EXCEPT ![Pool] = Q!Idle] /\ UNCHANGED <<drafts, list>>
  BY StartShape
<1>2. One(MayDraft(d, e)) = One(Email(deq[Pool].job) = e) /\ One(MayDraft(proc[w], e)) = 0
  BY <1>1 DEF MayDraft, One
<1> HIDE DEF d
<1>3. /\ Undrafted(e) \in Nat /\ Undrafted(e)' \in Nat
      /\ Undrafted(e)' = Undrafted(e) + One(Email(deq[Pool].job) = e)
  <2>1. /\ Undrafted(e) \in Nat /\ Undrafted(e)' \in Nat
        /\ Undrafted(e)' + One(MayDraft(proc[w], e)) = Undrafted(e) + One(MayDraft(d, e))
    BY <1>1, UndraftedShape
  <2>2. QED
    BY <1>2, <2>1
<1>4. deq'[Pool].job = NoJob
  BY <1>1 DEF Typed, Q!TypeOK, Q!Idle
<1>5. /\ v \in Users /\ drafts[e] \in Nat
      /\ InHand(e) = One(deq[Pool].job # NoJob /\ Email(deq[Pool].job) = e)
      /\ InHand(e)' = One(deq'[Pool].job # NoJob /\ Email(deq'[Pool].job) = e)
      /\ CopiesIn(v, e) \in Nat /\ CopiesIn(v, e)' = CopiesIn(v, e)
  BY <1>1, Parts
<1>6. InHand(e) = One(Email(deq[Pool].job) = e) /\ InHand(e)' = 0 /\ InHand(e) \in Nat
  BY <1>1, <1>4, <1>5, QueueAssumption DEF One
<1>7. QED
  BY <1>1, <1>3, <1>5, <1>6 DEF Accounted, Tokens

\* A worker's copy becomes a draft, or none.
LEMMA WorkTokens ==
  ASSUME Typed, Typed', IsFiniteSet(Busy), NEW w \in Workers, Work(w) \/ WorkFails(w),
         NEW e \in Emails
  PROVE  Accounted(e)
<1> DEFINE v == Owner[e]
<1>1. PICK d : WorkerTo(w, d)
  BY WorkShape
<1>2. UNCHANGED <<list, deq>>
  BY WorkShape
<1>3. /\ v \in Users /\ drafts[e] \in Nat /\ drafts'[e] \in Nat
      /\ InHand(e)' = InHand(e) /\ InHand(e) \in Nat
      /\ CopiesIn(v, e) \in Nat /\ CopiesIn(v, e)' = CopiesIn(v, e)
  BY <1>2, Parts DEF One
<1>4. /\ Undrafted(e) \in Nat /\ Undrafted(e)' \in Nat
      /\ Undrafted(e)' + One(MayDraft(proc[w], e)) = Undrafted(e) + One(MayDraft(d, e))
  <2>1. proc' = [proc EXCEPT ![w] = d]
    BY <1>1 DEF WorkerTo
  <2>2. QED
    BY <2>1, UndraftedShape
<1>5. /\ proc[w] # Asleep /\ proc[w] \in [pc : ProcPCs, job : JobsOf]
      /\ d # Asleep => d.job = proc[w].job
  BY <1>1 DEF WorkerTo
<1>6. CASE /\ drafts' = drafts
           /\ proc[w].pc \in {"setComplete", "setError"} => d = Asleep
  <2>1. MayDraft(d, e) => MayDraft(proc[w], e)
    BY <1>5, <1>6 DEF MayDraft
  <2>2. Undrafted(e)' <= Undrafted(e)
    BY <1>4, <2>1 DEF One
  <2>3. QED
    BY <1>3, <1>4, <1>6, <2>2 DEF Accounted, Tokens
<1>7. CASE /\ proc[w].pc = "draft" /\ d.pc = "setComplete"
           /\ drafts' = [drafts EXCEPT ![Email(proc[w].job)] = Capped(@ + 1, DraftCap)]
  <2>1. ~ MayDraft(d, e) /\ (MayDraft(proc[w], e) <=> Email(proc[w].job) = e)
    BY <1>5, <1>7 DEF MayDraft
  <2>2. Undrafted(e)' + One(Email(proc[w].job) = e) = Undrafted(e)
    BY <1>4, <2>1 DEF One
  <2>3. drafts'[e] <= drafts[e] + One(Email(proc[w].job) = e)
    <3>1. CASE Email(proc[w].job) = e
      <4>1. drafts'[e] = Capped(drafts[e] + 1, DraftCap)
        BY <1>7, <3>1 DEF Typed, PipelineTypeOK
      <4>2. Capped(drafts[e] + 1, DraftCap) <= drafts[e] + 1
        BY <1>3, CappedOK
      <4>3. QED
        BY <3>1, <4>1, <4>2 DEF One
    <3>2. CASE Email(proc[w].job) # e
      <4>1. drafts'[e] = drafts[e]
        BY <1>7, <3>2 DEF Typed, PipelineTypeOK
      <4>2. QED
        BY <1>3, <3>2, <4>1 DEF One
    <3>3. QED
      BY <3>1, <3>2
  <2>4. One(Email(proc[w].job) = e) \in Nat
    BY DEF One
  <2>5. QED
    BY <1>3, <1>4, <2>2, <2>3, <2>4 DEF Accounted, Tokens
<1>8. QED
  BY <1>1, <1>6, <1>7 DEF WorkerTo

\* No step makes a token but LPUSH.
LEMMA TokensStep == Inv /\ [Next]_vars => \A e \in Emails : Accounted(e)
<1> SUFFICES ASSUME Inv, [Next]_vars, NEW e \in Emails PROVE Accounted(e)
  OBVIOUS
<1>0. Typed /\ Typed' /\ Mine /\ IsFiniteSet(Busy)
  BY InvStep DEF Inv, Slots
<1>a. ASSUME UNCHANGED <<drafts, list, deq, proc>> PROVE Accounted(e)
  <2>1. /\ Owner[e] \in Users /\ drafts[e] \in Nat /\ InHand(e)' = InHand(e) /\ InHand(e) \in Nat
        /\ CopiesIn(Owner[e], e)' = CopiesIn(Owner[e], e) /\ CopiesIn(Owner[e], e) \in Nat
        /\ Undrafted(e)' = Undrafted(e) /\ Undrafted(e) \in Nat
    BY <1>0, <1>a, Parts, UndraftedOK DEF One
  <2>2. QED
    BY <1>a, <2>1 DEF Accounted, Tokens
<1>1. ASSUME NEW u \in Users, Cron(u) \/ EnqueueFails(u) PROVE Accounted(e)
  <2>1. CASE EnqueueLPush(u)
    BY <1>0, <2>1, PushTokens
  <2>2. CASE Select(u) \/ EnqueueSaturated(u) \/ EnqueueZAdd(u) \/ EnqueueFails(u)
    BY <1>a, <2>2
       DEF Select, EnqueueSaturated, EnqueueZAdd, EnqueueFails, Q!ZAdd, Q!EnqueueFails, queue
  <2>3. QED
    BY <1>1, <2>1, <2>2 DEF Cron
<1>2. CASE Acquire
  BY <1>a, <1>2 DEF Acquire, queue
<1>3. CASE DequeueCommand \/ DequeueFails
  BY <1>0, <1>3, DequeueTokens
<1>4. ASSUME NEW w \in Workers, StartWorker(w) PROVE Accounted(e)
  BY <1>0, <1>4, StartTokens
<1>5. ASSUME NEW w \in Workers, Work(w) \/ WorkFails(w) PROVE Accounted(e)
  BY <1>0, <1>5, WorkTokens
<1>6. CASE Clock
  BY <1>a, <1>6 DEF Clock, AgeStart, AgeError, queue
<1>7. CASE Crash
  <2>1. UNCHANGED <<drafts, list>> /\ deq' = [p \in {Pool} |-> Q!Idle]
        /\ proc' = [w \in Workers |-> Asleep]
    BY <1>7 DEF Crash, Q!Crash
  <2>2. InHand(e)' = 0
    BY <2>1 DEF InHand, Q!Idle
  <2>3. Undrafted(e)' = 0
    <3>1. Busy' = {}
      BY <2>1 DEF Busy
    <3>2. {w \in {} : (/\ Email(proc[w].job) = e
                       /\ proc[w].pc \notin {"setComplete", "setError"})'} = {}
      OBVIOUS
    <3>3. QED
      BY <3>1, <3>2, FS_EmptySet DEF Undrafted
  <2>4. /\ drafts[e] \in Nat /\ InHand(e) \in Nat /\ Undrafted(e) \in Nat
        /\ CopiesIn(Owner[e], e)' = CopiesIn(Owner[e], e) /\ CopiesIn(Owner[e], e) \in Nat
    BY <1>0, <2>1, Parts, UndraftedOK DEF One
  <2>5. QED
    BY <2>1, <2>2, <2>3, <2>4 DEF Accounted, Tokens
<1>8. CASE UNCHANGED vars
  BY <1>a, <1>8 DEF vars, queue
<1>9. QED
  BY <1>1, <1>2, <1>3, <1>4, <1>5, <1>6, <1>7, <1>8 DEF Next, Run

-------------------------------------------------------------------------------
(* An email nobody has to do with any more.                                *)

\* An email that is settled is not one a query returns.
LEMMA SettledNotSelected ==
  ASSUME NEW e, Settled(e)
  PROVE  ~ Fresh(e) /\ ~ Stale(e) /\ (row[e].retries \in Nat => ~ Retryable(e))
<1>1. MaxRetries \in Nat
  BY SizesAssumption
<1>2. row[e].retries \in Nat /\ row[e].retries >= MaxRetries => ~ (row[e].retries < MaxRetries)
  BY <1>1
<1>3. QED
  BY <1>2 DEF Settled, Fresh, Stale, Retryable, Working

\* A list without a copy of e.
LEMMA NoCopy ==
  ASSUME NEW q \in Seq(JobsOf), NEW e
  PROVE  Cardinality(Copies(q, e)) = 0 <=> \A i \in 1 .. Len(q) : Email(q[i]) # e
<1>1. IsFiniteSet(Copies(q, e))
  BY CopiesFinite
<1>2. Cardinality(Copies(q, e)) = 0 <=> Copies(q, e) = {}
  BY <1>1, FS_EmptySet
<1>3. QED
  BY <1>2 DEF Copies

\* No copy, no batch entry and no worker of e is made of nothing, and the row
\* of e stays as it is or grows older.
LEMMA QuietStep ==
  ASSUME Inv, [Next]_vars, NEW e \in Emails, Settled(e), Quiet(e)
  PROVE  Settled(e)' /\ Quiet(e)'
<1> DEFINE v == Owner[e]
<1>0. Typed /\ Typed' /\ Mine /\ Mine' /\ v \in Users
  BY InvStep, OwnerAssumption DEF Inv
<1>a. /\ CopiesIn(v, e) = 0 /\ InHand(e) = 0
      /\ \A w \in Workers : proc[w] # Asleep => Email(proc[w].job) # e
      /\ \A i \in 1 .. Len(cron[v].emails) : cron[v].emails[i] # e
  <2>1. cron[v] = NoBatch => Len(cron[v].emails) = 0
    BY DEF NoBatch
  <2>2. cron[v] # NoBatch => DOMAIN cron[v].emails = 1 .. Len(cron[v].emails)
    BY <1>0 DEF Typed, BatchesOf
  <2>3. QED
    BY <2>1, <2>2 DEF Quiet, Busy
<1>b. ASSUME row'[e] = row[e] \/ row'[e] = [row[e] EXCEPT !.stale = TRUE]
               \/ row'[e] = [row[e] EXCEPT !.rested = TRUE]
      PROVE  Settled(e)'
  <2>1. row[e] \in Rows
    BY <1>0 DEF Typed, PipelineTypeOK
  <2>2. row'[e].stage = row[e].stage /\ row'[e].retries = row[e].retries
    BY <1>b, <2>1 DEF Rows
  <2>3. QED
    BY <2>2 DEF Settled
<1>c. ASSUME CopiesIn(v, e)' = 0, InHand(e)' = 0,
             \A w \in Workers : proc'[w] # Asleep => Email(proc'[w].job) # e,
             \A i \in 1 .. Len(cron'[v].emails) : cron'[v].emails[i] # e
      PROVE  Quiet(e)'
  <2>1. cron'[v] # NoBatch => DOMAIN cron'[v].emails = 1 .. Len(cron'[v].emails)
    BY <1>0 DEF Typed, BatchesOf
  <2>2. QED
    BY <1>c, <2>1 DEF Quiet, Busy
<1>d. /\ list' = list => CopiesIn(v, e)' = 0
      /\ deq' = deq => InHand(e)' = 0
  BY <1>a, Zenon DEF CopiesIn, InHand
<1>1. ASSUME NEW u \in Users, Cron(u) \/ EnqueueFails(u) PROVE Settled(e)' /\ Quiet(e)'
  <2>1. UNCHANGED <<row, proc, deq>>
    BY <1>1, Zenon
       DEF Cron, Select, EnqueueLPush, EnqueueSaturated, EnqueueZAdd, EnqueueFails, queue,
           Q!LPush, Q!ZAdd, Q!EnqueueFails
  <2>2. CopiesIn(v, e)' = 0
    <3>1. CASE list' = list
      BY <1>d, <3>1
    <3>2. CASE EnqueueLPush(u)
      <4>1. PICK j \in JobsOf :
              /\ Email(j) = cron[u].emails[1] /\ Owner[Email(j)] = u
              /\ list' = [list EXCEPT ![u] = Append(@, j)] /\ list[u] \in Seq(JobsOf)
        BY <1>0, <3>2, PushShape
      <4>2. Email(j) # e
        <5>1. CASE u = v
          <6>1. cron[u].emails \in Seq(Emails) /\ cron[u].emails # <<>>
            BY <1>0, <3>2 DEF EnqueueLPush, Typed, BatchesOf
          <6>2. 1 \in 1 .. Len(cron[u].emails)
            BY <6>1, TailOK
          <6>3. QED
            BY <1>a, <4>1, <5>1, <6>2
        <5>2. CASE u # v
          BY <4>1, <5>2
        <5>3. QED
          BY <5>1, <5>2
      <4>3. CASE u = v
        <5>1. list'[v] = Append(list[v], j)
          BY <1>0, <4>1, <4>3 DEF Typed, Q!TypeOK
        <5>2. Cardinality(Copies(list'[v], e)) = Cardinality(Copies(list[v], e)) + One(Email(j) = e)
          BY <4>1, <4>3, <5>1, CopiesAppend
        <5>3. QED
          BY <1>0, <1>a, <4>2, <5>2, Parts DEF One
      <4>4. CASE u # v
        <5>1. list'[v] = list[v]
          BY <1>0, <4>1, <4>4 DEF Typed, Q!TypeOK
        <5>2. QED
          BY <1>0, <1>a, <5>1, Parts
      <4>5. QED
        BY <4>3, <4>4
    <3>3. QED
      BY <1>1, <3>1, <3>2
         DEF Cron, Select, EnqueueSaturated, EnqueueZAdd, EnqueueFails, queue,
             Q!ZAdd, Q!EnqueueFails
  <2>3. \A i \in 1 .. Len(cron'[v].emails) : cron'[v].emails[i] # e
    <3>1. CASE cron' = cron
      BY <1>a, <3>1
    <3>2. CASE Select(u)
      <4>1. PICK b \in Batches(u), p \in Plans :
              cron' = [cron EXCEPT ![u] = [emails |-> b, plan |-> p]]
        BY <3>2 DEF Select
      <4>2. \A i \in 1 .. Len(b) : b[i] # e
        <5>1. row[e] \in Rows
          BY <1>0 DEF Typed, PipelineTypeOK
        <5>2. row[e].retries \in Nat
          BY <5>1, CapsAssumption DEF Rows
        <5>3. ~ (Fresh(e) \/ Stale(e) \/ Retryable(e))
          BY <5>2, SettledNotSelected
        <5>4. \A i \in 1 .. Len(b) : Fresh(b[i]) \/ Stale(b[i]) \/ Retryable(b[i])
          BY BatchOK
        <5>5. QED
          BY <5>3, <5>4
      <4>3. cron'[u].emails = b /\ (u # v => cron'[v] = cron[v])
        BY <1>0, <4>1 DEF Typed
      <4>4. QED
        BY <1>a, <4>2, <4>3
    <3>3. CASE enq[u] # NoJob /\ Enqueued(u)
      <4>1. cron[u] # NoBatch
        BY <1>0, <3>3 DEF Typed
      <4>2. /\ u # v => cron'[v] = cron[v]
            /\ \A i \in 1 .. Len(cron'[u].emails) :
                 /\ i + 1 \in 1 .. Len(cron[u].emails)
                 /\ cron'[u].emails[i] = cron[u].emails[i + 1]
        BY <1>0, <3>3, <4>1, EnqueuedOK
      <4>3. CASE u = v
        <5>1. TAKE i \in 1 .. Len(cron'[v].emails)
        <5>2. cron[v].emails[i + 1] # e
          BY <1>a, <4>2, <4>3
        <5>3. QED
          BY <4>2, <4>3, <5>2
      <4>4. CASE u # v
        BY <1>a, <4>2, <4>4
      <4>5. QED
        BY <4>3, <4>4
    <3>4. QED
      BY <1>1, <3>1, <3>2, <3>3
         DEF Cron, EnqueueLPush, EnqueueSaturated, EnqueueZAdd, EnqueueFails,
             Q!ZAdd, Q!EnqueueFails
  <2>4. QED
    BY <1>a, <1>b, <1>c, <1>d, <2>1, <2>2, <2>3
<1>2. CASE Acquire
  BY <1>a, <1>b, <1>c, <1>d, <1>2 DEF Acquire, queue
<1>3. CASE DequeueCommand \/ DequeueFails
  <2>1. PICK d : DequeueTo(d)
    BY <1>0, <1>3, DequeueShape
  <2>2. UNCHANGED <<row, proc, cron>>
    BY <1>0, <1>3, DequeueShape
  <2>3. deq'[Pool] = d
    BY <1>0, <2>1 DEF DequeueTo, Typed, Q!TypeOK
  <2>4. CASE list' = list /\ d.job \in {deq[Pool].job, NoJob}
    <3>1. InHand(e)' = 0
      BY <1>a, <2>3, <2>4 DEF InHand
    <3>2. QED
      BY <1>a, <1>b, <1>c, <1>d, <2>2, <2>4, <3>1
  <2>5. ASSUME NEW u \in Users, list[u] # <<>>, list' = [list EXCEPT ![u] = Tail(@)],
               d.job \in {Head(list[u]), NoJob}
        PROVE  Settled(e)' /\ Quiet(e)'
    <3>1. list[u] \in Seq(JobsOf) /\ list[v] \in Seq(JobsOf)
      BY <1>0 DEF Typed, Q!TypeOK
    <3>2. Head(list[u]) = list[u][1] /\ 1 \in 1 .. Len(list[u])
      BY <2>5, <3>1, TailOK
    <3>3. Email(Head(list[u])) # e
      <4>1. CASE u = v
        <5>1. \A i \in 1 .. Len(list[v]) : Email(list[v][i]) # e
          BY <1>0, <1>a, <3>1, NoCopy, Parts
        <5>2. QED
          BY <3>2, <4>1, <5>1
      <4>2. CASE u # v
        <5>1. Owner[Email(list[u][1])] = u
          BY <1>0, <3>2 DEF Mine
        <5>2. QED
          BY <3>2, <4>2, <5>1
      <4>3. QED
        BY <4>1, <4>2
    <3>4. InHand(e)' = 0
      BY <2>3, <2>5, <3>3 DEF InHand
    <3>5. CopiesIn(v, e)' = 0
      <4>1. CASE u = v
        <5>1. list'[v] = Tail(list[v])
          BY <1>0, <2>5, <4>1 DEF Typed, Q!TypeOK
        <5>2. Cardinality(Copies(list[v], e))
                = Cardinality(Copies(list'[v], e)) + One(Email(Head(list[v])) = e)
          BY <2>5, <3>1, <4>1, <5>1, CopiesTail
        <5>3. QED
          BY <1>0, <1>a, <3>3, <4>1, <5>2, Parts DEF One
      <4>2. CASE u # v
        <5>1. list'[v] = list[v]
          BY <1>0, <2>5, <4>2 DEF Typed, Q!TypeOK
        <5>2. QED
          BY <1>0, <1>a, <5>1, Parts
      <4>3. QED
        BY <4>1, <4>2
    <3>6. QED
      BY <1>a, <1>b, <1>c, <2>2, <3>4, <3>5
  <2>6. QED
    BY <2>1, <2>4, <2>5 DEF DequeueTo
<1>4. ASSUME NEW w \in Workers, StartWorker(w) PROVE Settled(e)' /\ Quiet(e)'
  <2> DEFINE d == [pc |-> "load", job |-> deq[Pool].job]
  <2>1. /\ deq[Pool].job \in JobsOf /\ proc' = [proc EXCEPT ![w] = d]
        /\ deq' = [deq EXCEPT ![Pool] = Q!Idle] /\ UNCHANGED <<row, cron, list>>
    BY <1>0, <1>4, StartShape
  <2>2. Email(deq[Pool].job) # e
    BY <1>a, <2>1, QueueAssumption DEF InHand
  <2>3. d.job = deq[Pool].job
    OBVIOUS
  <2> HIDE DEF d
  <2>4. proc'[w] = d /\ \A x \in Workers : x # w => proc'[x] = proc[x]
    BY <1>0, <2>1 DEF Typed, PipelineTypeOK
  <2>5. \A x \in Workers : proc'[x] # Asleep => Email(proc'[x].job) # e
    BY <1>a, <2>2, <2>3, <2>4
  <2>6. InHand(e)' = 0
    <3>1. deq'[Pool].job = NoJob
      BY <1>0, <2>1 DEF Typed, Q!TypeOK, Q!Idle
    <3>2. QED
      BY <3>1 DEF InHand
  <2>7. QED
    BY <1>a, <1>b, <1>c, <1>d, <2>1, <2>5, <2>6
<1>5. ASSUME NEW w \in Workers, Work(w) \/ WorkFails(w) PROVE Settled(e)' /\ Quiet(e)'
  <2>1. PICK d : WorkerTo(w, d)
    BY <1>0, <1>5, WorkShape
  <2>2. UNCHANGED <<list, deq, cron>>
    BY <1>0, <1>5, WorkShape
  <2>3. Email(proc[w].job) # e
    BY <1>a, <2>1 DEF WorkerTo
  <2>4. row'[e] = row[e]
    BY <2>1, <2>3 DEF WorkerTo
  <2>5. proc'[w] = d /\ \A x \in Workers : x # w => proc'[x] = proc[x]
    BY <1>0, <2>1 DEF WorkerTo, Typed, PipelineTypeOK
  <2>6. d # Asleep => d.job = proc[w].job
    BY <2>1 DEF WorkerTo
  <2>7. \A x \in Workers : proc'[x] # Asleep => Email(proc'[x].job) # e
    BY <1>a, <2>3, <2>5, <2>6
  <2>8. QED
    BY <1>a, <1>b, <1>c, <1>d, <2>2, <2>4, <2>7
<1>6. CASE Clock
  <2>1. PICK f \in Emails : AgeStart(f) \/ AgeError(f)
    BY <1>6 DEF Clock
  <2>2. \/ row' = [row EXCEPT ![f] = [row[f] EXCEPT !.stale = TRUE]]
        \/ row' = [row EXCEPT ![f] = [row[f] EXCEPT !.rested = TRUE]]
    BY <1>0, <2>1 DEF AgeStart, AgeError, Typed, PipelineTypeOK
  <2>3. row'[e] = row[e] \/ row'[e] = [row[e] EXCEPT !.stale = TRUE]
          \/ row'[e] = [row[e] EXCEPT !.rested = TRUE]
    BY <1>0, <2>2 DEF Typed, PipelineTypeOK
  <2>4. UNCHANGED <<proc, list, deq, cron>>
    BY <1>6, <2>1 DEF Clock, AgeStart, AgeError, queue
  <2>5. QED
    BY <1>a, <1>b, <1>c, <1>d, <2>3, <2>4
<1>7. CASE Crash
  <2>1. UNCHANGED <<row, list>> /\ deq' = [p \in {Pool} |-> Q!Idle]
        /\ proc' = [w \in Workers |-> Asleep] /\ cron' = [u \in Users |-> NoBatch]
    BY <1>7 DEF Crash, Q!Crash
  <2>2. InHand(e)' = 0
    BY <2>1 DEF InHand, Q!Idle
  <2>3. \A i \in 1 .. Len(cron'[v].emails) : cron'[v].emails[i] # e
    BY <1>0, <2>1 DEF NoBatch
  <2>4. QED
    BY <1>b, <1>c, <1>d, <2>1, <2>2, <2>3
<1>8. CASE UNCHANGED vars
  BY <1>a, <1>b, <1>c, <1>d, <1>8 DEF vars, queue
<1>9. QED
  BY <1>1, <1>2, <1>3, <1>4, <1>5, <1>6, <1>7, <1>8 DEF Next, Run

-------------------------------------------------------------------------------
(* The theorems.                                                           *)

\* In every behaviour the state keeps the invariant.
LEMMA Invariance == Spec => []Inv
  BY InvInit, InvStep, PTL DEF Spec

\* DraftsAccounted, for every number of users, emails, workers and slots: a
\* slot of the semaphore is always with Run, with a goroutine or free, and an
\* email gains at most one draft for every LPUSH of it (worker.go Run, queue.go,
\* pipeline.go:162).
THEOREM SlotsAndDraftsAccounted == Spec => DraftsAccounted
<1>1. Spec => [](TypeOK /\ SlotsAccounted)
  BY Invariance, InvImplies, PTL
<1>2. Inv /\ [Next]_vars =>
        [\A e \in Emails : Tokens(e)' > Tokens(e) =>
           /\ Tokens(e)' = Tokens(e) + 1
           /\ CopiesIn(Owner[e], e)' = CopiesIn(Owner[e], e) + 1]_vars
  <2> SUFFICES ASSUME Inv, [Next]_vars, NEW e \in Emails, Tokens(e)' > Tokens(e)
               PROVE  /\ Tokens(e)' = Tokens(e) + 1
                      /\ CopiesIn(Owner[e], e)' = CopiesIn(Owner[e], e) + 1
    OBVIOUS
  <2>1. Accounted(e)
    BY TokensStep
  <2>2. Tokens(e) \in Nat /\ Tokens(e)' \in Nat
    <3>1. Typed /\ Typed' /\ IsFiniteSet(Busy) /\ IsFiniteSet(Busy)'
      BY InvStep DEF Inv, Slots
    <3>2. Undrafted(e) \in Nat /\ Undrafted(e)' \in Nat
      BY <3>1, FS_Subset, FS_CardinalityType DEF Undrafted
    <3>3. QED
      BY <3>1, <3>2, Parts DEF Tokens, One
  <2>3. QED
    BY <2>1, <2>2 DEF Accounted
<1>3. Spec => OneDraftPerEnqueue
  BY <1>2, Invariance, PTL DEF Spec, OneDraftPerEnqueue
<1>4. QED
  BY <1>1, <1>3, PTL DEF DraftsAccounted

\* SettledAndQuietStays, for every instance: an email that is complete or has
\* used up its retries, and of which no copy is left, is never taken up again,
\* by a query, a command, a worker, the clock or a restart (cron.go:546-577).
THEOREM QuietForEver == Spec => SettledAndQuietStays
<1>1. Inv /\ [Next]_vars =>
        [\A e \in Emails : Settled(e) /\ Quiet(e) => Settled(e)' /\ Quiet(e)']_vars
  BY QuietStep
<1>2. QED
  BY <1>1, Invariance, PTL DEF Spec, SettledAndQuietStays

===============================================================================
