---------------------------- MODULE EmailSyncProofs ----------------------------
(***************************************************************************)
(* What EmailSync promises for every number of servers, every mailbox, batch *)
(* size and number of failures: the cursor passes no message that could    *)
(* have been stored, and past mail is never stored.                        *)
(***************************************************************************)
EXTENDS EmailSync, FiniteSetTheorems, WellFoundedInduction, TLAPS

-------------------------------------------------------------------------------
(* The shape of the state.                                                 *)

\* Where a sync may be between two messages.
Between == Pcs \ {"message", "store", "lastUID"}

LEMMA AtType ==
  ASSUME arrived \in Nat, NEW pc \in Between, NEW todo \in SUBSET (1 .. arrived),
         pc \in {"reread", "baseline", "start", "fetch"} => todo # {}
  PROVE  At(pc, todo) \in Records /\ SyncOK(At(pc, todo))
BY DEF At, Records, SyncOK, Between, ThreadIds

LEMMA NextMessageType ==
  ASSUME arrived \in Nat, NEW todo \in SUBSET (1 .. arrived),
         NEW got \in SUBSET (1 .. arrived), NEW max \in 0 .. arrived
  PROVE  /\ NextMessage(todo, got, max) \in Records
         /\ SyncOK(NextMessage(todo, got, max))
BY DEF NextMessage, Records, SyncOK, Pcs, ThreadIds

LEMMA NextBatchType ==
  ASSUME arrived \in Nat, NEW todo \in SUBSET (1 .. arrived)
  PROVE  NextBatch(todo) \in Records /\ SyncOK(NextBatch(todo))
BY AtType DEF NextBatch, Between, Pcs

LEMMA ThreadedType ==
  ASSUME NEW d \in Records, SyncOK(d), d.pc = "message", NEW t \in ThreadIds, t # NotStored
  PROVE  Threaded(d, t) \in Records /\ SyncOK(Threaded(d, t))
BY DEF Threaded, Records, SyncOK, Pcs

LEMMA BecomeType ==
  ASSUME TypeOK, UNCHANGED arrived, NEW s \in Syncs, NEW d, Become(s, d),
         d \in Records, SyncOK(d)
  PROVE  sync' \in [Syncs -> Records'] /\ \A r \in Syncs : SyncOK(sync'[r])
<1>1. Records' = Records
  BY DEF Records, ThreadIds
<1>2. sync' = [sync EXCEPT ![s] = d] /\ sync \in [Syncs -> Records]
  BY DEF Become, TypeOK
<1>3. sync' \in [Syncs -> Records']
  BY <1>1, <1>2
<1>4. \A r \in Syncs : sync'[r] = IF r = s THEN d ELSE sync[r]
  BY <1>2
<1>5. \A r \in Syncs : SyncOK(sync[r])
  BY DEF TypeOK
<1>6. QED
  BY <1>3, <1>4, <1>5

LEMMA TypeInit == Init => TypeOK
<1> SUFFICES ASSUME Init PROVE TypeOK
  OBVIOUS
<1>1. arrived \in Nat /\ 1 .. Existing \subseteq 1 .. arrived
  BY SizesAssumption DEF Init
<1>2. Idle \in Records /\ SyncOK(Idle)
  BY <1>1, AtType DEF Idle, Between, Pcs
<1>3. sync = [s \in Syncs |-> Idle]
  BY DEF Init
<1>4. sync \in [Syncs -> Records] /\ \A s \in Syncs : SyncOK(sync[s])
  BY <1>2, <1>3
<1>5. QED
  BY <1>1, <1>4, SizesAssumption DEF Init, TypeOK, States, ThreadIds, Null

\* The mailbox only grows above arrived, and a sync's step leaves it alone.
LEMMA MailType ==
  ASSUME TypeOK, Arrive \/ Expunge
  PROVE  TypeOK'
<1>1. arrived \in Nat /\ arrived' \in Existing .. MaxUID /\ arrived <= arrived'
  BY SizesAssumption DEF TypeOK, Arrive, Expunge
<1>2. mailbox' \subseteq 1 .. arrived'
  <2>1. CASE Arrive
    <3>1. mailbox \subseteq 1 .. arrived /\ mailbox' = mailbox \union {arrived + 1}
      BY <2>1 DEF TypeOK, Arrive
    <3>2. arrived' = arrived + 1
      BY <2>1 DEF Arrive
    <3>3. QED
      BY <1>1, <3>1, <3>2
  <2>2. CASE Expunge
    <3>1. mailbox' \subseteq mailbox /\ arrived' = arrived
      BY <2>2 DEF Expunge
    <3>2. QED
      BY <3>1 DEF TypeOK
  <2>3. QED
    BY <2>1, <2>2
<1>3. /\ 1 .. arrived \subseteq 1 .. arrived' /\ 0 .. arrived \subseteq 0 .. arrived'
  BY <1>1, SizesAssumption
<1>4. UNCHANGED <<cursor, thread, failed, account, sync, baseline, faults>>
  BY DEF Arrive, Expunge, storeVars
<1>5. Records \subseteq Records'
  BY <1>3 DEF Records, ThreadIds
<1>6. sync' \in [Syncs -> Records'] /\ \A s \in Syncs : SyncOK(sync'[s])
  BY <1>4, <1>5 DEF TypeOK
<1>7. /\ cursor' \in [exists : BOOLEAN, uid : 0 .. arrived', state : States]
      /\ baseline' \in 0 .. arrived' /\ failed' \subseteq 1 .. arrived'
  BY <1>3, <1>4 DEF TypeOK
<1>8. expunged' \in 0 .. MaxExpunged
  BY SizesAssumption DEF TypeOK, Arrive, Expunge
<1>9. QED
  BY <1>1, <1>2, <1>4, <1>6, <1>7, <1>8 DEF TypeOK, ThreadIds

\* The shape of what a sync's step leaves, given the record it becomes.
LEMMA StepType ==
  ASSUME TypeOK, UNCHANGED mailVars, NEW s \in Syncs, NEW d, Become(s, d),
         d \in Records, SyncOK(d),
         cursor' \in [exists : BOOLEAN, uid : 0 .. arrived, state : States],
         thread' \in [Uids -> ThreadIds], account' \in {"pending", "active", "error"},
         baseline' \in 0 .. arrived, failed' \subseteq 1 .. arrived,
         faults' \in 0 .. MaxFaults
  PROVE  TypeOK'
<1>1. sync' \in [Syncs -> Records'] /\ \A r \in Syncs : SyncOK(sync'[r])
  BY BecomeType DEF mailVars
<1>2. UNCHANGED <<mailbox, arrived, expunged>>
  BY DEF mailVars
<1>3. QED
  BY <1>1, <1>2 DEF TypeOK, ThreadIds

-------------------------------------------------------------------------------
(* What the shape says of the sync that takes a step.                      *)

LEMMA RecordOf ==
  ASSUME TypeOK, NEW s \in Syncs
  PROVE  /\ sync[s] \in Records /\ SyncOK(sync[s])
         /\ arrived \in Nat
         /\ sync[s].todo \in SUBSET (1 .. arrived) /\ sync[s].got \in SUBSET (1 .. arrived)
         /\ sync[s].max \in 0 .. arrived
<1>1. sync[s] \in Records /\ SyncOK(sync[s]) /\ arrived \in Nat
  BY SizesAssumption DEF TypeOK
<1>2. QED
  BY <1>1 DEF Records

LEMMA ThreadsType ==
  ASSUME TypeOK, NEW s \in Syncs, NEW m \in Uids
  PROVE  SubjectThreads(m) \union {NewThread(s, m)} \union Threads(s, m)
           \subseteq ThreadIds \ {NotStored}
<1>1. NewThread(s, m) \in ThreadIds \ {NotStored}
  BY ThreadsAssumption DEF NewThread, ThreadIds
<1>2. \A c \in Stored : thread[c] \in ThreadIds \ {NotStored}
  BY DEF TypeOK, Stored
<1>3. SubjectThreads(m) \subseteq ThreadIds \ {NotStored}
  BY <1>2 DEF SubjectThreads
<1>4. CitedThreads(m) \subseteq ThreadIds \ {NotStored}
  BY <1>2 DEF CitedThreads
<1>5. QED
  BY <1>1, <1>3, <1>4 DEF Threads

\* A sync's step leaves the mailbox alone, and turns its record into another.
LEMMA Effects ==
  ASSUME TypeOK, NEW s \in Syncs, Step(s) \/ Failure(s)
  PROVE  UNCHANGED mailVars
BY DEF Step, Failure, Process, Poll, CreateCursor, Search, ReadCursor, SetBaseline,
       MarkStarted, Fetch, AssignThread, StoreEmail, UpdateLastUID, UpdateProgress,
       MarkCompleted, MarkError, Report, ConnectFails, SyncFails, FetchFails,
       WriteLost, Crash, AssignThreadBlind, MessageFails

-------------------------------------------------------------------------------
(* Type correctness.                                                       *)

Cursors == [exists : BOOLEAN, uid : 0 .. arrived, state : States]

LEMMA FaultType ==
  ASSUME TypeOK, Fault \/ UNCHANGED faults
  PROVE  faults' \in 0 .. MaxFaults
BY SizesAssumption DEF TypeOK, Fault

LEMMA CursorType ==
  ASSUME TypeOK, NEW state \in States
  PROVE  /\ [cursor EXCEPT !.exists = TRUE] \in Cursors
         /\ [cursor EXCEPT !.state = state] \in Cursors
BY DEF TypeOK, Cursors

LEMMA CursorUidType ==
  ASSUME TypeOK, NEW uid \in 0 .. arrived
  PROVE  [cursor EXCEPT !.uid = uid] \in Cursors
BY DEF TypeOK, Cursors

\* A step that moves a sync between two messages and writes at most the cursor.
LEMMA MoveType ==
  ASSUME TypeOK, UNCHANGED <<mailVars, storeVars, account, baseline>>,
         NEW s \in Syncs, NEW pc \in Between, NEW todo \in SUBSET (1 .. arrived),
         pc \in {"reread", "baseline", "start", "fetch"} => todo # {},
         Become(s, At(pc, todo)), cursor' \in Cursors, Fault \/ UNCHANGED faults
  PROVE  TypeOK'
<1>1. At(pc, todo) \in Records /\ SyncOK(At(pc, todo))
  BY AtType, SizesAssumption DEF TypeOK
<1>2. /\ thread' \in [Uids -> ThreadIds] /\ account' \in {"pending", "active", "error"}
      /\ baseline' \in 0 .. arrived /\ failed' \subseteq 1 .. arrived
  BY DEF TypeOK, storeVars
<1>3. faults' \in 0 .. MaxFaults
  BY FaultType
<1>4. QED
  BY <1>1, <1>2, <1>3, StepType DEF Cursors

\* A step within a batch.
LEMMA BatchType ==
  ASSUME TypeOK, UNCHANGED <<mailVars, cursor, account, baseline>>,
         NEW s \in Syncs, NEW d \in Records, SyncOK(d), Become(s, d),
         thread' \in [Uids -> ThreadIds], failed' \subseteq 1 .. arrived,
         Fault \/ UNCHANGED faults
  PROVE  TypeOK'
<1>1. /\ cursor' \in Cursors /\ account' \in {"pending", "active", "error"}
      /\ baseline' \in 0 .. arrived
  BY DEF TypeOK, Cursors
<1>2. faults' \in 0 .. MaxFaults
  BY FaultType
<1>3. QED
  BY <1>1, <1>2, StepType DEF Cursors

LEMMA MovesKeepType ==
  ASSUME TypeOK, NEW s \in Syncs,
         \/ Poll(s) \/ CreateCursor(s) \/ Search(s) \/ ReadCursor(s) \/ MarkStarted(s)
         \/ UpdateLastUID(s) \/ UpdateProgress(s) \/ MarkCompleted(s) \/ MarkError(s)
         \/ ConnectFails(s) \/ SyncFails(s) \/ WriteLost(s) \/ Crash(s)
  PROVE  TypeOK'
<1>0. /\ sync[s] \in Records /\ SyncOK(sync[s]) /\ arrived \in Nat
      /\ sync[s].todo \in SUBSET (1 .. arrived) /\ sync[s].max \in 0 .. arrived
      /\ mailbox \in SUBSET (1 .. arrived) /\ cursor \in Cursors
  BY RecordOf DEF TypeOK, Cursors
<1>1. CASE Poll(s)
  <2>1. PICK pc \in {"search", "insert"} : Become(s, At(pc, {}))
    BY <1>1 DEF Poll, Goto
  <2>2. QED
    BY <1>0, <1>1, <2>1, MoveType DEF Poll, Between, Pcs
<1>2. CASE CreateCursor(s)
  <2>1. PICK pc \in {"reportError", "search"} : Become(s, At(pc, {}))
    BY <1>2 DEF CreateCursor, Goto
  <2>2. cursor' \in Cursors
    BY <1>2, CursorType DEF CreateCursor, States
  <2>3. QED
    BY <1>2, <2>1, <2>2, MoveType DEF CreateCursor, Between, Pcs
<1>3. CASE Search(s)
  <2>1. PICK pc \in {"complete", "reread"} :
          Become(s, At(pc, mailbox)) /\ (pc = "reread" => mailbox # {})
    BY <1>3 DEF Search
  <2>2. QED
    BY <1>0, <1>3, <2>1, MoveType DEF Search, Between, Pcs
<1>4. CASE ReadCursor(s)
  <2>1. CASE cursor.uid = Null
    <3>1. Become(s, At("baseline", sync[s].todo)) /\ sync[s].todo # {}
      BY <1>0, <1>4, <2>1 DEF ReadCursor, SyncOK
    <3>2. QED
      BY <1>0, <1>4, <3>1, MoveType DEF ReadCursor, Between, Pcs
  <2>2. CASE cursor.uid # Null
    <3> DEFINE above == Above(sync[s].todo, cursor.uid)
    <3>1. above \in SUBSET (1 .. arrived)
      BY <1>0 DEF Above
    <3>2. PICK pc \in {"complete", "start"} :
            Become(s, At(pc, above)) /\ (pc = "start" => above # {})
      BY <1>4, <2>2 DEF ReadCursor
    <3>3. QED
      BY <1>0, <1>4, <3>1, <3>2, MoveType DEF ReadCursor, Between, Pcs
  <2>3. QED
    BY <2>1, <2>2
<1>5. CASE MarkStarted(s)
  <2>1. Become(s, At("fetch", sync[s].todo)) /\ sync[s].todo # {}
    BY <1>0, <1>5 DEF MarkStarted, SyncOK
  <2>2. cursor' \in Cursors
    BY <1>0, <1>5, CursorType DEF MarkStarted, States
  <2>3. QED
    BY <1>0, <1>5, <2>1, <2>2, MoveType DEF MarkStarted, Between, Pcs
<1>6. CASE UpdateLastUID(s)
  <2>1. cursor' \in Cursors
    BY <1>0, <1>6, CursorUidType DEF UpdateLastUID
  <2>2. QED
    BY <1>0, <1>6, <2>1, MoveType DEF UpdateLastUID, Between, Pcs
<1>7. CASE UpdateProgress(s)
  <2>1. PICK pc \in {"complete", "fetch"} :
          /\ Become(s, At(pc, sync[s].todo))
          /\ pc = "fetch" => sync[s].todo # {}
    BY <1>7 DEF UpdateProgress, NextBatch
  <2>2. cursor' \in Cursors
    BY <1>7, CursorType, <1>0 DEF UpdateProgress, States
  <2>3. QED
    BY <1>0, <1>7, <2>1, <2>2, MoveType DEF UpdateProgress, Between, Pcs
<1>8. CASE MarkCompleted(s)
  <2>1. cursor' \in Cursors
    BY <1>0, <1>8, CursorType DEF MarkCompleted, States
  <2>2. QED
    BY <1>8, <2>1, MoveType DEF MarkCompleted, Goto, Between, Pcs
<1>9. CASE MarkError(s)
  <2>1. cursor' \in Cursors
    BY <1>0, <1>9, CursorType DEF MarkError, States
  <2>2. QED
    BY <1>9, <2>1, MoveType DEF MarkError, Goto, Between, Pcs
<1>10. CASE ConnectFails(s)
  BY <1>0, <1>10, MoveType DEF ConnectFails, Goto, Between, Pcs
<1>11. CASE SyncFails(s)
  BY <1>0, <1>11, MoveType DEF SyncFails, Goto, Between, Pcs
<1>12. CASE WriteLost(s)
  <2>1. PICK pc \in {"progress", "complete", "fetch", "reportError", "idle"},
             todo \in {sync[s].todo, {}} :
          Become(s, At(pc, todo)) /\ (pc = "fetch" => todo # {})
    BY <1>12 DEF WriteLost, Goto, NextBatch, Idle
  <2>2. QED
    BY <1>0, <1>12, <2>1, MoveType DEF WriteLost, Between, Pcs
<1>13. CASE Crash(s)
  BY <1>0, <1>13, MoveType DEF Crash, Idle, Between, Pcs
<1>14. QED
  BY <1>1, <1>2, <1>3, <1>4, <1>5, <1>6, <1>7, <1>8, <1>9, <1>10, <1>11, <1>12, <1>13

LEMMA BatchesKeepType ==
  ASSUME TypeOK, NEW s \in Syncs,
         \/ SetBaseline(s) \/ Fetch(s) \/ FetchFails(s) \/ Report(s)
         \/ \E m \in Uids : \/ AssignThread(s, m) \/ AssignThreadBlind(s, m)
                           \/ StoreEmail(s, m) \/ MessageFails(s, m)
  PROVE  TypeOK'
<1>0. /\ sync[s] \in Records /\ SyncOK(sync[s]) /\ arrived \in Nat
      /\ sync[s].todo \in SUBSET (1 .. arrived) /\ sync[s].max \in 0 .. arrived
      /\ sync[s].got \in SUBSET (1 .. arrived) /\ mailbox \in SUBSET (1 .. arrived)
      /\ thread \in [Uids -> ThreadIds] /\ failed \in SUBSET (1 .. arrived)
  BY RecordOf DEF TypeOK
<1>r. /\ Rest(s) \in SUBSET (1 .. arrived) /\ Fetched(s) \in SUBSET (1 .. arrived)
  BY <1>0 DEF Rest, Fetched, Batch
<1>1. CASE SetBaseline(s)
  <2>1. PICK max \in sync[s].todo :
          cursor' = [cursor EXCEPT !.uid = max] /\ baseline' = Max2(baseline, max)
    BY <1>1 DEF SetBaseline
  <2>2. max \in 0 .. arrived /\ baseline \in 0 .. arrived
    BY <1>0 DEF TypeOK
  <2>3. cursor' \in Cursors /\ baseline' \in 0 .. arrived
    BY <2>1, <2>2, CursorUidType DEF Max2
  <2>4. At("complete", {}) \in Records /\ SyncOK(At("complete", {}))
    BY <1>0, AtType DEF Between, Pcs
  <2>5. /\ thread' \in [Uids -> ThreadIds] /\ account' \in {"pending", "active", "error"}
        /\ failed' \subseteq 1 .. arrived /\ faults' \in 0 .. MaxFaults
    BY <1>1 DEF SetBaseline, TypeOK, storeVars
  <2>6. QED
    BY <1>1, <2>3, <2>4, <2>5, StepType DEF SetBaseline, Goto, Cursors
<1>2. CASE Fetch(s)
  <2> DEFINE d == NextMessage(Rest(s), Fetched(s), 0)
  <2>1. d \in Records /\ SyncOK(d)
    BY <1>0, <1>r, NextMessageType
  <2>2. QED
    BY <1>0, <1>2, <2>1, BatchType DEF Fetch, storeVars
<1>3. CASE FetchFails(s)
  <2>1. PICK got \in SUBSET Fetched(s) :
          /\ \/ Become(s, NextMessage(Rest(s), got, 0))
             \/ got = {} /\ Become(s, NextBatch(Rest(s)))
          /\ failed' = failed \union (Fetched(s) \ got)
    BY <1>3 DEF FetchFails
  <2>2. \E d \in Records : SyncOK(d) /\ Become(s, d)
    BY <1>0, <1>r, <2>1, NextMessageType, NextBatchType
  <2>3. QED
    BY <1>0, <1>r, <1>3, <2>1, <2>2, BatchType DEF FetchFails
<1>4. CASE Report(s)
  <2>1. At("idle", {}) \in Records /\ SyncOK(At("idle", {}))
    BY <1>0, AtType DEF Between, Pcs
  <2>2. account' \in {"pending", "active", "error"} /\ Become(s, At("idle", {}))
    BY <1>4 DEF Report, Idle
  <2>3. /\ cursor' \in Cursors /\ thread' \in [Uids -> ThreadIds]
        /\ baseline' \in 0 .. arrived
        /\ failed' \subseteq 1 .. arrived /\ faults' \in 0 .. MaxFaults
    BY <1>4 DEF Report, TypeOK, storeVars, Cursors
  <2>4. UNCHANGED mailVars
    BY <1>4 DEF Report
  <2>5. QED
    BY <2>1, <2>2, <2>3, <2>4, StepType DEF Cursors
<1>5. ASSUME NEW m \in Uids, AssignThread(s, m) PROVE TypeOK'
  <2>1. m \in sync[s].got /\ sync[s].pc = "message" /\ m \in Nat /\ m <= arrived
    BY <1>0, <1>5 DEF AssignThread, Lowest
  <2>2. Max2(sync[s].max, m) \in 0 .. arrived
    BY <1>0, <2>1 DEF Max2
  <2>3. \E d \in Records : SyncOK(d) /\ Become(s, d)
    <3>1. \A max \in {sync[s].max, Max2(sync[s].max, m)} :
            LET d == NextMessage(sync[s].todo, sync[s].got \ {m}, max)
            IN  d \in Records /\ SyncOK(d)
      BY <1>0, <2>2, NextMessageType
    <3>2. \A t \in Threads(s, m) : Threaded(sync[s], t) \in Records
                                  /\ SyncOK(Threaded(sync[s], t))
      BY <1>0, <2>1, ThreadsType, ThreadedType
    <3>3. QED
      BY <1>5, <3>1, <3>2 DEF AssignThread
  <2>4. QED
    BY <1>0, <1>5, <2>3, BatchType DEF AssignThread, storeVars
<1>6. ASSUME NEW m \in Uids, AssignThreadBlind(s, m) PROVE TypeOK'
  <2>1. sync[s].pc = "message"
    BY <1>6 DEF AssignThreadBlind
  <2>2. \E d \in Records : SyncOK(d) /\ Become(s, d)
    <3>1. \A t \in SubjectThreads(m) \union {NewThread(s, m)} :
            Threaded(sync[s], t) \in Records /\ SyncOK(Threaded(sync[s], t))
      BY <1>0, <2>1, ThreadsType, ThreadedType
    <3>2. QED
      BY <1>6, <3>1 DEF AssignThreadBlind
  <2>3. QED
    BY <1>0, <1>6, <2>2, BatchType DEF AssignThreadBlind, storeVars
<1>7. ASSUME NEW m \in Uids, StoreEmail(s, m) PROVE TypeOK'
  <2>1. m \in sync[s].got /\ m \in Nat /\ m <= arrived
    BY <1>0, <1>7 DEF StoreEmail, Lowest
  <2> DEFINE d == NextMessage(sync[s].todo, sync[s].got \ {m}, Max2(sync[s].max, m))
  <2>2. d \in Records /\ SyncOK(d)
    <3>1. Max2(sync[s].max, m) \in 0 .. arrived
      BY <1>0, <2>1 DEF Max2
    <3>2. QED
      BY <1>0, <3>1, NextMessageType
  <2>3. sync[s].thread \in ThreadIds
    BY <1>0 DEF Records
  <2>4. thread' \in [Uids -> ThreadIds]
    BY <1>0, <1>7, <2>3 DEF StoreEmail, Insert
  <2>5. QED
    BY <1>0, <1>7, <2>2, <2>4, BatchType DEF StoreEmail
<1>8. ASSUME NEW m \in Uids, MessageFails(s, m) PROVE TypeOK'
  <2>1. m \in sync[s].got
    BY <1>8 DEF MessageFails, Lowest
  <2> DEFINE d == NextMessage(sync[s].todo, sync[s].got \ {m}, sync[s].max)
  <2>2. d \in Records /\ SyncOK(d)
    BY <1>0, NextMessageType
  <2>3. QED
    BY <1>0, <1>8, <2>1, <2>2, BatchType DEF MessageFails
<1>9. QED
  BY <1>1, <1>2, <1>3, <1>4, <1>5, <1>6, <1>7, <1>8

LEMMA TypeStep ==
  ASSUME TypeOK, [Next]_vars
  PROVE  TypeOK'
<1>1. CASE Arrive \/ Expunge
  BY <1>1, MailType
<1>2. ASSUME NEW s \in Syncs, Step(s) \/ Failure(s) PROVE TypeOK'
  BY <1>2, MovesKeepType, BatchesKeepType DEF Step, Failure, Process
<1>3. CASE UNCHANGED vars
  BY <1>3 DEF TypeOK, vars, mailVars, storeVars, Records, ThreadIds
<1>4. QED
  BY <1>1, <1>2, <1>3 DEF Next

\* The state keeps its shape: the row of the cursor and of every message, and a
\* sync that has messages in hand exactly while it works on one (TypeOK).
THEOREM TypeCorrect == Spec => []TypeOK
BY TypeInit, TypeStep, PTL DEF Spec

-------------------------------------------------------------------------------
(* The cursor passes no message that could have been stored.               *)

\* The messages that are stored or have an excuse.
Settled == {m \in Uids : m \in Stored \/ Excused(m)}

\* Below a message still to be worked on, every message is settled or still to
\* be worked on as well.
NothingSkipped(left, settled) ==
  \A u \in left : \A m \in 1 .. u : m \in left \union settled

\* The list of a search: what is below one of its messages is in it, or is not
\* in the mailbox.
SearchComplete(found, box) ==
  \A u \in found : \A m \in 1 .. u : m \in found \/ m \notin box

\* A batch is below the rest of the list.
BatchIsLowest(got, todo) == \A g \in got, t \in todo : g < t

\* Up to max all messages are settled, and none is still to be worked on.
DoneUpTo(max, left, settled) == \A m \in 1 .. max : m \in settled \ left

\* What holds of a sync by where it is.
GapOK(d, settled, box) ==
  /\ d.pc \in {"reread", "baseline"} => SearchComplete(d.todo, box)
  /\ d.pc \in {"start", "fetch", "message", "store", "lastUID", "progress"}
       => NothingSkipped(d.got \union d.todo, settled)
  /\ d.pc \in {"message", "store", "lastUID"}
       => BatchIsLowest(d.got, d.todo) /\ DoneUpTo(d.max, d.got \union d.todo, settled)

SyncsKeepUp == \A s \in Syncs : GapOK(sync[s], Settled, mailbox)

\* What no step takes back.
Grows ==
  /\ Stored \subseteq Stored' /\ failed \subseteq failed' /\ baseline <= baseline'
  /\ arrived <= arrived'
  /\ \A m \in 1 .. arrived : m \notin mailbox => m \notin mailbox'

LEMMA StepGrows ==
  ASSUME TypeOK, TypeOK', [Next]_vars
  PROVE  Grows
<1>0. arrived \in Nat /\ baseline \in Nat /\ thread \in [Uids -> ThreadIds]
  BY SizesAssumption DEF TypeOK
<1>1. CASE Arrive
  BY <1>0, <1>1 DEF Arrive, Grows, storeVars, Stored
<1>2. CASE Expunge
  BY <1>0, <1>2 DEF Expunge, Grows, storeVars, Stored
<1>3. ASSUME NEW s \in Syncs, Step(s) \/ Failure(s) PROVE Grows
  <2>1. UNCHANGED mailVars
    BY <1>3, Effects
  <2>2. baseline <= baseline'
    <3>1. CASE SetBaseline(s)
      <4>1. PICK max \in sync[s].todo : baseline' = Max2(baseline, max)
        BY <3>1 DEF SetBaseline
      <4>2. max \in Nat
        BY RecordOf
      <4>3. QED
        BY <1>0, <4>1, <4>2 DEF Max2
    <3>2. CASE ~SetBaseline(s)
      <4>1. baseline' = baseline
        BY <1>3, <3>2 DEF Step, Failure, Process, Poll, CreateCursor, Search,
           ReadCursor, MarkStarted, Fetch, AssignThread, StoreEmail, UpdateLastUID,
           UpdateProgress, MarkCompleted, MarkError, Report, ConnectFails, SyncFails,
           FetchFails, WriteLost, Crash, AssignThreadBlind, MessageFails
      <4>2. QED
        BY <1>0, <4>1
    <3>3. QED
      BY <3>1, <3>2
  <2>3. failed \subseteq failed'
    BY <1>3 DEF Step, Failure, Process, Poll, CreateCursor, Search, SetBaseline,
       ReadCursor, MarkStarted, Fetch, AssignThread, StoreEmail, UpdateLastUID,
       UpdateProgress, MarkCompleted, MarkError, Report, ConnectFails, SyncFails,
       FetchFails, WriteLost, Crash, AssignThreadBlind, MessageFails, storeVars
  <2>4. Stored \subseteq Stored'
    <3>1. ASSUME NEW m \in Uids, StoreEmail(s, m) PROVE Stored \subseteq Stored'
      BY <1>0, <3>1 DEF StoreEmail, Insert, Stored
    <3>2. CASE ~ \E m \in Uids : StoreEmail(s, m)
      BY <1>3, <3>2 DEF Step, Failure, Process, Poll, CreateCursor, Search, SetBaseline,
         ReadCursor, MarkStarted, Fetch, AssignThread, UpdateLastUID, Stored,
         UpdateProgress, MarkCompleted, MarkError, Report, ConnectFails, SyncFails,
         FetchFails, WriteLost, Crash, AssignThreadBlind, MessageFails, storeVars
    <3>3. QED
      BY <3>1, <3>2
  <2>5. QED
    BY <1>0, <2>1, <2>2, <2>3, <2>4 DEF Grows, mailVars
<1>4. CASE UNCHANGED vars
  BY <1>0, <1>4 DEF vars, Grows, mailVars, storeVars, Stored
<1>5. QED
  BY <1>1, <1>2, <1>3, <1>4 DEF Next

LEMMA SettledGrows ==
  ASSUME TypeOK, TypeOK', Grows
  PROVE  Settled \subseteq Settled'
<1>1. /\ arrived \in Nat /\ arrived' \in Nat /\ baseline \in Nat /\ baseline' \in Nat
      /\ mailbox' \subseteq 1 .. arrived' /\ MaxUID \in Nat
  BY SizesAssumption DEF TypeOK
<1>2. SUFFICES ASSUME NEW m \in Uids, m \in Stored \/ Excused(m)
               PROVE  m \in Stored' \/ Excused(m)'
  BY DEF Settled
<1>3. m \in Stored => m \in Stored'
  BY DEF Grows
<1>4. m <= baseline => m <= baseline'
  BY <1>1 DEF Grows, Uids
<1>5. m \in failed => m \in failed'
  BY DEF Grows
<1>6. m <= arrived /\ m \notin mailbox => m <= arrived' /\ m \notin mailbox'
  BY <1>1 DEF Grows, Uids
<1>7. QED
  BY <1>2, <1>3, <1>4, <1>5, <1>6 DEF Excused

\* The cursor stays where it is.
LEMMA CursorStays ==
  ASSUME TypeOK, TypeOK', Grows, NoGap, cursor'.uid = cursor.uid
  PROVE  NoGap'
BY SettledGrows DEF NoGap, Settled

\* What held of a record still holds of it when more is settled and no old
\* message has come back.
LEMMA GapStays ==
  ASSUME NEW n \in Nat, NEW d, d.todo \subseteq 1 .. n, NEW settled, NEW settled2,
         NEW box, NEW box2, settled \subseteq settled2,
         \A m \in 1 .. n : m \notin box => m \notin box2,
         GapOK(d, settled, box)
  PROVE  GapOK(d, settled2, box2)
<1>1. SearchComplete(d.todo, box) => SearchComplete(d.todo, box2)
  BY DEF SearchComplete
<1>2. NothingSkipped(d.got \union d.todo, settled)
        => NothingSkipped(d.got \union d.todo, settled2)
  BY DEF NothingSkipped
<1>3. DoneUpTo(d.max, d.got \union d.todo, settled)
        => DoneUpTo(d.max, d.got \union d.todo, settled2)
  BY DEF DoneUpTo
<1>4. QED
  BY <1>1, <1>2, <1>3 DEF GapOK

LEMMA OthersKeepUp ==
  ASSUME TypeOK, TypeOK', Grows, SyncsKeepUp
  PROVE  \A s \in Syncs : GapOK(sync[s], Settled', mailbox')
<1> SUFFICES ASSUME NEW s \in Syncs PROVE GapOK(sync[s], Settled', mailbox')
  OBVIOUS
<1>1. arrived \in Nat /\ sync[s].todo \subseteq 1 .. arrived
  BY RecordOf
<1>2. Settled \subseteq Settled' /\ \A m \in 1 .. arrived : m \notin mailbox => m \notin mailbox'
  BY SettledGrows DEF Grows
<1>3. GapOK(sync[s], Settled, mailbox)
  BY DEF SyncsKeepUp
<1>4. QED
  BY <1>1, <1>2, <1>3, GapStays

\* A step that leaves the sync s a record that keeps up.
LEMMA BecomeKeepsUp ==
  ASSUME TypeOK, TypeOK', Grows, SyncsKeepUp, NEW s \in Syncs, NEW d,
         Become(s, d), GapOK(d, Settled', mailbox')
  PROVE  SyncsKeepUp'
<1>1. \A r \in Syncs : sync'[r] = IF r = s THEN d ELSE sync[r]
  BY DEF Become, TypeOK
<1>2. QED
  BY <1>1, OthersKeepUp DEF SyncsKeepUp

\* The records a step can leave.

LEMMA GapAt ==
  ASSUME NEW pc \in Between, NEW todo, NEW settled, NEW box,
         pc \in {"reread", "baseline"} => SearchComplete(todo, box),
         pc \in {"start", "fetch", "progress"} => NothingSkipped(todo, settled)
  PROVE  GapOK(At(pc, todo), settled, box)
<1>1. {} \union todo = todo
  OBVIOUS
<1>2. QED
  BY <1>1 DEF GapOK, At, Between, Pcs

LEMMA GapNextMessage ==
  ASSUME NEW todo, NEW got, NEW max, NEW settled, NEW box,
         NothingSkipped(got \union todo, settled),
         BatchIsLowest(got, todo), DoneUpTo(max, got \union todo, settled)
  PROVE  GapOK(NextMessage(todo, got, max), settled, box)
<1> DEFINE d == NextMessage(todo, got, max)
<1>1. /\ d.todo = todo /\ d.got = got /\ d.max = max
      /\ d.pc \in {"message", "lastUID", "progress"}
  BY DEF NextMessage
<1>2. QED
  BY <1>1 DEF GapOK

\* The lowest message of a batch is left out of it once it is settled.
LEMMA GapNext ==
  ASSUME NEW n \in Nat, NEW todo \in SUBSET (1 .. n), NEW got \in SUBSET (1 .. n),
         NEW max \in 0 .. n, NEW m \in 1 .. n, Lowest(m, got),
         NEW settled, NEW box, m \in settled,
         NothingSkipped(got \union todo, settled), BatchIsLowest(got, todo),
         DoneUpTo(max, got \union todo, settled), NEW max2 \in {max, Max2(max, m)}
  PROVE  GapOK(NextMessage(todo, got \ {m}, max2), settled, box)
<1> DEFINE left == (got \ {m}) \union todo
<1>1. m \notin todo
  BY DEF BatchIsLowest, Lowest
<1>2. NothingSkipped(left, settled)
  BY DEF NothingSkipped
<1>3. BatchIsLowest(got \ {m}, todo)
  BY DEF BatchIsLowest
<1>4. \A k \in 1 .. m : k \in settled \ left
  <2> SUFFICES ASSUME NEW k \in 1 .. m PROVE k \in settled /\ k \notin left
    OBVIOUS
  <2>1. k \notin todo
    BY DEF BatchIsLowest, Lowest
  <2>2. k \in got => k = m
    BY DEF Lowest
  <2>3. k \in got \union todo \/ k \in settled
    BY DEF NothingSkipped, Lowest
  <2>4. QED
    BY <2>1, <2>2, <2>3
<1>5. DoneUpTo(max2, left, settled)
  <2>1. \A k \in 1 .. max : k \in settled \ left
    BY DEF DoneUpTo
  <2>2. max2 = max \/ max2 = m
    BY DEF Max2
  <2>3. QED
    BY <1>4, <2>1, <2>2 DEF DoneUpTo
<1>6. QED
  BY <1>2, <1>3, <1>5, GapNextMessage

\* A batch is the beginning of the list.
LEMMA BatchBelowRest ==
  ASSUME NEW n \in Nat, NEW todo \in SUBSET (1 .. n),
         NEW b \in Batch(todo), NEW t \in todo \ Batch(todo)
  PROVE  b < t
<1>1. IsFiniteSet(todo)
  <2>1. IsFiniteSet(1 .. n)
    BY FS_Interval
  <2>2. QED
    BY <2>1, FS_Subset
<1>2. b \in todo /\ Cardinality({v \in todo : v < b}) < BatchSize
  BY DEF Batch
<1>3. t \in todo /\ ~(Cardinality({v \in todo : v < t}) < BatchSize)
  BY DEF Batch
<1>4. SUFFICES ASSUME t <= b PROVE FALSE
  BY <1>2, <1>3
<1>5. {v \in todo : v < t} \subseteq {v \in todo : v < b}
  <2>1. \A v \in todo : v \in Int
    OBVIOUS
  <2>2. b \in Int /\ t \in Int
    BY <1>2, <1>3, <2>1
  <2>3. \A v \in todo : v < t => v < b
    BY <1>4, <2>1, <2>2
  <2>4. QED
    BY <2>3
<1>6. IsFiniteSet({v \in todo : v < b}) /\ IsFiniteSet({v \in todo : v < t})
  BY <1>1, FS_Subset
<1>7. /\ Cardinality({v \in todo : v < t}) <= Cardinality({v \in todo : v < b})
      /\ Cardinality({v \in todo : v < t}) \in Nat
      /\ Cardinality({v \in todo : v < b}) \in Nat
  BY <1>5, <1>6, FS_Subset, FS_CardinalityType
<1>8. QED
  BY <1>2, <1>3, <1>7, SizesAssumption

\* The moves of a sync outside a batch.
LEMMA MovesKeepUp ==
  ASSUME TypeOK, TypeOK', Grows, NoGap, SyncsKeepUp, NEW s \in Syncs,
         \/ Poll(s) \/ CreateCursor(s) \/ Search(s) \/ ReadCursor(s) \/ SetBaseline(s)
         \/ MarkCompleted(s) \/ MarkError(s) \/ Report(s)
         \/ ConnectFails(s) \/ SyncFails(s) \/ Crash(s)
  PROVE  NoGap' /\ SyncsKeepUp'
<1>0. /\ sync[s].todo \in SUBSET (1 .. arrived) /\ arrived \in Nat
      /\ mailbox \in SUBSET (1 .. arrived) /\ 1 .. arrived \subseteq Uids
      /\ cursor \in Cursors /\ GapOK(sync[s], Settled, mailbox)
      /\ Settled \subseteq Settled'
  <2>1. sync[s].todo \in SUBSET (1 .. arrived) /\ arrived \in Nat
    BY RecordOf
  <2>2. mailbox \in SUBSET (1 .. arrived) /\ 1 .. arrived \subseteq Uids
    BY <2>1, SizesAssumption DEF TypeOK, Uids
  <2>3. cursor \in Cursors /\ GapOK(sync[s], Settled, mailbox)
    BY DEF TypeOK, Cursors, SyncsKeepUp
  <2>4. QED
    BY <2>1, <2>2, <2>3, SettledGrows
<1>1. CASE \/ Poll(s) \/ CreateCursor(s) \/ MarkCompleted(s) \/ MarkError(s) \/ Report(s)
           \/ ConnectFails(s) \/ SyncFails(s) \/ Crash(s)
  <2>1. PICK pc \in {"idle", "insert", "search", "complete", "markError",
                     "reportActive", "reportError"} : Become(s, At(pc, {}))
    BY <1>1 DEF Poll, CreateCursor, MarkCompleted, MarkError, Report, ConnectFails,
       SyncFails, Crash, Goto, Idle
  <2>2. GapOK(At(pc, {}), Settled', mailbox')
    BY GapAt DEF Between, Pcs
  <2>3. cursor'.uid = cursor.uid
    BY <1>0, <1>1 DEF Poll, CreateCursor, MarkCompleted, MarkError, Report, ConnectFails,
       SyncFails, Crash, Cursors
  <2>4. QED
    BY <2>1, <2>2, <2>3, CursorStays, BecomeKeepsUp
<1>2. CASE Search(s)
  <2>1. PICK pc \in {"complete", "reread"} : Become(s, At(pc, mailbox))
    BY <1>2 DEF Search
  <2>2. mailbox' = mailbox /\ cursor' = cursor
    BY <1>2 DEF Search, mailVars
  <2>3. SearchComplete(mailbox, mailbox')
    BY <2>2 DEF SearchComplete
  <2>4. GapOK(At(pc, mailbox), Settled', mailbox')
    BY <2>3, GapAt DEF Between, Pcs
  <2>5. QED
    BY <2>1, <2>2, <2>4, CursorStays, BecomeKeepsUp
<1>3. CASE ReadCursor(s)
  <2> DEFINE todo == sync[s].todo
             above == Above(todo, cursor.uid)
  <2>1. mailbox' = mailbox /\ cursor' = cursor /\ sync[s].pc = "reread"
    BY <1>3 DEF ReadCursor, mailVars
  <2>2. SearchComplete(todo, mailbox)
    BY <1>0, <2>1 DEF GapOK
  <2>3. NoGap'
    BY <2>1, CursorStays
  <2>4. CASE cursor.uid = Null
    <3>1. Become(s, At("baseline", todo))
      BY <1>3, <2>4 DEF ReadCursor
    <3>2. GapOK(At("baseline", todo), Settled', mailbox')
      BY <2>1, <2>2, GapAt DEF Between, Pcs
    <3>3. QED
      BY <2>3, <3>1, <3>2, BecomeKeepsUp
  <2>5. CASE cursor.uid # Null
    <3>1. PICK pc \in {"complete", "start"} : Become(s, At(pc, above))
      BY <1>3, <2>5 DEF ReadCursor
    <3>2. NothingSkipped(above, Settled)
      <4> SUFFICES ASSUME NEW u \in todo, u > cursor.uid, NEW m \in 1 .. u, m \notin above
                   PROVE  m \in Settled
        BY DEF NothingSkipped, Above
      <4>1. m \in Uids /\ m <= arrived
        BY <1>0
      <4>2. CASE m \in todo
        <5>1. m <= cursor.uid
          BY <1>0, <4>2 DEF Above, Cursors
        <5>2. QED
          BY <4>1, <5>1 DEF NoGap, Settled
      <4>3. CASE m \notin todo
        BY <2>2, <4>1, <4>3 DEF SearchComplete, Settled, Excused
      <4>4. QED
        BY <4>2, <4>3
    <3>3. NothingSkipped(above, Settled')
      BY <1>0, <3>2 DEF NothingSkipped
    <3>4. GapOK(At(pc, above), Settled', mailbox')
      BY <3>3, GapAt DEF Between, Pcs
    <3>5. QED
      BY <2>3, <3>1, <3>4, BecomeKeepsUp
  <2>6. QED
    BY <2>4, <2>5
<1>4. CASE SetBaseline(s)
  <2>1. PICK max \in sync[s].todo :
          cursor' = [cursor EXCEPT !.uid = max] /\ baseline' = Max2(baseline, max)
    BY <1>4 DEF SetBaseline
  <2>2. cursor'.uid = max /\ max \in Nat
    BY <1>0, <2>1 DEF Cursors
  <2>3. max <= baseline' /\ baseline' \in Nat
    BY <2>1, <2>2 DEF Max2, TypeOK
  <2>4. NoGap'
    BY <2>2, <2>3 DEF NoGap, Excused, Uids
  <2>5. Become(s, At("complete", {}))
    BY <1>4 DEF SetBaseline, Goto
  <2>6. GapOK(At("complete", {}), Settled', mailbox')
    BY GapAt DEF Between, Pcs
  <2>7. QED
    BY <2>4, <2>5, <2>6, BecomeKeepsUp
<1>5. QED
  BY <1>1, <1>2, <1>3, <1>4

\* The moves of a sync between a batch and the cursor.
LEMMA CursorMovesKeepUp ==
  ASSUME TypeOK, TypeOK', Grows, NoGap, SyncsKeepUp, NEW s \in Syncs,
         MarkStarted(s) \/ UpdateLastUID(s) \/ UpdateProgress(s) \/ WriteLost(s)
  PROVE  NoGap' /\ SyncsKeepUp'
<1> DEFINE todo == sync[s].todo
<1>0. /\ cursor \in Cursors /\ GapOK(sync[s], Settled, mailbox)
      /\ Settled \subseteq Settled' /\ SyncOK(sync[s]) /\ sync[s].max \in Nat
  BY RecordOf, SettledGrows DEF TypeOK, Cursors, SyncsKeepUp
<1>1. sync[s].pc \in {"start", "lastUID", "progress"} => NothingSkipped(todo, Settled')
  <2>1. {} \union todo = todo
    OBVIOUS
  <2>2. sync[s].pc \in {"start", "lastUID", "progress"} => sync[s].got = {}
    BY <1>0 DEF SyncOK
  <2>3. sync[s].pc \in {"start", "lastUID", "progress"} => NothingSkipped(todo, Settled)
    BY <1>0, <2>1, <2>2 DEF GapOK
  <2>4. NothingSkipped(todo, Settled) => NothingSkipped(todo, Settled')
    BY <1>0 DEF NothingSkipped
  <2>5. QED
    BY <2>3, <2>4
<1>2. SyncsKeepUp'
  <2>1. \/ \E pc \in {"fetch", "progress", "complete"} :
             /\ Become(s, At(pc, todo))
             /\ sync[s].pc \in {"start", "lastUID", "progress"}
        \/ \E pc \in {"idle", "reportError"} : Become(s, At(pc, {}))
    BY DEF MarkStarted, UpdateLastUID, UpdateProgress, WriteLost, NextBatch, Goto, Idle
  <2>2. ASSUME NEW pc \in {"fetch", "progress", "complete"}, Become(s, At(pc, todo)),
               sync[s].pc \in {"start", "lastUID", "progress"}
        PROVE  SyncsKeepUp'
    <3>1. GapOK(At(pc, todo), Settled', mailbox')
      BY <1>1, <2>2, GapAt DEF Between, Pcs
    <3>2. QED
      BY <2>2, <3>1, BecomeKeepsUp
  <2>3. ASSUME NEW pc \in {"idle", "reportError"}, Become(s, At(pc, {}))
        PROVE  SyncsKeepUp'
    <3>1. GapOK(At(pc, {}), Settled', mailbox')
      BY GapAt DEF Between, Pcs
    <3>2. QED
      BY <2>3, <3>1, BecomeKeepsUp
  <2>4. QED
    BY <2>1, <2>2, <2>3
<1>3. NoGap'
  <2>1. CASE UpdateLastUID(s)
    <3>1. cursor'.uid = sync[s].max /\ sync[s].pc = "lastUID"
      BY <1>0, <2>1 DEF UpdateLastUID, Cursors
    <3>2. \A m \in 1 .. sync[s].max : m \in Settled'
      BY <1>0, <3>1 DEF GapOK, DoneUpTo
    <3>3. \A m \in Uids : m <= cursor'.uid => m \in Settled'
      BY <1>0, <3>1, <3>2 DEF Uids
    <3>4. QED
      BY <3>3 DEF NoGap, Settled
  <2>2. CASE ~UpdateLastUID(s)
    <3>1. cursor'.uid = cursor.uid
      BY <1>0, <2>2 DEF MarkStarted, UpdateProgress, WriteLost, Cursors
    <3>2. QED
      BY <3>1, CursorStays
  <2>3. QED
    BY <2>1, <2>2
<1>4. QED
  BY <1>2, <1>3

\* A batch: what FETCH does not bring is gone, or failed.
LEMMA GapFetched ==
  ASSUME NEW n \in Nat, NEW todo \in SUBSET (1 .. n), NEW settled, NEW box,
         NothingSkipped(todo, settled), NEW got \in SUBSET Batch(todo),
         Batch(todo) \ got \subseteq settled
  PROVE  /\ GapOK(NextMessage(todo \ Batch(todo), got, 0), settled, box)
         /\ got = {} => GapOK(NextBatch(todo \ Batch(todo)), settled, box)
<1> DEFINE rest == todo \ Batch(todo)
<1>1. NothingSkipped(got \union rest, settled)
  <2>1. got \union rest \subseteq todo /\ todo \subseteq got \union rest \union settled
    BY DEF Batch
  <2>2. QED
    BY <2>1 DEF NothingSkipped
<1>2. BatchIsLowest(got, rest)
  BY BatchBelowRest DEF BatchIsLowest
<1>3. DoneUpTo(0, got \union rest, settled)
  BY DEF DoneUpTo
<1>4. GapOK(NextMessage(rest, got, 0), settled, box)
  BY <1>1, <1>2, <1>3, GapNextMessage
<1>5. ASSUME got = {} PROVE GapOK(NextBatch(rest), settled, box)
  <2>1. NothingSkipped(rest, settled)
    <3>1. got \union rest = rest
      BY <1>5
    <3>2. QED
      BY <1>1, <3>1
  <2>2. PICK pc \in {"complete", "fetch"} : NextBatch(rest) = At(pc, rest)
    BY DEF NextBatch
  <2>3. QED
    BY <2>1, <2>2, GapAt DEF Between, Pcs
<1>6. QED
  BY <1>4, <1>5

LEMMA FetchKeepsUp ==
  ASSUME TypeOK, TypeOK', Grows, NoGap, SyncsKeepUp, NEW s \in Syncs,
         Fetch(s) \/ FetchFails(s)
  PROVE  NoGap' /\ SyncsKeepUp'
<1> DEFINE todo == sync[s].todo
<1>0. /\ arrived \in Nat /\ todo \in SUBSET (1 .. arrived) /\ 1 .. arrived \subseteq Uids
      /\ GapOK(sync[s], Settled, mailbox) /\ SyncOK(sync[s]) /\ sync[s].pc = "fetch"
      /\ Settled \subseteq Settled'
  <2>1. arrived \in Nat /\ todo \in SUBSET (1 .. arrived) /\ SyncOK(sync[s])
    BY RecordOf
  <2>2. 1 .. arrived \subseteq Uids
    BY SizesAssumption DEF TypeOK, Uids
  <2>3. GapOK(sync[s], Settled, mailbox) /\ sync[s].pc = "fetch"
    BY DEF SyncsKeepUp, Fetch, FetchFails
  <2>4. QED
    BY <2>1, <2>2, <2>3, SettledGrows
<1>1. NothingSkipped(todo, Settled')
  <2>1. sync[s].got = {}
    BY <1>0 DEF SyncOK
  <2>2. {} \union todo = todo
    OBVIOUS
  <2>3. NothingSkipped(todo, Settled)
    BY <1>0, <2>1, <2>2 DEF GapOK
  <2>4. QED
    BY <1>0, <2>3 DEF NothingSkipped
<1>2. NoGap'
  BY CursorStays DEF Fetch, FetchFails
<1>3. Batch(todo) \ mailbox \subseteq Settled'
  <2>1. Batch(todo) \ mailbox \subseteq Settled
    BY <1>0 DEF Batch, Settled, Excused
  <2>2. QED
    BY <1>0, <2>1
<1>4. CASE Fetch(s)
  <2>1. Fetched(s) \subseteq Batch(todo) /\ Batch(todo) \ Fetched(s) \subseteq Settled'
    BY <1>3 DEF Fetched
  <2>2. GapOK(NextMessage(Rest(s), Fetched(s), 0), Settled', mailbox')
    BY <1>0, <1>1, <2>1, GapFetched DEF Rest
  <2>3. Become(s, NextMessage(Rest(s), Fetched(s), 0))
    BY <1>4 DEF Fetch
  <2>4. QED
    BY <1>2, <2>2, <2>3, BecomeKeepsUp
<1>5. CASE FetchFails(s)
  <2>1. PICK got \in SUBSET Fetched(s) :
          /\ \/ Become(s, NextMessage(Rest(s), got, 0))
             \/ got = {} /\ Become(s, NextBatch(Rest(s)))
          /\ failed' = failed \union (Fetched(s) \ got)
    BY <1>5 DEF FetchFails
  <2>2. got \subseteq Batch(todo) /\ Batch(todo) \subseteq todo
    BY <2>1 DEF Fetched, Batch
  <2>3. Fetched(s) \ got \subseteq Settled'
    BY <1>0, <2>1, <2>2 DEF Settled, Excused, Fetched
  <2>4. Batch(todo) \ got \subseteq Settled'
    BY <1>3, <2>3 DEF Fetched
  <2>5. /\ GapOK(NextMessage(Rest(s), got, 0), Settled', mailbox')
        /\ got = {} => GapOK(NextBatch(Rest(s)), Settled', mailbox')
    BY <1>0, <1>1, <2>2, <2>4, GapFetched DEF Rest
  <2>6. QED
    BY <1>2, <2>1, <2>5, BecomeKeepsUp
<1>6. QED
  BY <1>4, <1>5

\* The message a sync works on: it is in the list, and passing it over or
\* storing it settles it.
LEMMA MessageKeepsUp ==
  ASSUME TypeOK, TypeOK', Grows, SyncsKeepUp, NEW s \in Syncs, NEW m \in Uids,
         sync[s].pc \in {"message", "store"}, Lowest(m, sync[s].got), m \in Settled',
         NEW max \in {sync[s].max, Max2(sync[s].max, m)},
         Become(s, NextMessage(sync[s].todo, sync[s].got \ {m}, max))
  PROVE  SyncsKeepUp'
<1>1. /\ arrived \in Nat /\ sync[s].todo \in SUBSET (1 .. arrived)
      /\ sync[s].got \in SUBSET (1 .. arrived) /\ sync[s].max \in 0 .. arrived
  BY RecordOf
<1>2. m \in 1 .. arrived
  BY <1>1 DEF Lowest
<1>3. GapOK(sync[s], Settled', mailbox')
  BY OthersKeepUp
<1>4. /\ NothingSkipped(sync[s].got \union sync[s].todo, Settled')
      /\ BatchIsLowest(sync[s].got, sync[s].todo)
      /\ DoneUpTo(sync[s].max, sync[s].got \union sync[s].todo, Settled')
  BY <1>3 DEF GapOK
<1>5. GapOK(NextMessage(sync[s].todo, sync[s].got \ {m}, max), Settled', mailbox')
  BY <1>1, <1>2, <1>4, GapNext
<1>6. QED
  BY <1>5, BecomeKeepsUp

\* A message with a thread is the next to be stored.
LEMMA ThreadedKeepsUp ==
  ASSUME TypeOK, TypeOK', Grows, SyncsKeepUp, NEW s \in Syncs,
         sync[s].pc = "message", NEW t, Become(s, Threaded(sync[s], t))
  PROVE  SyncsKeepUp'
<1>1. GapOK(sync[s], Settled', mailbox')
  BY OthersKeepUp
<1>2. GapOK(Threaded(sync[s], t), Settled', mailbox')
  BY <1>1 DEF GapOK, Threaded
<1>3. QED
  BY <1>2, BecomeKeepsUp

LEMMA MessagesKeepUp ==
  ASSUME TypeOK, TypeOK', Grows, NoGap, SyncsKeepUp, NEW s \in Syncs, NEW m \in Uids,
         \/ AssignThread(s, m) \/ AssignThreadBlind(s, m)
         \/ StoreEmail(s, m) \/ MessageFails(s, m)
  PROVE  NoGap' /\ SyncsKeepUp'
<1>1. NoGap'
  BY CursorStays DEF AssignThread, AssignThreadBlind, StoreEmail, MessageFails
<1>2. CASE AssignThread(s, m)
  <2>1. CASE m \in NoId \union Broken
    <3>1. m \in Settled'
      BY <2>1 DEF Settled, Excused
    <3>2. PICK max \in {sync[s].max, Max2(sync[s].max, m)} :
            Become(s, NextMessage(sync[s].todo, sync[s].got \ {m}, max))
      BY <1>2, <2>1 DEF AssignThread
    <3>3. QED
      BY <1>1, <1>2, <3>1, <3>2, MessageKeepsUp DEF AssignThread
  <2>2. CASE m \notin NoId \union Broken
    <3>1. PICK t : Become(s, Threaded(sync[s], t))
      BY <1>2, <2>2 DEF AssignThread
    <3>2. QED
      BY <1>1, <1>2, <3>1, ThreadedKeepsUp DEF AssignThread
  <2>3. QED
    BY <2>1, <2>2
<1>3. CASE AssignThreadBlind(s, m)
  <2>1. PICK t : Become(s, Threaded(sync[s], t))
    BY <1>3 DEF AssignThreadBlind
  <2>2. QED
    BY <1>1, <1>3, <2>1, ThreadedKeepsUp DEF AssignThreadBlind
<1>4. CASE StoreEmail(s, m)
  <2>1. sync[s].thread # NotStored
    BY <1>4, RecordOf DEF StoreEmail, SyncOK
  <2>2. thread'[m] # NotStored
    BY <1>4, <2>1 DEF StoreEmail, Insert, TypeOK
  <2>3. m \in Settled'
    BY <2>2 DEF Settled, Stored
  <2>4. QED
    BY <1>1, <1>4, <2>3, MessageKeepsUp DEF StoreEmail
<1>5. CASE MessageFails(s, m)
  <2>1. m \in Settled'
    BY <1>5 DEF MessageFails, Settled, Excused
  <2>2. QED
    BY <1>1, <1>5, <2>1, MessageKeepsUp DEF MessageFails
<1>6. QED
  BY <1>2, <1>3, <1>4, <1>5

LEMMA GapInit == Init => NoGap /\ SyncsKeepUp
BY DEF Init, NoGap, Null, Uids, SyncsKeepUp, GapOK, Idle, At

LEMMA GapStep ==
  ASSUME TypeOK, TypeOK', NoGap, SyncsKeepUp, [Next]_vars
  PROVE  NoGap' /\ SyncsKeepUp'
<1>0. Grows
  BY StepGrows
<1>1. CASE Arrive \/ Expunge \/ UNCHANGED vars
  <2>1. cursor' = cursor /\ sync' = sync
    BY <1>1 DEF Arrive, Expunge, vars
  <2>2. QED
    BY <1>0, <2>1, CursorStays, OthersKeepUp DEF SyncsKeepUp
<1>2. ASSUME NEW s \in Syncs, Step(s) \/ Failure(s) PROVE NoGap' /\ SyncsKeepUp'
  BY <1>0, <1>2, MovesKeepUp, CursorMovesKeepUp, FetchKeepsUp, MessagesKeepUp
     DEF Step, Failure, Process
<1>3. QED
  BY <1>1, <1>2 DEF Next

\* The cursor never moves past a message that could have been stored and was
\* not, for any number of servers that sync the account, any batch size and any
\* number of failures, crashes and deletions (NoGap).
THEOREM CursorLeavesNoGap == Spec => []NoGap
<1>1. Spec => [](TypeOK /\ NoGap /\ SyncsKeepUp)
  BY TypeInit, GapInit, TypeStep, GapStep, PTL DEF Spec
<1>2. QED
  BY <1>1, PTL

-------------------------------------------------------------------------------
(* Past mail is never stored.                                              *)

Past == 1 .. Existing

\* No sync has past mail in hand or in its list, and until the cursor is read
\* the list has all of it that is left.
PastOK(d, box) ==
  /\ d.got \cap Past = {} /\ (d.max = 0 \/ d.max > Existing)
  /\ d.pc \in {"start", "fetch", "message", "store", "lastUID", "progress"}
       => d.todo \cap box \cap Past = {}
  /\ d.pc \in {"reread", "baseline"} => box \cap Past \subseteq d.todo

SyncsLeavePast == \A s \in Syncs : PastOK(sync[s], mailbox)

\* Once there is a baseline, what is left of the past is below the cursor.
PastIsBelow == cursor.uid # Null => \A m \in mailbox \cap Past : m <= cursor.uid

PastInv == PastMailSkipped /\ PastIsBelow /\ SyncsLeavePast

LEMMA PastShrinks ==
  ASSUME TypeOK, [Next]_vars
  PROVE  mailbox' \cap Past \subseteq mailbox
<1>1. CASE Arrive
  <2>1. mailbox' = mailbox \union {arrived + 1} /\ arrived + 1 > Existing
    BY <1>1, SizesAssumption DEF Arrive, TypeOK
  <2>2. QED
    BY <2>1, SizesAssumption DEF Past
<1>2. CASE Expunge
  BY <1>2 DEF Expunge
<1>3. ASSUME NEW s \in Syncs, Step(s) \/ Failure(s) PROVE mailbox' = mailbox
  BY <1>3, Effects DEF mailVars
<1>4. CASE UNCHANGED vars
  BY <1>4 DEF vars, mailVars
<1>5. QED
  BY <1>1, <1>2, <1>3, <1>4 DEF Next

LEMMA PastStays ==
  ASSUME NEW d, NEW box, NEW box2, box2 \cap Past \subseteq box, PastOK(d, box)
  PROVE  PastOK(d, box2)
BY DEF PastOK

LEMMA BecomeLeavesPast ==
  ASSUME TypeOK, SyncsLeavePast, mailbox' \cap Past \subseteq mailbox,
         NEW s \in Syncs, NEW d, Become(s, d), PastOK(d, mailbox)
  PROVE  SyncsLeavePast'
<1>1. \A r \in Syncs : sync'[r] = IF r = s THEN d ELSE sync[r]
  BY DEF Become, TypeOK
<1>2. \A r \in Syncs : PastOK(sync[r], mailbox') /\ PastOK(d, mailbox')
  BY PastStays DEF SyncsLeavePast
<1>3. QED
  BY <1>1, <1>2 DEF SyncsLeavePast

LEMMA PastAt ==
  ASSUME NEW pc \in Between, NEW todo, NEW box,
         pc \in {"reread", "baseline"} => box \cap Past \subseteq todo,
         pc \in {"start", "fetch", "progress"} => todo \cap box \cap Past = {}
  PROVE  PastOK(At(pc, todo), box)
BY DEF PastOK, At, Between, Pcs

LEMMA PastNextMessage ==
  ASSUME NEW todo, NEW got, NEW max, NEW box, got \cap Past = {},
         max = 0 \/ max > Existing, todo \cap box \cap Past = {}
  PROVE  PastOK(NextMessage(todo, got, max), box)
<1> DEFINE d == NextMessage(todo, got, max)
<1>1. /\ d.todo = todo /\ d.got = got /\ d.max = max
      /\ d.pc \in {"message", "lastUID", "progress"}
  BY DEF NextMessage
<1>2. QED
  BY <1>1 DEF PastOK

\* The message a sync works on is not past, so the cursor it leads to is above.
LEMMA PastNext ==
  ASSUME NEW todo, NEW got \in SUBSET Nat, NEW max \in Nat, NEW box, NEW m \in got,
         got \cap Past = {}, max = 0 \/ max > Existing, todo \cap box \cap Past = {},
         NEW max2 \in {max, Max2(max, m)}, 0 \notin got
  PROVE  PastOK(NextMessage(todo, got \ {m}, max2), box)
<1>1. m > Existing
  BY SizesAssumption DEF Past
<1>2. max2 = 0 \/ max2 > Existing
  BY <1>1 DEF Max2
<1>3. QED
  BY <1>2, PastNextMessage

LEMMA MovesLeavePast ==
  ASSUME TypeOK, PastInv, NEW s \in Syncs,
         mailbox' = mailbox,
         \/ Poll(s) \/ CreateCursor(s) \/ Search(s) \/ ReadCursor(s) \/ SetBaseline(s)
         \/ MarkStarted(s) \/ UpdateLastUID(s) \/ UpdateProgress(s)
         \/ MarkCompleted(s) \/ MarkError(s) \/ Report(s)
         \/ ConnectFails(s) \/ SyncFails(s) \/ WriteLost(s) \/ Crash(s)
  PROVE  PastInv'
<1> DEFINE todo == sync[s].todo
<1>0. /\ PastOK(sync[s], mailbox) /\ SyncOK(sync[s]) /\ cursor \in Cursors
      /\ arrived \in Nat /\ todo \in SUBSET (1 .. arrived) /\ sync[s].max \in Nat
  BY RecordOf DEF PastInv, SyncsLeavePast, TypeOK, Cursors
<1>1. thread' = thread
  BY DEF Poll, CreateCursor, Search, ReadCursor, SetBaseline, MarkStarted, UpdateLastUID,
     UpdateProgress, MarkCompleted, MarkError, Report, ConnectFails, SyncFails,
     WriteLost, Crash, storeVars
<1>2. PastMailSkipped'
  BY <1>1 DEF PastInv, PastMailSkipped, Stored
<1>3. PastIsBelow'
  <2>1. CASE SetBaseline(s)
    <3>1. PICK max \in todo :
            (\A u \in todo : u <= max) /\ cursor' = [cursor EXCEPT !.uid = max]
      BY <2>1 DEF SetBaseline
    <3>2. cursor'.uid = max /\ mailbox \cap Past \subseteq todo
      BY <1>0, <2>1, <3>1 DEF Cursors, PastOK, SetBaseline
    <3>3. QED
      BY <3>1, <3>2 DEF PastIsBelow
  <2>2. CASE UpdateLastUID(s)
    <3>1. cursor'.uid = sync[s].max /\ sync[s].max > Existing
      BY <1>0, <2>2 DEF UpdateLastUID, Cursors, PastOK, SyncOK
    <3>2. QED
      BY <1>0, <3>1, SizesAssumption DEF PastIsBelow, Past
  <2>3. CASE ~SetBaseline(s) /\ ~UpdateLastUID(s)
    <3>1. cursor'.uid = cursor.uid
      BY <1>0, <2>3 DEF Poll, CreateCursor, Search, ReadCursor, MarkStarted,
         UpdateProgress, MarkCompleted, MarkError, Report, ConnectFails, SyncFails,
         WriteLost, Crash, Cursors
    <3>2. QED
      BY <3>1 DEF PastInv, PastIsBelow
  <2>4. QED
    BY <2>1, <2>2, <2>3
<1>4. \E pc \in Between, left \in {{}, mailbox, todo, Above(todo, cursor.uid)} :
        /\ Become(s, At(pc, left))
        /\ pc \in {"reread", "baseline"} => mailbox \cap Past \subseteq left
        /\ pc \in {"start", "fetch", "progress"} => left \cap mailbox \cap Past = {}
  <2>1. CASE ReadCursor(s)
    <3>1. sync[s].pc = "reread" /\ mailbox \cap Past \subseteq todo
      BY <1>0, <2>1 DEF ReadCursor, PastOK
    <3>2. CASE cursor.uid = Null
      BY <2>1, <3>1, <3>2 DEF ReadCursor, Between, Pcs
    <3>3. CASE cursor.uid # Null
      <4>1. Above(todo, cursor.uid) \cap mailbox \cap Past = {}
        <5>1. \A m \in mailbox \cap Past : m <= cursor.uid
          BY <3>3 DEF PastInv, PastIsBelow
        <5>2. cursor.uid \in Nat /\ \A m \in todo : m \in Nat
          BY <1>0 DEF Cursors
        <5>3. QED
          BY <5>1, <5>2 DEF Above
      <4>2. PICK pc \in {"complete", "start"} : Become(s, At(pc, Above(todo, cursor.uid)))
        BY <2>1, <3>3 DEF ReadCursor
      <4>3. QED
        BY <4>1, <4>2 DEF Between, Pcs
    <3>4. QED
      BY <3>2, <3>3
  <2>2. CASE Search(s)
    <3>1. PICK pc \in {"complete", "reread"} : Become(s, At(pc, mailbox))
      BY <2>2 DEF Search
    <3>2. QED
      BY <3>1 DEF Between, Pcs
  <2>3. CASE MarkStarted(s) \/ UpdateLastUID(s) \/ UpdateProgress(s) \/
             (WriteLost(s) /\ sync[s].pc \in {"lastUID", "progress"})
    <3>1. todo \cap mailbox \cap Past = {}
      BY <1>0, <2>3 DEF PastOK, MarkStarted, UpdateLastUID, UpdateProgress
    <3>2. PICK pc \in {"fetch", "progress", "complete"} : Become(s, At(pc, todo))
      BY <2>3 DEF MarkStarted, UpdateLastUID, UpdateProgress, WriteLost, NextBatch
    <3>3. QED
      BY <3>1, <3>2 DEF Between, Pcs
  <2>4. CASE \/ Poll(s) \/ CreateCursor(s) \/ SetBaseline(s) \/ MarkCompleted(s)
             \/ MarkError(s) \/ Report(s) \/ ConnectFails(s) \/ SyncFails(s) \/ Crash(s)
             \/ (WriteLost(s) /\ sync[s].pc \notin {"lastUID", "progress"})
    <3>1. PICK pc \in {"idle", "insert", "search", "complete", "markError",
                       "reportActive", "reportError"} : Become(s, At(pc, {}))
      BY <2>4 DEF Poll, CreateCursor, SetBaseline, MarkCompleted, MarkError, Report,
         ConnectFails, SyncFails, Crash, WriteLost, Goto, Idle
    <3>2. QED
      BY <3>1 DEF Between, Pcs
  <2>5. QED
    BY <2>1, <2>2, <2>3, <2>4
<1>5. SyncsLeavePast'
  BY <1>4, PastAt, BecomeLeavesPast DEF PastInv
<1>6. QED
  BY <1>2, <1>3, <1>5 DEF PastInv

\* Within a batch.
LEMMA BatchLeavesPast ==
  ASSUME TypeOK, PastInv, NEW s \in Syncs, NEW m \in Uids, mailbox' = mailbox,
         \/ Fetch(s) \/ FetchFails(s) \/ AssignThread(s, m) \/ AssignThreadBlind(s, m)
         \/ StoreEmail(s, m) \/ MessageFails(s, m)
  PROVE  SyncsLeavePast'
<1> DEFINE todo == sync[s].todo
           got == sync[s].got
           max == sync[s].max
<1>0. /\ PastOK(sync[s], mailbox) /\ got \in SUBSET Nat /\ 0 \notin got /\ max \in Nat
  <2>1. /\ arrived \in Nat /\ got \in SUBSET (1 .. arrived) /\ max \in 0 .. arrived
    BY RecordOf
  <2>2. PastOK(sync[s], mailbox)
    BY DEF PastInv, SyncsLeavePast
  <2>3. QED
    BY <2>1, <2>2
<1>d. \A d : Become(s, d) /\ PastOK(d, mailbox) => SyncsLeavePast'
  BY BecomeLeavesPast DEF PastInv
<1>1. todo \cap mailbox \cap Past = {}
  BY <1>0 DEF PastOK, Fetch, FetchFails, AssignThread, AssignThreadBlind, StoreEmail,
     MessageFails
<1>2. CASE Fetch(s) \/ FetchFails(s)
  <2>1. Fetched(s) \cap Past = {} /\ Rest(s) \cap mailbox \cap Past = {}
    BY <1>1 DEF Fetched, Rest, Batch
  <2>2. \A got2 \in SUBSET Fetched(s) : PastOK(NextMessage(Rest(s), got2, 0), mailbox)
    BY <2>1, PastNextMessage
  <2>3. PastOK(NextBatch(Rest(s)), mailbox)
    BY <2>1, PastAt DEF NextBatch, Between, Pcs
  <2>4. CASE Fetch(s)
    BY <1>d, <2>2, <2>4 DEF Fetch
  <2>5. CASE FetchFails(s)
    <3>1. PICK got2 \in SUBSET Fetched(s) :
            \/ Become(s, NextMessage(Rest(s), got2, 0))
            \/ got2 = {} /\ Become(s, NextBatch(Rest(s)))
      BY <2>5 DEF FetchFails
    <3>2. PastOK(NextMessage(Rest(s), got2, 0), mailbox)
      BY <2>2, <3>1
    <3>3. QED
      BY <1>d, <2>3, <3>1, <3>2
  <2>6. QED
    BY <1>2, <2>4, <2>5
<1>3. CASE \/ m \in NoId \union Broken /\ AssignThread(s, m)
           \/ StoreEmail(s, m) \/ MessageFails(s, m)
  <2>1. m \in got /\ got \cap Past = {} /\ (max = 0 \/ max > Existing)
    BY <1>0, <1>3 DEF AssignThread, StoreEmail, MessageFails, Lowest, PastOK
  <2>2. \A max2 \in {max, Max2(max, m)} :
          PastOK(NextMessage(todo, got \ {m}, max2), mailbox)
    BY <1>0, <1>1, <2>1, PastNext
  <2>3. PICK max2 \in {max, Max2(max, m)} : Become(s, NextMessage(todo, got \ {m}, max2))
    BY <1>3 DEF AssignThread, StoreEmail, MessageFails
  <2>4. QED
    BY <1>d, <2>2, <2>3
<1>4. CASE \/ AssignThreadBlind(s, m)
           \/ m \notin NoId \union Broken /\ AssignThread(s, m)
  <2>1. sync[s].pc = "message"
    BY <1>4 DEF AssignThread, AssignThreadBlind
  <2>2. PICK t : Become(s, Threaded(sync[s], t))
    BY <1>4 DEF AssignThread, AssignThreadBlind
  <2>3. PastOK(Threaded(sync[s], t), mailbox)
    BY <1>0, <2>1 DEF PastOK, Threaded
  <2>4. QED
    BY <1>d, <2>2, <2>3
<1>5. CASE AssignThread(s, m)
  BY <1>3, <1>4, <1>5
<1>6. QED
  BY <1>2, <1>3, <1>4, <1>5

LEMMA BatchesLeavePast ==
  ASSUME TypeOK, PastInv, NEW s \in Syncs, NEW m \in Uids, mailbox' = mailbox,
         \/ Fetch(s) \/ FetchFails(s) \/ AssignThread(s, m) \/ AssignThreadBlind(s, m)
         \/ StoreEmail(s, m) \/ MessageFails(s, m)
  PROVE  PastInv'
<1>1. SyncsLeavePast'
  BY BatchLeavesPast
<1>2. PastIsBelow'
  <2>1. cursor' = cursor
    BY DEF Fetch, FetchFails, AssignThread, AssignThreadBlind, StoreEmail, MessageFails
  <2>2. QED
    BY <2>1 DEF PastInv, PastIsBelow
<1>3. PastMailSkipped'
  <2>1. CASE StoreEmail(s, m)
    <3>1. m \in sync[s].got /\ PastOK(sync[s], mailbox)
      BY <2>1 DEF StoreEmail, Lowest, PastInv, SyncsLeavePast
    <3>2. m \notin Past
      BY <3>1 DEF PastOK
    <3>3. Stored' \subseteq Stored \union {m}
      BY <2>1 DEF StoreEmail, Insert, Stored, TypeOK
    <3>4. QED
      BY <3>2, <3>3 DEF PastInv, PastMailSkipped, Past
  <2>2. CASE ~StoreEmail(s, m)
    <3>1. thread' = thread
      BY <2>2 DEF Fetch, FetchFails, AssignThread, AssignThreadBlind, MessageFails, storeVars
    <3>2. QED
      BY <3>1 DEF PastInv, PastMailSkipped, Stored
  <2>3. QED
    BY <2>1, <2>2
<1>4. QED
  BY <1>1, <1>2, <1>3 DEF PastInv

LEMMA PastInit == Init => PastInv
<1> SUFFICES ASSUME Init PROVE PastInv
  OBVIOUS
<1>1. Stored = {}
  BY DEF Init, Stored
<1>2. \A s \in Syncs : sync[s] = Idle
  BY DEF Init
<1>3. PastOK(Idle, mailbox)
  BY PastAt DEF Idle, Between, Pcs
<1>4. QED
  BY <1>1, <1>2, <1>3 DEF Init, PastInv, PastMailSkipped, PastIsBelow, SyncsLeavePast, Null

LEMMA PastStep ==
  ASSUME TypeOK, PastInv, [Next]_vars
  PROVE  PastInv'
<1>1. CASE Arrive \/ Expunge \/ UNCHANGED vars
  <2>1. mailbox' \cap Past \subseteq mailbox
    BY PastShrinks
  <2>2. cursor' = cursor /\ sync' = sync /\ thread' = thread
    BY <1>1 DEF Arrive, Expunge, vars, storeVars
  <2>3. PastMailSkipped'
    BY <2>2 DEF PastInv, PastMailSkipped, Stored
  <2>4. PastIsBelow'
    BY <2>1, <2>2 DEF PastInv, PastIsBelow
  <2>5. SyncsLeavePast'
    BY <2>1, <2>2, PastStays DEF PastInv, SyncsLeavePast
  <2>6. QED
    BY <2>3, <2>4, <2>5 DEF PastInv
<1>2. ASSUME NEW s \in Syncs, Step(s) \/ Failure(s) PROVE PastInv'
  <2>1. mailbox' = mailbox
    BY <1>2, Effects DEF mailVars
  <2>2. CASE Fetch(s) \/ FetchFails(s)
    <3>1. Uids # {}
      <4>1. sync[s].todo # {} /\ sync[s].todo \subseteq 1 .. arrived /\ arrived \in Nat
        BY <2>2, RecordOf DEF Fetch, FetchFails, SyncOK
      <4>2. 1 .. arrived \subseteq Uids
        BY <4>1, SizesAssumption DEF TypeOK, Uids
      <4>3. QED
        BY <4>1, <4>2
    <3>2. QED
      BY <2>1, <2>2, <3>1, BatchesLeavePast
  <2>3. CASE ~(Fetch(s) \/ FetchFails(s))
    BY <1>2, <2>1, <2>3, MovesLeavePast, BatchesLeavePast DEF Step, Failure, Process
  <2>4. QED
    BY <2>2, <2>3
<1>3. QED
  BY <1>1, <1>2 DEF Next

\* What was in the mailbox when the account was connected is never stored,
\* whichever sync sets the baseline, in whatever order the syncs read, write and
\* fail (PastMailSkipped).
THEOREM PastStaysOut == Spec => []PastMailSkipped
<1>1. Spec => [](TypeOK /\ PastInv)
  BY TypeInit, PastInit, TypeStep, PastStep, PTL DEF Spec
<1>2. PastInv => PastMailSkipped
  BY DEF PastInv
<1>3. QED
  BY <1>1, <1>2, PTL

-------------------------------------------------------------------------------
(* A reply joins the thread of the message it cites.                       *)

Calm == faults = 0 /\ expunged = 0

Unstorable == NoId \union Broken

\* t is the thread of the last stored message m cites, if one of those is new.
Joins(m, t) == \A c \in Cites[m] \cap Stored : c > baseline => t \in CitedThreads(m)

\* What is below m and above the baseline is stored, or never will be.
AllBelow(m) == \A k \in 1 .. m : k < m /\ k > baseline => k \in Stored \union Unstorable

\* While nothing has failed and nothing was deleted: a message is stored after
\* those below it, with the thread of the one it cites.
RepliesOK ==
  /\ failed = {} /\ mailbox = 1 .. arrived
  /\ Stored \cap Unstorable = {}
  /\ \A m \in Stored : AllBelow(m) /\ Joins(m, thread[m])
  /\ \A s \in Syncs, m \in Uids :
       sync[s].pc = "store" /\ Lowest(m, sync[s].got) =>
         m \notin Unstorable /\ Joins(m, sync[s].thread)

\* A set of messages has a last one.
LEMMA LastOne ==
  ASSUME NEW n \in Nat, NEW T \in SUBSET (1 .. n), T # {}
  PROVE  \E k \in T : \A o \in T : o <= k
<1> DEFINE R == OpToRel(<, Nat)
           M == {n - k : k \in T}
<1>1. IsWellFoundedOn(R, Nat)
  BY NatLessThanWellFounded
<1>2. \A x, y \in Nat : y < x => <<y, x>> \in R
  BY DEF OpToRel
<1>3. M \subseteq Nat /\ M # {}
  <2>1. M \subseteq Nat
    OBVIOUS
  <2>2. PICK k \in T : TRUE
    OBVIOUS
  <2>3. n - k \in M
    OBVIOUS
  <2>4. QED
    BY <2>1, <2>3
<1> HIDE DEF R
<1>4. PICK x \in M : \A y \in M : ~ (<<y, x>> \in R)
  <2> HIDE DEF M
  <2>1. QED
    BY <1>1, <1>3, WFMin
<1>5. PICK k \in T : x = n - k
  OBVIOUS
<1>6. ASSUME NEW o \in T PROVE o <= k
  <2>1. n - o \in M /\ n - o \in Nat /\ x \in Nat
    BY <1>3
  <2>2. ~ (n - o < x)
    BY <1>2, <1>4, <2>1
  <2>3. QED
    BY <1>5, <2>2
<1>7. QED
  BY <1>6

\* A message that cites a stored one joins the thread of one.
LEMMA CitedThreadExists ==
  ASSUME TypeOK, NEW m \in Uids, Cites[m] \cap Stored # {}
  PROVE  CitedThreads(m) # {}
<1>1. MaxUID \in Nat /\ Cites[m] \cap Stored \subseteq 1 .. MaxUID
  BY SizesAssumption DEF Stored, Uids
<1>2. PICK k \in Cites[m] \cap Stored : \A o \in Cites[m] \cap Stored : o <= k
  BY <1>1, LastOne
<1>3. thread[k] \in CitedThreads(m)
  BY <1>2 DEF CitedThreads
<1>4. QED
  BY <1>3

\* What AssignThread chooses is the thread of the last one cited.
LEMMA ThreadsJoin ==
  ASSUME TypeOK, NEW s \in Syncs, NEW m \in Uids, NEW t \in Threads(s, m)
  PROVE  Joins(m, t)
  BY CitedThreadExists DEF Threads, Joins

\* The thread stays the right one when more messages are stored and all those
\* below m were stored before.
LEMMA JoinsStays ==
  ASSUME TypeOK, TypeOK', Grows, \A k \in Stored : thread'[k] = thread[k],
         Stored' \cap Unstorable = {}, NEW m \in Uids, AllBelow(m), NEW t, Joins(m, t)
  PROVE  AllBelow(m)' /\ Joins(m, t)'
<1>1. /\ baseline \in Nat /\ baseline' \in Nat /\ baseline <= baseline' /\ MaxUID \in Nat
      /\ Stored \subseteq Stored' /\ Stored' \subseteq 1 .. MaxUID /\ m \in 1 .. MaxUID
      /\ \A c \in Cites[m] : c \in 1 .. MaxUID /\ c < m
  BY SizesAssumption, MessagesAssumption DEF TypeOK, Grows, Stored, Uids
<1>2. AllBelow(m)'
  BY <1>1 DEF AllBelow, Unstorable
<1>3. \A c \in Cites[m] \cap Stored' : c > baseline => c \in Stored
  BY <1>1 DEF AllBelow
<1>4. ASSUME NEW c \in Cites[m] \cap Stored', c > baseline'
      PROVE  t \in CitedThreads(m)'
  <2>1. c \in Stored /\ c > baseline
    BY <1>1, <1>3, <1>4
  <2>2. t \in CitedThreads(m)
    BY <1>4, <2>1 DEF Joins
  <2>3. PICK k \in Cites[m] \cap Stored :
          t = thread[k] /\ \A o \in Cites[m] \cap Stored : o <= k
    BY <2>2 DEF CitedThreads
  <2>4. k > baseline
    BY <1>1, <1>4, <2>1, <2>3
  <2>5. \A o \in Cites[m] \cap Stored' : o <= k
    <3>1. TAKE o \in Cites[m] \cap Stored'
    <3>2. CASE o > baseline
      BY <1>3, <2>3, <3>2
    <3>3. CASE ~ (o > baseline)
      BY <1>1, <2>4, <3>3
    <3>4. QED
      BY <3>2, <3>3
  <2>6. k \in Cites[m] \cap Stored' /\ t = thread'[k]
    BY <1>1, <2>3
  <2>7. QED
    BY <2>5, <2>6 DEF CitedThreads
<1>5. QED
  BY <1>2, <1>4 DEF Joins

\* A sync has stored, or cannot store, what is below the message it works on.
LEMMA BelowLowest ==
  ASSUME TypeOK, SyncsKeepUp, RepliesOK, NEW s \in Syncs, NEW m \in Uids,
         sync[s].pc \in {"message", "store"}, Lowest(m, sync[s].got)
  PROVE  AllBelow(m)
<1> DEFINE left == sync[s].got \union sync[s].todo
<1>1. /\ NothingSkipped(left, Settled) /\ BatchIsLowest(sync[s].got, sync[s].todo)
      /\ left \subseteq 1 .. arrived /\ arrived \in Nat /\ MaxUID \in Nat /\ arrived <= MaxUID
  BY RecordOf, SizesAssumption DEF SyncsKeepUp, GapOK, TypeOK
<1>2. ASSUME NEW k \in 1 .. m, k < m, k > baseline PROVE k \in Stored \union Unstorable
  <2>1. k \notin left
    BY <1>1, <1>2 DEF BatchIsLowest, Lowest
  <2>2. k \in Settled
    BY <1>1, <2>1 DEF NothingSkipped, Lowest
  <2>3. k \in 1 .. arrived
    BY <1>1, <1>2 DEF Lowest
  <2>4. k \in Stored \/ k <= baseline \/ k \in Unstorable
    BY <2>2, <2>3 DEF Settled, Excused, RepliesOK, Unstorable
  <2>5. baseline \in Nat
    BY <1>1 DEF TypeOK
  <2>6. QED
    BY <1>2, <2>3, <2>4, <2>5
<1>3. QED
  BY <1>2 DEF AllBelow

\* A calm state comes after a calm one, by a step without a fault.
LEMMA CalmStep ==
  ASSUME TypeOK, Calm', [Next]_vars
  PROVE  /\ Calm /\ failed' = failed
         /\ Arrive \/ (\E s \in Syncs : Step(s)) \/ UNCHANGED vars
         /\ Arrive \/ mailVars' = mailVars
<1>0. faults \in Nat /\ expunged \in Nat
  BY SizesAssumption DEF TypeOK
<1>1. CASE Arrive
  BY <1>1 DEF Arrive, Calm, storeVars
<1>2. CASE Expunge
  BY <1>0, <1>2 DEF Expunge, Calm
<1>3. ASSUME NEW s \in Syncs, Step(s) PROVE faults' = faults /\ failed' = failed
  BY <1>3
     DEF Step, Process, Poll, CreateCursor, Search, ReadCursor, SetBaseline, MarkStarted,
         Fetch, AssignThread, StoreEmail, UpdateLastUID, UpdateProgress, MarkCompleted,
         MarkError, Report, storeVars
<1>4. ASSUME NEW s \in Syncs, Step(s) PROVE Calm /\ failed' = failed /\ mailVars' = mailVars
  BY <1>3, <1>4, Effects DEF Calm, mailVars
<1>5. ASSUME NEW s \in Syncs, Failure(s) PROVE FALSE
  <2>1. faults' = faults + 1
    BY <1>5
       DEF Failure, ConnectFails, SyncFails, FetchFails, WriteLost, Crash, AssignThreadBlind,
           MessageFails, Fault
  <2>2. QED
    BY <1>0, <2>1 DEF Calm
<1>6. CASE UNCHANGED vars
  BY <1>6 DEF vars, Calm, mailVars, storeVars
<1>7. QED
  BY <1>1, <1>2, <1>4, <1>5, <1>6 DEF Next

\* What a calm step of a sync does to the rows, and when it has a thread to store.
LEMMA RowsStep ==
  ASSUME TypeOK, NEW s \in Syncs, Step(s)
  PROVE  \/ \E m \in Uids :
              /\ StoreEmail(s, m) /\ sync[s].pc = "store" /\ Lowest(m, sync[s].got)
              /\ Stored' = Stored \union {m} /\ sync[s].thread # NotStored
              /\ m \notin Stored => thread'[m] = sync[s].thread
              /\ \A k \in Stored : thread'[k] = thread[k]
              /\ sync'[s].pc # "store"
         \/ \E m \in Uids : \E t \in Threads(s, m) :
              /\ sync[s].pc = "message" /\ Lowest(m, sync[s].got) /\ m \notin Unstorable
              /\ thread' = thread /\ sync'[s] = Threaded(sync[s], t)
              /\ baseline' = baseline
         \/ thread' = thread /\ sync'[s].pc # "store"
<1>0. \A d : Become(s, d) => sync'[s] = d
  BY DEF Become, TypeOK
<1>1. ASSUME NEW m \in Uids, StoreEmail(s, m)
      PROVE  /\ sync[s].pc = "store" /\ Lowest(m, sync[s].got)
             /\ Stored' = Stored \union {m} /\ sync[s].thread # NotStored
             /\ m \notin Stored => thread'[m] = sync[s].thread
             /\ \A k \in Stored : thread'[k] = thread[k]
             /\ sync'[s].pc # "store"
  <2>1. sync[s].pc = "store" /\ Lowest(m, sync[s].got) /\ sync[s].thread # NotStored
    BY <1>1, RecordOf DEF StoreEmail, SyncOK
  <2>2. thread' = [thread EXCEPT ![m] = IF @ = NotStored THEN sync[s].thread ELSE @]
    BY <1>1 DEF StoreEmail, Insert
  <2>3. thread \in [Uids -> ThreadIds]
    BY DEF TypeOK
  <2>4. sync'[s].pc # "store"
    BY <1>0, <1>1 DEF StoreEmail, NextMessage
  <2>5. QED
    BY <2>1, <2>2, <2>3, <2>4 DEF Stored
<1>2. ASSUME NEW m \in Uids, AssignThread(s, m), m \notin Unstorable
      PROVE  \E t \in Threads(s, m) :
               /\ sync[s].pc = "message" /\ Lowest(m, sync[s].got)
               /\ thread' = thread /\ sync'[s] = Threaded(sync[s], t)
               /\ baseline' = baseline
  BY <1>0, <1>2 DEF AssignThread, Unstorable, storeVars
<1>3. ASSUME NEW m \in Uids, AssignThread(s, m), m \in Unstorable
      PROVE  thread' = thread /\ sync'[s].pc # "store"
  BY <1>0, <1>3 DEF AssignThread, Unstorable, storeVars, NextMessage
<1>4. ASSUME \/ Poll(s) \/ CreateCursor(s) \/ Search(s) \/ ReadCursor(s)
             \/ SetBaseline(s) \/ MarkStarted(s) \/ Fetch(s)
             \/ UpdateLastUID(s) \/ UpdateProgress(s)
             \/ MarkCompleted(s) \/ MarkError(s) \/ Report(s)
      PROVE  thread' = thread /\ sync'[s].pc # "store"
  <2>1. thread' = thread
    BY <1>4
       DEF Poll, CreateCursor, Search, ReadCursor, SetBaseline, MarkStarted, Fetch,
           UpdateLastUID, UpdateProgress, MarkCompleted, MarkError, Report, storeVars
  <2>2. \/ \E pc \in Pcs \ {"store"} : \E todo : Become(s, At(pc, todo))
        \/ Become(s, NextMessage(Rest(s), Fetched(s), 0))
    BY <1>4
       DEF Poll, CreateCursor, Search, ReadCursor, SetBaseline, MarkStarted, Fetch,
           UpdateLastUID, UpdateProgress, MarkCompleted, MarkError, Report, Goto, Idle,
           NextBatch, Pcs
  <2>3. CASE Become(s, NextMessage(Rest(s), Fetched(s), 0))
    BY <1>0, <2>1, <2>3 DEF NextMessage
  <2>4. ASSUME NEW pc \in Pcs \ {"store"}, NEW todo, Become(s, At(pc, todo))
        PROVE  sync'[s].pc # "store"
    BY <1>0, <2>4 DEF At
  <2>5. QED
    BY <2>1, <2>2, <2>3, <2>4
<1>5. QED
  BY <1>1, <1>2, <1>3, <1>4 DEF Step, Process

LEMMA RepliesInit == Init => RepliesOK
<1> SUFFICES ASSUME Init PROVE RepliesOK
  OBVIOUS
<1>1. Stored = {} /\ \A s \in Syncs : sync[s].pc = "idle"
  BY DEF Init, Stored, Idle, At
<1>2. QED
  BY <1>1 DEF Init, RepliesOK

\* The step of each action, while nothing fails and nothing is deleted.
LEMMA RepliesStep ==
  ASSUME TypeOK, TypeOK', SyncsKeepUp, Calm => RepliesOK, [Next]_vars, Calm'
  PROVE  RepliesOK'
<1>0. Calm /\ RepliesOK /\ Grows /\ failed' = failed
  BY CalmStep, StepGrows
<1>a. mailbox' = 1 .. arrived'
  <2>1. arrived \in Nat
    BY SizesAssumption DEF TypeOK
  <2>2. CASE Arrive
    BY <1>0, <2>1, <2>2 DEF Arrive, RepliesOK
  <2>3. CASE mailVars' = mailVars
    BY <1>0, <2>3 DEF mailVars, RepliesOK
  <2>4. QED
    BY <2>2, <2>3, CalmStep
<1>b. \A r \in Syncs, k \in Uids :
        sync[r].pc = "store" /\ Lowest(k, sync[r].got) => k \notin Unstorable /\ AllBelow(k)
  BY <1>0, BelowLowest DEF RepliesOK
<1>1. ASSUME thread' = thread, \A r \in Syncs : sync'[r] = sync[r] \/ sync'[r].pc # "store"
      PROVE  RepliesOK'
  <2>1. Stored' = Stored
    BY <1>1 DEF Stored
  <2>2. \A m \in Stored : AllBelow(m)' /\ Joins(m, thread[m])'
    BY <1>0, <1>1, <2>1, JoinsStays DEF RepliesOK, Stored
  <2>3. ASSUME NEW r \in Syncs, NEW k \in Uids, sync'[r].pc = "store", Lowest(k, sync'[r].got)
        PROVE  k \notin Unstorable /\ Joins(k, sync[r].thread)' /\ sync'[r] = sync[r]
    <3>1. sync'[r] = sync[r] /\ AllBelow(k) /\ Joins(k, sync[r].thread) /\ k \notin Unstorable
      BY <1>0, <1>1, <1>b, <2>3 DEF RepliesOK
    <3>2. Joins(k, sync[r].thread)'
      BY <1>0, <1>1, <2>1, <3>1, JoinsStays DEF RepliesOK
    <3>3. QED
      BY <3>1, <3>2
  <2>4. QED
    BY <1>0, <1>1, <1>a, <2>1, <2>2, <2>3 DEF RepliesOK
<1>2. CASE Arrive \/ UNCHANGED vars
  BY <1>1, <1>2 DEF Arrive, vars, storeVars
<1>3. ASSUME NEW s \in Syncs, Step(s) PROVE RepliesOK'
  <2>1. \A r \in Syncs : r # s => sync'[r] = sync[r]
    <3>1. \E d : Become(s, d)
      BY <1>3
         DEF Step, Process, Poll, CreateCursor, Search, ReadCursor, SetBaseline, MarkStarted,
             Fetch, AssignThread, StoreEmail, UpdateLastUID, UpdateProgress, MarkCompleted,
             MarkError, Report, Goto
    <3>2. QED
      BY <3>1 DEF Become, TypeOK
  <2>2. CASE thread' = thread /\ sync'[s].pc # "store"
    BY <1>1, <2>1, <2>2
  <2>3. ASSUME NEW m \in Uids,
               sync[s].pc = "store", Lowest(m, sync[s].got),
               Stored' = Stored \union {m}, m \notin Stored => thread'[m] = sync[s].thread,
               \A k \in Stored : thread'[k] = thread[k], sync'[s].pc # "store"
        PROVE  RepliesOK'
    <3>1. m \notin Unstorable /\ AllBelow(m) /\ Joins(m, sync[s].thread)
      BY <1>0, <1>b, <2>3 DEF RepliesOK
    <3>2. Stored' \cap Unstorable = {}
      BY <1>0, <2>3, <3>1 DEF RepliesOK
    <3>3. ASSUME NEW k \in Stored' PROVE AllBelow(k)' /\ Joins(k, thread[k])'
      <4>1. k \in Uids /\ AllBelow(k) /\ Joins(k, thread'[k])
        <5>1. CASE k \in Stored
          BY <1>0, <2>3, <5>1 DEF RepliesOK, Stored
        <5>2. CASE k \notin Stored
          BY <2>3, <3>1, <5>2
        <5>3. QED
          BY <5>1, <5>2
      <4>2. PICK t : t = thread'[k]
        OBVIOUS
      <4>3. AllBelow(k)' /\ Joins(k, t)'
        BY <1>0, <2>3, <3>2, <4>1, <4>2, JoinsStays
      <4>4. QED
        BY <4>2, <4>3 DEF Joins
    <3>4. ASSUME NEW r \in Syncs, NEW k \in Uids, sync'[r].pc = "store", Lowest(k, sync'[r].got)
          PROVE  k \notin Unstorable /\ Joins(k, sync[r].thread)'
      <4>1. sync'[r] = sync[r]
        BY <2>1, <2>3, <3>4
      <4>2. AllBelow(k) /\ Joins(k, sync[r].thread) /\ k \notin Unstorable
        BY <1>0, <1>b, <3>4, <4>1 DEF RepliesOK
      <4>3. PICK t : t = sync[r].thread
        OBVIOUS
      <4>4. Joins(k, t)'
        BY <1>0, <2>3, <3>2, <4>2, <4>3, JoinsStays
      <4>5. QED
        BY <4>1, <4>2, <4>3, <4>4 DEF Joins
    <3>5. QED
      BY <1>0, <1>a, <3>2, <3>3, <3>4 DEF RepliesOK
  <2>4. ASSUME NEW m \in Uids, NEW t \in Threads(s, m),
               sync[s].pc = "message", Lowest(m, sync[s].got), m \notin Unstorable,
               thread' = thread, sync'[s] = Threaded(sync[s], t), baseline' = baseline
        PROVE  RepliesOK'
    <3>1. Stored' = Stored
      BY <2>4 DEF Stored
    <3>2. \A k \in Stored : AllBelow(k)' /\ Joins(k, thread[k])'
      BY <1>0, <2>4, <3>1, JoinsStays DEF RepliesOK, Stored
    <3>3. Joins(m, t) /\ AllBelow(m)
      BY <1>0, <2>4, ThreadsJoin, BelowLowest
    <3>4. Joins(m, t)'
      BY <1>0, <2>4, <3>1, <3>3, JoinsStays DEF RepliesOK
    <3>5. ASSUME NEW r \in Syncs, NEW k \in Uids, sync'[r].pc = "store", Lowest(k, sync'[r].got)
          PROVE  k \notin Unstorable /\ Joins(k, sync[r].thread)'
      <4>1. CASE r = s
        <5>1. sync'[s].thread = t /\ sync'[s].got = sync[s].got
          BY <2>4 DEF Threaded
        <5>2. sync[s].got \subseteq Nat
          BY RecordOf
        <5>3. k = m
          BY <2>4, <3>5, <4>1, <5>1, <5>2 DEF Lowest
        <5>4. QED
          BY <2>4, <3>4, <4>1, <5>1, <5>3 DEF Joins
      <4>2. CASE r # s
        <5>1. sync'[r] = sync[r]
          BY <2>1, <4>2
        <5>2. AllBelow(k) /\ Joins(k, sync[r].thread) /\ k \notin Unstorable
          BY <1>0, <1>b, <3>5, <5>1 DEF RepliesOK
        <5>3. PICK u : u = sync[r].thread
          OBVIOUS
        <5>4. Joins(k, u)'
          BY <1>0, <2>4, <3>1, <5>2, <5>3, JoinsStays DEF RepliesOK
        <5>5. QED
          BY <5>1, <5>2, <5>3, <5>4 DEF Joins
      <4>3. QED
        BY <4>1, <4>2
    <3>6. QED
      BY <1>0, <1>a, <2>4, <3>1, <3>2, <3>5 DEF RepliesOK
  <2>5. QED
    BY <1>3, <2>2, <2>3, <2>4, RowsStep
<1>4. QED
  BY <1>2, <1>3, CalmStep

\* Without failures and deletions a reply is in the thread of the message it
\* cites, for any number of servers that sync the account, any batch size and
\* whatever the messages cite (ReplyJoinsThread).
THEOREM RepliesJoinThreads == Spec => []ReplyJoinsThread
<1> DEFINE Inv == TypeOK /\ NoGap /\ SyncsKeepUp /\ (Calm => RepliesOK)
<1>1. Init => Inv
  BY TypeInit, GapInit, RepliesInit
<1>2. Inv /\ [Next]_vars => Inv'
  <2> SUFFICES ASSUME Inv, [Next]_vars PROVE Inv'
    OBVIOUS
  <2>1. TypeOK'
    BY TypeStep
  <2>2. NoGap' /\ SyncsKeepUp'
    BY <2>1, GapStep
  <2>3. Calm' => RepliesOK'
    BY <2>1, RepliesStep
  <2>4. QED
    BY <2>1, <2>2, <2>3
<1>3. Inv => ReplyJoinsThread
  BY DEF Calm, RepliesOK, Joins, ReplyJoinsThread
<1>4. QED
  BY <1>1, <1>2, <1>3, PTL DEF Spec

===============================================================================
