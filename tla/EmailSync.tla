------------------------------- MODULE EmailSync -------------------------------
(***************************************************************************)
(* The sync of one IMAP account (src/internal/email/sync, email/imap and   *)
(* the email_poll job of orchestrator/cron.go).  Each server that runs the *)
(* user's scheduler polls the account: it reads the cursor, searches the   *)
(* mailbox, fetches what is above the cursor in batches, gives every       *)
(* message a thread, stores it and moves the cursor.                       *)
(*                                                                         *)
(* Nothing locks the account: every statement and IMAP command is a step   *)
(* of its own, and new mail, deletions, the other servers' syncs, failures *)
(* and crashes run in between.                                             *)
(***************************************************************************)
EXTENDS Naturals, FiniteSets

CONSTANTS
  Syncs,      \* the servers that sync this account
  Existing,   \* the messages in the mailbox when the account is connected
  MaxUID,     \* bound: the last message that arrives
  NoId,       \* the messages without a Message-ID
  Broken,     \* the messages that cannot be processed (no body, no header)
  Cites,      \* Cites[m]: the messages In-Reply-To and References name
  Subject,    \* Subject[m]: the normalized subject
  NoSubject,  \* the empty one
  Nested,     \* the messages whose subject has more than one prefix
  NotStored,  \* the thread of a message without a row
  BatchSize,  \* imapBatchSize
  MaxExpunged,\* bound: messages deleted from the mailbox
  MaxFaults   \* bound: failed statements and commands, and crashes

Uids == 1 .. MaxUID

ASSUME SizesAssumption ==
  /\ MaxUID \in Nat /\ Existing \in 0 .. MaxUID
  /\ BatchSize \in Nat \ {0}
  /\ MaxExpunged \in Nat /\ MaxFaults \in Nat
ASSUME ThreadsAssumption == NotStored \notin Syncs \X Uids
ASSUME MessagesAssumption ==
  /\ NoId \subseteq Uids /\ Broken \subseteq Uids /\ Nested \subseteq Uids
  /\ Cites \in [Uids -> SUBSET Uids]
  /\ \A m \in Uids : \A c \in Cites[m] : c < m

VARIABLES
  mailbox,   \* the messages in INBOX
  arrived,   \* the last UID the IMAP server gave out
  expunged,  \* how many messages were deleted
  cursor,    \* the row of sync_cursors
  thread,    \* thread[m]: thread_id of the row of emails with uid m, if any
  account,   \* user_accounts.sync_status
  sync,      \* sync[s]: where the sync of server s is
  baseline,  \* history: the highest baseline any sync has set
  failed,    \* history: the messages a failure has kept a sync from storing
  faults     \* faults so far

vars == <<mailbox, arrived, expunged, cursor, thread, account, sync, baseline,
          failed, faults>>
mailVars == <<mailbox, arrived, expunged>>
storeVars == <<thread, failed>>

\* last_uid is NULL; CHECK(last_uid > 0) keeps 0 free.
Null == 0

\* uuid.New() of the sync s for the message m.
NewThread(s, m) == <<s, m>>

Stored == {m \in Uids : thread[m] # NotStored}

\* A sync between two messages: where it is and the UIDs it has to work on.
At(pc, todo) ==
  [pc |-> pc, todo |-> todo, got |-> {}, max |-> 0, thread |-> NotStored]

Idle == At("idle", {})

Init ==
  /\ mailbox = 1 .. Existing /\ arrived = Existing /\ expunged = 0
  /\ cursor = [exists |-> FALSE, uid |-> Null, state |-> "pending"]
  /\ thread = [m \in Uids |-> NotStored]
  /\ account = "pending"
  /\ sync = [s \in Syncs |-> Idle]
  /\ baseline = 0 /\ failed = {} /\ faults = 0

Fault ==
  /\ faults < MaxFaults
  /\ faults' = faults + 1

Become(s, d) == sync' = [sync EXCEPT ![s] = d]
Goto(s, pc) == Become(s, At(pc, {}))

Max2(a, b) == IF a > b THEN a ELSE b

-------------------------------------------------------------------------------
(* The mailbox.                                                            *)

\* The IMAP server gives a new message the next UID.
Arrive ==
  /\ arrived < MaxUID
  /\ arrived' = arrived + 1
  /\ mailbox' = mailbox \union {arrived + 1}
  /\ UNCHANGED <<expunged, cursor, storeVars, account, sync, baseline, faults>>

\* The user deletes a message, or moves it to another folder.
Expunge ==
  /\ expunged < MaxExpunged
  /\ expunged' = expunged + 1
  /\ \E m \in mailbox : mailbox' = mailbox \ {m}
  /\ UNCHANGED <<arrived, cursor, storeVars, account, sync, baseline, faults>>

-------------------------------------------------------------------------------
(* One sync: the cursor and the list of UIDs.                              *)

\* syncAccount and GetOrCreateCursor: the credentials, the connection and the
\* login write nothing; then SELECT, and without a row INSERT.
Poll(s) ==
  /\ sync[s].pc = "idle"
  /\ Goto(s, IF cursor.exists THEN "search" ELSE "insert")
  /\ UNCHANGED <<mailVars, cursor, storeVars, account, baseline, faults>>

\* A row of another server inserted in between fails the INSERT on
\* UNIQUE(account_id, provider), and Sync returns before it has a cursor to mark.
CreateCursor(s) ==
  /\ sync[s].pc = "insert"
  /\ Goto(s, IF cursor.exists THEN "reportError" ELSE "search")
  /\ cursor' = [cursor EXCEPT !.exists = TRUE]
  /\ UNCHANGED <<mailVars, storeVars, account, baseline, faults>>

\* SELECT INBOX and UID SEARCH SINCE.
Search(s) ==
  /\ sync[s].pc = "search"
  /\ Become(s, At(IF mailbox = {} THEN "complete" ELSE "reread", mailbox))
  /\ UNCHANGED <<mailVars, cursor, storeVars, account, baseline, faults>>

\* Variant: last_uid is taken for the next UID to expect.
AboveNext(uids, last) == {u \in uids : u > last + 1}

\* FilterAboveUID.
Above(uids, last) == {u \in uids : u > last}

\* Variant: no baseline, the NULL cursor filters nothing.
ReadCursorNoBaseline(s) ==
  LET above == Above(sync[s].todo, cursor.uid) IN
  /\ sync[s].pc = "reread"
  /\ Become(s, At(IF above = {} THEN "complete" ELSE "start", above))
  /\ UNCHANGED <<mailVars, cursor, storeVars, account, baseline, faults>>

\* The cursor is read again: without a last_uid the messages found are the
\* past, otherwise those above it are fetched.
ReadCursor(s) ==
  LET above == Above(sync[s].todo, cursor.uid) IN
  /\ sync[s].pc = "reread"
  /\ \/ /\ cursor.uid = Null
        /\ Become(s, At("baseline", sync[s].todo))
     \/ /\ cursor.uid # Null
        /\ Become(s, At(IF above = {} THEN "complete" ELSE "start", above))
  /\ UNCHANGED <<mailVars, cursor, storeVars, account, baseline, faults>>

\* last_uid is set to the highest UID of the search, whatever it is by now.
SetBaseline(s) ==
  /\ sync[s].pc = "baseline"
  /\ \E max \in sync[s].todo :
       /\ \A u \in sync[s].todo : u <= max
       /\ cursor' = [cursor EXCEPT !.uid = max]
       /\ baseline' = Max2(baseline, max)
  /\ Goto(s, "complete")
  /\ UNCHANGED <<mailVars, storeVars, account, faults>>

MarkStarted(s) ==
  /\ sync[s].pc = "start"
  /\ cursor' = [cursor EXCEPT !.state = "syncing"]
  /\ Become(s, At("fetch", sync[s].todo))
  /\ UNCHANGED <<mailVars, storeVars, account, baseline, faults>>

-------------------------------------------------------------------------------
(* One batch.                                                              *)

\* uids[i:end] of the ascending list.
Batch(uids) == {u \in uids : Cardinality({v \in uids : v < u}) < BatchSize}

\* FETCH returns those that are still there.
Fetched(s) == Batch(sync[s].todo) \cap mailbox

\* The sync goes on with the messages got, or with the cursor.
NextMessage(todo, got, max) ==
  [pc |-> IF got # {} THEN "message" ELSE IF max > 0 THEN "lastUID" ELSE "progress",
   todo |-> todo, got |-> got, max |-> max, thread |-> NotStored]

\* The sync goes on with the next batch, or is done.
NextBatch(todo) == At(IF todo = {} THEN "complete" ELSE "fetch", todo)

Rest(s) == sync[s].todo \ Batch(sync[s].todo)

Fetch(s) ==
  /\ sync[s].pc = "fetch"
  /\ Become(s, NextMessage(Rest(s), Fetched(s), 0))
  /\ UNCHANGED <<mailVars, cursor, storeVars, account, baseline, faults>>

\* Some messages cannot be read, or the command fails after some: those that
\* came are processed.  After a command that brought none the batch is given up.
FetchFails(s) ==
  /\ sync[s].pc = "fetch"
  /\ Fault
  /\ \E got \in SUBSET Fetched(s) :
       /\ \/ Become(s, NextMessage(Rest(s), got, 0))
          \/ got = {} /\ Become(s, NextBatch(Rest(s)))
       /\ failed' = failed \union (Fetched(s) \ got)
  /\ UNCHANGED <<mailVars, cursor, thread, account, baseline>>

\* Variant: the messages are worked on newest first.
Highest(m, uids) == m \in uids /\ \A u \in uids : u <= m

\* The server returns the messages of the UID set in ascending order.
Lowest(m, uids) == m \in uids /\ \A u \in uids : m <= u

\* AssignThread: the thread of the message cited last that is stored (references
\* name their messages in the order they came, the direct parent last), else of
\* a stored message with the same subject, else a new one.  NormalizeSubject
\* strips every prefix of the new subject, the query one of a stored subject.
\* The newest match is the one with the latest Date header, which may be any;
\* all dates are within the seven days.
CitedThreads(m) ==
  {thread[c] : c \in {k \in Cites[m] \cap Stored :
                        \A o \in Cites[m] \cap Stored : o <= k}}

SubjectThreads(m) ==
  {thread[c] : c \in {k \in Stored \ Nested : /\ Subject[k] = Subject[m]
                                              /\ Subject[m] # NoSubject}}

Threads(s, m) ==
  IF CitedThreads(m) # {} THEN CitedThreads(m)
  ELSE IF SubjectThreads(m) # {} THEN SubjectThreads(m)
  ELSE {NewThread(s, m)}

Threaded(d, t) ==
  [pc |-> "store", todo |-> d.todo, got |-> d.got, max |-> d.max, thread |-> t]

\* A message without a Message-ID is passed over and counts as processed; one
\* that cannot be parsed is passed over and does not.
AssignThread(s, m) ==
  LET d == sync[s] IN
  /\ d.pc = "message"
  /\ Lowest(m, d.got)
  /\ \/ /\ m \in Broken
        /\ Become(s, NextMessage(d.todo, d.got \ {m}, d.max))
     \/ /\ m \in NoId \ Broken
        /\ Become(s, NextMessage(d.todo, d.got \ {m}, Max2(d.max, m)))
     \/ /\ m \notin NoId \union Broken
        /\ \E t \in Threads(s, m) :
             Become(s, Threaded(d, t))
  /\ UNCHANGED <<mailVars, cursor, storeVars, account, baseline, faults>>

\* A query of AssignThread that fails counts as one that finds nothing.
AssignThreadBlind(s, m) ==
  /\ sync[s].pc = "message"
  /\ Lowest(m, sync[s].got)
  /\ m \notin NoId \union Broken
  /\ Fault
  /\ \E t \in SubjectThreads(m) \union {NewThread(s, m)} :
       Become(s, Threaded(sync[s], t))
  /\ UNCHANGED <<mailVars, cursor, storeVars, account, baseline>>

\* StoreEmail: ON CONFLICT (account_id, uid) DO NOTHING.
Insert(m, t) ==
  thread' = [thread EXCEPT ![m] = IF @ = NotStored THEN t ELSE @]

StoreEmail(s, m) ==
  LET d == sync[s] IN
  /\ d.pc = "store"
  /\ Lowest(m, d.got)
  /\ Insert(m, d.thread)
  /\ Become(s, NextMessage(d.todo, d.got \ {m}, Max2(d.max, m)))
  /\ UNCHANGED <<mailVars, cursor, account, baseline, failed, faults>>

\* processIMAPMessage returns an error: the loop goes on with the next message.
MessageFails(s, m) ==
  LET d == sync[s] IN
  /\ d.pc \in {"message", "store"}
  /\ Lowest(m, d.got)
  /\ Fault
  /\ Become(s, NextMessage(d.todo, d.got \ {m}, d.max))
  /\ failed' = failed \union {m}
  /\ UNCHANGED <<mailVars, cursor, thread, account, baseline>>

\* Variant: the cursor is moved to the end of the list with the first batch.
UpdateLastUIDToEnd(s) ==
  /\ sync[s].pc = "lastUID"
  /\ \E end \in sync[s].todo \union {sync[s].max} :
       /\ \A u \in sync[s].todo : u <= end
       /\ cursor' = [cursor EXCEPT !.uid = end]
  /\ Become(s, At("progress", sync[s].todo))
  /\ UNCHANGED <<mailVars, storeVars, account, baseline, faults>>

\* The highest UID processed in this batch, whatever last_uid is by now.
UpdateLastUID(s) ==
  /\ sync[s].pc = "lastUID"
  /\ cursor' = [cursor EXCEPT !.uid = sync[s].max]
  /\ Become(s, At("progress", sync[s].todo))
  /\ UNCHANGED <<mailVars, storeVars, account, baseline, faults>>

UpdateProgress(s) ==
  /\ sync[s].pc = "progress"
  /\ cursor' = [cursor EXCEPT !.state = "syncing"]
  /\ Become(s, NextBatch(sync[s].todo))
  /\ UNCHANGED <<mailVars, storeVars, account, baseline, faults>>

-------------------------------------------------------------------------------
(* The end of a sync.                                                      *)

\* Variant: an error is cleared only by a sync that has messages to fetch.
MarkCompletedLazily(s) ==
  /\ sync[s].pc = "complete"
  /\ cursor' = [cursor EXCEPT !.state = IF @ = "error" THEN @ ELSE "active"]
  /\ Goto(s, "reportActive")
  /\ UNCHANGED <<mailVars, storeVars, account, baseline, faults>>

MarkCompleted(s) ==
  /\ sync[s].pc = "complete"
  /\ cursor' = [cursor EXCEPT !.state = "active"]
  /\ Goto(s, "reportActive")
  /\ UNCHANGED <<mailVars, storeVars, account, baseline, faults>>

MarkError(s) ==
  /\ sync[s].pc = "markError"
  /\ cursor' = [cursor EXCEPT !.state = "error"]
  /\ Goto(s, "reportError")
  /\ UNCHANGED <<mailVars, storeVars, account, baseline, faults>>

\* updateAccountSyncStatus; the poll begins again with the next tick.
Report(s) ==
  /\ \/ sync[s].pc = "reportActive" /\ account' = "active"
     \/ sync[s].pc = "reportError" /\ account' = "error"
  /\ Become(s, Idle)
  /\ UNCHANGED <<mailVars, cursor, storeVars, baseline, faults>>

-------------------------------------------------------------------------------
(* Failures.                                                               *)

\* No credential, no connection, no login, or no cursor: the error reaches
\* emailPoll before there is a cursor to mark.
ConnectFails(s) ==
  /\ sync[s].pc \in {"idle", "insert"}
  /\ Fault
  /\ Goto(s, "reportError")
  /\ UNCHANGED <<mailVars, cursor, storeVars, account, baseline>>

\* A command the sync cannot go on without.
SyncFails(s) ==
  /\ sync[s].pc \in {"search", "reread", "baseline", "start", "complete"}
  /\ Fault
  /\ Goto(s, "markError")
  /\ UNCHANGED <<mailVars, cursor, storeVars, account, baseline>>

\* A write whose error is only logged, or not looked at.
WriteLost(s) ==
  /\ Fault
  /\ \/ sync[s].pc = "lastUID" /\ Become(s, At("progress", sync[s].todo))
     \/ sync[s].pc = "progress" /\ Become(s, NextBatch(sync[s].todo))
     \/ sync[s].pc = "markError" /\ Goto(s, "reportError")
     \/ /\ sync[s].pc \in {"reportActive", "reportError"}
        /\ Become(s, Idle)
  /\ UNCHANGED <<mailVars, cursor, storeVars, account, baseline>>

\* The process dies; or the bundle is stopped, and with the cancelled context
\* every statement fails, those of MarkError and the status too.
Crash(s) ==
  /\ sync[s].pc # "idle"
  /\ Fault
  /\ Become(s, Idle)
  /\ UNCHANGED <<mailVars, cursor, storeVars, account, baseline>>

-------------------------------------------------------------------------------
Process(s) == \E m \in Uids : AssignThread(s, m) \/ StoreEmail(s, m)

Step(s) ==
  \/ Poll(s) \/ CreateCursor(s) \/ Search(s) \/ ReadCursor(s)
  \/ SetBaseline(s) \/ MarkStarted(s) \/ Fetch(s) \/ Process(s)
  \/ UpdateLastUID(s) \/ UpdateProgress(s)
  \/ MarkCompleted(s) \/ MarkError(s) \/ Report(s)

Failure(s) ==
  \/ ConnectFails(s) \/ SyncFails(s) \/ FetchFails(s) \/ WriteLost(s) \/ Crash(s)
  \/ \E m \in Uids : AssignThreadBlind(s, m) \/ MessageFails(s, m)

Next ==
  \/ Arrive
  \/ Expunge
  \/ \E s \in Syncs : Step(s) \/ Failure(s)

Spec == Init /\ [][Next]_vars

\* The scheduler of every server polls for ever, and every command ends.
FairSpec == Spec /\ \A s \in Syncs : WF_vars(Step(s))

-------------------------------------------------------------------------------
(* Properties.                                                             *)

Pcs == {"idle", "insert", "search", "reread", "baseline", "start",
        "fetch", "message", "store", "lastUID", "progress", "complete",
        "markError", "reportActive", "reportError"}
States == {"pending", "syncing", "active", "error"}

\* What holds of a sync by where it is.
SyncOK(d) ==
  /\ d.pc \in {"message", "store"} <=> d.got # {}
  /\ d.pc = "store" <=> d.thread # NotStored
  /\ d.pc \in {"reread", "baseline", "start", "fetch"} => d.todo # {}
  /\ d.pc = "lastUID" => d.max > 0

ThreadIds == (Syncs \X Uids) \union {NotStored}

Records ==
  [pc : Pcs, todo : SUBSET (1 .. arrived), got : SUBSET (1 .. arrived),
   max : 0 .. arrived, thread : ThreadIds]

\* The shape of the state: no cursor position without a cursor, and a sync in
\* a batch has its messages in hand (imap_sync.go:119-172).
TypeOK ==
  /\ arrived \in Existing .. MaxUID /\ mailbox \subseteq 1 .. arrived
  /\ expunged \in 0 .. MaxExpunged /\ faults \in 0 .. MaxFaults
  /\ cursor \in [exists : BOOLEAN, uid : 0 .. arrived, state : States]
  /\ thread \in [Uids -> ThreadIds]
  /\ account \in {"pending", "active", "error"}
  /\ baseline \in 0 .. arrived /\ failed \subseteq 1 .. arrived
  /\ sync \in [Syncs -> Records]
  /\ \A s \in Syncs : SyncOK(sync[s])

\* What may be missing from the emails: past mail, what cannot be stored, what
\* was deleted, and what a failure kept from being stored.
Excused(m) ==
  \/ m <= baseline \/ m \in NoId \union Broken \union failed
  \/ m <= arrived /\ m \notin mailbox

\* The cursor never moves past a message that a sync could have stored and did
\* not: not by a crash between two batches or between a row and its cursor,
\* not by the syncs of two servers, one of them late, not by mail that arrives
\* during a sync (imap_sync.go:101-179, progress.go:137-140).
NoGap == \A m \in Uids : m <= cursor.uid => m \in Stored \/ Excused(m)

\* What was in the mailbox when the account was connected is never stored,
\* whichever sync sets the baseline and whatever it fails at
\* (imap_sync.go:78-99).
PastMailSkipped == Stored \cap (1 .. Existing) = {}

\* Without failures and deletions a reply is in the thread of the message it
\* cites, whichever servers stored the two, unless the cited one counts as
\* past: its row is there when the reply's thread is looked up
\* (imap_sync.go:104-105, threading.go:28-96).
ReplyJoinsThread ==
  faults = 0 /\ expunged = 0 =>
    \A m \in Stored : \A c \in Cites[m] \cap Stored :
      c > baseline => thread[m] \in CitedThreads(m)

\* Every message that arrives is stored at some time, or has an excuse: no
\* crash, race or message that fails in each poll keeps the later ones out
\* (cron.go:340-381, imap_sync.go:124-172).
EveryMailArrives ==
  \A m \in Uids : m <= arrived ~> m \in Stored \/ Excused(m)

\* Failures end, and the account and its cursor show "active" again: no state
\* a sync or a crash leaves behind stops the next poll (cron.go:367-377, 436,
\* progress.go:207-213).
StatusRecovers == []<>(cursor.state = "active" /\ account = "active")
===============================================================================
