------------------------------ MODULE MailWatch -------------------------------
(***************************************************************************)
(* The other ways in for the mail of one account, which no service starts  *)
(* yet: the watcher of an IMAP mailbox by IDLE or by NOOP                  *)
(* (email/realtime), and Gmail's list, history and push                    *)
(* (email/sync/gmail_sync.go, email/gmail).  EmailSync is the poll.        *)
(***************************************************************************)
EXTENDS Naturals, FiniteSets, FiniteSetsExt

CONSTANTS
  MaxUid,          \* bound: messages 1 .. MaxUid arrive in this order
  NoId, Broken,    \* messages without a Message-ID, and those that do not parse
  Window,          \* days a list of Gmail goes back (30)
  MaxDay, MaxFaults  \* bounds

Messages == 1 .. MaxUid
WatchAssumption ==
  /\ NoId \cup Broken \subseteq Messages
  /\ {MaxUid, Window, MaxDay, MaxFaults} \subseteq Nat
\* Gmail accounts are pushed, a server with the capability IDLE idles, any other
\* is polled.
DetectStrategy(provider, capabilities) ==
  IF provider = "gmail" THEN "gmail_push" ELSE IF "IDLE" \in capabilities THEN "idle" ELSE "poll"

VARIABLES
  strategy, \* how the account is watched
  arrived,  \* arrived[m]: the day of m, for the messages there are
  rows,     \* emails: pairs of a uid and a message
  queued,   \* messages whose storing enqueued a job
  watch,    \* the watcher: where it is, lastUID, what it fetched, what that
            \* fetch left out, and what failed
  exists,   \* an EXISTS in the channel newMail
  gmail,    \* a sync by Gmail's list: where it is, what is left, what it counted
  cursor,   \* whether last_uid of the Gmail cursor is set
  history,  \* the historyId of the last SyncIncremental, and what the handler got
  day, faults

vars == <<strategy, arrived, rows, queued, watch, exists, gmail, cursor, history, day, faults>>

There == DOMAIN arrived
Last == Cardinality(There)
Uids == 0 .. MaxUid
Stored(m) == \E u \in Uids : <<u, m>> \in rows

\* The shape of the state.
TypeOK ==
  /\ There = 1 .. Last /\ Last <= MaxUid
  /\ rows \subseteq Uids \X There /\ queued \subseteq There
  /\ watch.pc \in {"idle", "search", "fetch", "messages", "stopped"}
  /\ watch.last \in 0 .. Last /\ watch.batch \cup watch.skipped \subseteq There
  /\ gmail.pc \in {"idle", "messages", "done"} /\ gmail.left \subseteq There
  /\ exists \in BOOLEAN /\ cursor \in BOOLEAN
  /\ history.last \in 0 .. Last /\ history.handed \subseteq There
  /\ day \in 0 .. MaxDay /\ faults \in 0 .. MaxFaults

Init ==
  /\ \E provider \in {"gmail", "imap"}, capabilities \in SUBSET {"IDLE"} :
       strategy = DetectStrategy(provider, capabilities)
  /\ arrived = <<>> /\ rows = {} /\ queued = {}
  /\ watch = [pc |-> "stopped", last |-> 0, batch |-> {}, skipped |-> {}, failed |-> {}] /\ exists = FALSE
  /\ gmail = [pc |-> "idle", left |-> {}, listed |-> 0, synced |-> 0, failed |-> 0]
  /\ cursor = FALSE /\ history = [last |-> 0, handed |-> {}]
  /\ day = 0 /\ faults = 0

mail == <<arrived, rows, queued>>
Fault == faults < MaxFaults /\ faults' = faults + 1
Push == strategy = "gmail_push"

\* The callback sends on newMail while there is a connection.
Arrive ==
  /\ Last < MaxUid
  /\ arrived' = [m \in 1 .. Last + 1 |-> IF m \in There THEN arrived[m] ELSE day]
  /\ exists' = (strategy = "idle" /\ watch.pc # "stopped")
  /\ UNCHANGED <<rows, queued, watch, gmail, cursor, history, day, faults>>
NextDay ==
  /\ day < MaxDay /\ day' = day + 1
  /\ UNCHANGED <<mail, watch, exists, gmail, cursor, history, faults>>

\* INSERT ... ON CONFLICT (account_id, uid) DO NOTHING.
StoreEmail(uid, m) ==
  rows' = IF \E o \in Messages : <<uid, o>> \in rows THEN rows ELSE rows \cup {<<uid, m>>}

-------------------------------------------------------------------------------
(* RunIDLE and RunPoll.                                                      *)

Still == UNCHANGED <<arrived, gmail, cursor, history, day>>
\* Dispatcher.Run makes a watcher of its own each time, which begins at 0, and
\* runs none for Gmail.
Run ==
  /\ ~Push /\ watch.pc = "stopped"
  /\ watch' = [watch EXCEPT !.pc = "idle", !.last = 0] /\ exists' = FALSE
  /\ Still /\ UNCHANGED <<rows, queued, faults>>
\* The connection is lost, or the context ends.
Stop ==
  /\ watch.pc \in {"idle", "messages"} /\ Fault /\ exists' = FALSE
  /\ watch' = [watch EXCEPT !.pc = "stopped", !.batch = {}]
  /\ Still /\ UNCHANGED <<rows, queued>>
\* IDLE is broken by EXISTS; its timer only begins it anew.  NOOP looks each time.
Wake ==
  /\ watch.pc = "idle" /\ (strategy = "idle" => exists)
  /\ watch' = [watch EXCEPT !.pc = "search"] /\ exists' = FALSE
  /\ Still /\ UNCHANGED <<rows, queued, faults>>
\* Of the last day.  An error ends this look.
Recent == {m \in There : arrived[m] + 1 >= day}
SearchSince ==
  /\ watch.pc = "search"
  /\ LET new == {m \in Recent : m > watch.last} IN
     \/ /\ watch' = [watch EXCEPT !.pc = IF new = {} THEN "idle" ELSE "fetch", !.batch = new]
        /\ UNCHANGED faults
     \/ Fault /\ watch' = [watch EXCEPT !.pc = "idle"]
  /\ Still /\ UNCHANGED <<rows, queued, exists>>
\* Messages that are not collected are skipped without an error, and of a FETCH
\* that ends early what came before is processed: any part of the batch.
FetchMessages ==
  /\ watch.pc = "fetch"
  /\ \E got \in SUBSET watch.batch :
       /\ IF got = watch.batch THEN UNCHANGED faults ELSE Fault
       /\ watch' = [watch EXCEPT !.pc = "messages", !.batch = got, !.skipped = watch.batch \ got]
  /\ Still /\ UNCHANGED <<rows, queued, exists>>

NextMessage == Min(watch.batch)
\* Variant: lastUID moves to the end of the batch at once.
ProcessedAhead(last, failed) ==
  watch' = [watch EXCEPT !.batch = @ \ {NextMessage}, !.last = Max(watch.batch), !.failed = @ \cup failed]
Processed(last, failed) ==
  watch' = [watch EXCEPT !.batch = @ \ {NextMessage}, !.last = last, !.failed = @ \cup failed]
Fails(m) == (m \in Broken /\ UNCHANGED faults) \/ Fault
\* A message that fails does not move lastUID, but the next that succeeds does.
ProcessMessage ==
  /\ watch.pc = "messages" /\ watch.batch # {}
  /\ LET m == NextMessage IN
     \/ /\ Fails(m)
        /\ Processed(watch.last, {m}) /\ UNCHANGED <<rows, queued>>
     \/ /\ m \notin Broken /\ Processed(m, {})
        /\ IF m \in NoId THEN UNCHANGED <<rows, queued, faults>>
           ELSE /\ StoreEmail(m, m)
                /\ \/ UNCHANGED faults /\ queued' = IF rows' = rows THEN queued ELSE queued \cup {m}
                   \/ Fault /\ UNCHANGED queued
  /\ Still /\ UNCHANGED exists
Processing ==
  /\ watch.pc = "messages" /\ watch.batch = {} /\ watch' = [watch EXCEPT !.pc = "idle"]
  /\ Still /\ UNCHANGED <<rows, queued, exists, faults>>

-------------------------------------------------------------------------------
(* GmailSyncer.Sync: the list of the last days.  The first one sets a        *)
(* baseline that no later one reads.                                         *)

Idle == UNCHANGED <<arrived, queued, watch, exists, history, day>>
NoSync(pc) == [pc |-> pc, left |-> {}, listed |-> 0, synced |-> 0, failed |-> 0]
Listed == {m \in There : arrived[m] + Window >= day}
ListMessages ==
  /\ Push /\ gmail.pc \in {"idle", "done"}
  /\ IF Listed = {} THEN gmail' = NoSync("done") /\ UNCHANGED cursor
     ELSE IF ~cursor THEN gmail' = NoSync("done") /\ cursor' = TRUE
     ELSE /\ gmail' = [NoSync("messages") EXCEPT !.left = Listed, !.listed = Cardinality(Listed)]
          /\ UNCHANGED cursor
  /\ Idle /\ UNCHANGED <<rows, faults>>
\* An error ends a sync, of the baseline after it was set too, and so does its
\* context between two messages.
SyncFails ==
  /\ Push /\ Fault /\ gmail' = NoSync("idle")
  /\ \/ UNCHANGED cursor
     \/ gmail.pc # "messages" /\ Listed # {} /\ cursor' = TRUE
  /\ Idle /\ UNCHANGED rows
\* The newest first.  All are stored with the uid 0, so one account has one row;
\* what is not inserted for that counts as synced too.
ProcessGmailMessage ==
  /\ gmail.pc = "messages" /\ gmail.left # {}
  /\ LET m == Max(gmail.left)  rest == [gmail EXCEPT !.left = @ \ {m}] IN
     \/ /\ Fails(m)
        /\ gmail' = [rest EXCEPT !.failed = @ + 1] /\ UNCHANGED rows
     \/ /\ m \notin Broken /\ gmail' = [rest EXCEPT !.synced = @ + 1] /\ UNCHANGED faults
        /\ IF m \in NoId \/ Stored(m) THEN UNCHANGED rows ELSE StoreEmail(0, m)
  /\ Idle /\ UNCHANGED cursor
MarkCompleted ==
  /\ gmail.pc = "messages" /\ gmail.left = {} /\ gmail' = [gmail EXCEPT !.pc = "done"]
  /\ Idle /\ UNCHANGED <<rows, cursor, faults>>

\* SyncIncremental: the pages since the last history, handed on one by one; an
\* error of the handler is logged and the message passed over.  An error of a
\* page leaves the history, or gives 0 when it is too old: a full sync is asked.
SyncIncremental ==
  /\ Push
  /\ \E page \in 1 .. Last + 1 :
       LET new == {m \in There : m > history.last}
           seen == {m \in new : m < page}
       IN \E last \in {0, history.last, Last} :
            /\ IF last = Last THEN seen = new /\ UNCHANGED faults ELSE Fault
            /\ history' = [last |-> last, handed |-> history.handed \cup seen]
  /\ UNCHANGED <<mail, watch, exists, gmail, cursor, day>>

Next ==
  /\ UNCHANGED strategy
  /\ \/ Arrive \/ NextDay
     \/ Run \/ Stop \/ Wake \/ SearchSince \/ FetchMessages \/ ProcessMessage \/ Processing
     \/ ListMessages \/ SyncFails \/ ProcessGmailMessage \/ MarkCompleted \/ SyncIncremental

Spec == Init /\ [][Next]_vars

-------------------------------------------------------------------------------
\* The watermark moves only past messages that are stored, have no Message-ID,
\* failed, or were no longer of the last day when the watcher looked, over lost
\* connections and failed searches; and past what the very fetch that moves it
\* left out, which no later one asks for (idle.go:147-196, client.go:57-83).
NonePassed ==
  [][\A m \in There : watch.last < m /\ m <= watch'.last =>
       m \in NoId \cup watch.failed \cup watch.skipped \/ Stored(m)' \/ m \notin Recent]_vars

\* What is stored was enqueued with it, or is not for an error each: a watcher
\* that begins anew at 0 finds it stored and does not enqueue it (idle.go:239).
QueuedOnce ==
  ~Push => /\ \A m \in queued : Stored(m)
           /\ Cardinality({m \in There : Stored(m)} \ queued) <= faults

\* The history moves only past what the handler got, over failed pages and full
\* syncs; and a list counts every message, though no more than one of an account
\* has a row (history.go:25-50, gmail_sync.go:185).
GmailCounted ==
  /\ \A m \in 1 .. history.last : m \in history.handed
  /\ gmail.pc = "done" => gmail.synced + gmail.failed = gmail.listed
  /\ Push => Cardinality(rows) <= 1

\* The shape of the state, and the two above.
MailSeen == TypeOK /\ QueuedOnce /\ GmailCounted
===============================================================================
