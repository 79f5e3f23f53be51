--------------------------- MODULE BriefingDispatcher ---------------------------
(***************************************************************************)
(* Notifications (src/internal/briefings).  Publishers append events to    *)
(* the Redis stream "notification_events"; one dispatcher per server       *)
(* process reads them through the consumer group, applies the user's       *)
(* rules, routes to channels, asks the hourly limiter, sends and logs.     *)
(*                                                                         *)
(* Every command to Redis, to the database and to a provider is a step of  *)
(* its own: the servers, the trimmer, the hour, the providers' callbacks   *)
(* and crashes run in between.                                             *)
(***************************************************************************)
EXTENDS Naturals, Sequences, FiniteSets

CONSTANTS
  Servers,      \* the server processes
  Events,       \* the events that may be published
  UserOf,       \* UserOf[e]: the user_id field
  PriorityOf,   \* PriorityOf[e]: the priority field
  OfEmail,      \* the events with an email_id (publish.go writes none)
  Unreadable,   \* the events deserializeBriefing refuses
  Channels,     \* the names of the registered channels
  Reports,      \* the statuses the webhooks store
  Limit,        \* channelLimits, for the channels that have one
  BatchSize,    \* Count of XREADGROUP
  StreamMax,    \* MAXLEN of the stream
  MaxHours,     \* bound: hours that pass
  MaxFaults,    \* bound: failed commands and crashes
  MaxCallbacks  \* bound: status callbacks

KnownChannels == {"sms", "whatsapp", "signal", "push", "email_digest"}

ASSUME EventsAssumption ==
  /\ PriorityOf \in [Events -> 0 .. 100]
  /\ OfEmail \subseteq Events /\ Unreadable \subseteq Events
ASSUME ChannelsAssumption ==
  /\ Channels \subseteq KnownChannels
  /\ DOMAIN Limit \subseteq Channels
  /\ Reports \subseteq {"sent", "delivered", "read", "failed"}
  /\ \A c \in DOMAIN Limit : Limit[c] \in Nat \ {0}
ASSUME SizesAssumption ==
  /\ BatchSize \in Nat \ {0} /\ StreamMax \in Nat \ {0}
  /\ MaxHours \in Nat \ {0} /\ MaxFaults \in Nat /\ MaxCallbacks \in Nat

VARIABLES
  stream,     \* the entries ever added, oldest first
  trimmed,    \* how many of them XTRIM and MAXLEN have removed
  delivered,  \* how many of them the group has delivered (or skipped)
  pending,    \* the group's pending entries list
  disp,       \* disp[s]: where the dispatcher of s is
  hour,       \* the hour of the clock
  count,      \* count[u][c]: the limiter's counter of this hour
  calls,      \* calls[e][c]: the calls of Send: the hour they were permitted in,
              \* the hour they were made in, the server and the outcome
  log,        \* notification_log
  callbacks,  \* callbacks so far
  faults      \* faults so far

vars == <<stream, trimmed, delivered, pending, disp, hour, count, calls, log,
          callbacks, faults>>
streamVars == <<stream, trimmed, delivered>>
sendVars == <<count, calls, log>>

Users == {UserOf[e] : e \in Events}
Limited == DOMAIN Limit

\* The hour of a permission nobody counted: no limit, or Redis failed.
Uncounted == 0

Idle == [pc |-> "idle", batch |-> <<>>, prio |-> 0, todo |-> <<>>,
         hour |-> Uncounted, ok |-> FALSE]

Init ==
  /\ stream = <<>> /\ trimmed = 0 /\ delivered = 0
  /\ pending = {}
  /\ disp = [s \in Servers |-> Idle]
  /\ hour = 1
  /\ count = [u \in Users |-> [c \in Limited |-> 0]]
  /\ calls = [e \in Events |-> [c \in Channels |-> <<>>]]
  /\ log = {}
  /\ callbacks = 0 /\ faults = 0

Fault ==
  /\ faults < MaxFaults
  /\ faults' = faults + 1

-------------------------------------------------------------------------------
(* The stream.                                                             *)

Published == {stream[i] : i \in 1 .. Len(stream)}
LiveEntries == {stream[i] : i \in trimmed + 1 .. Len(stream)}
MaxOf(a, b) == IF a > b THEN a ELSE b
MinOf(a, b) == IF a < b THEN a ELSE b

\* XADD with MAXLEN "~": Redis removes the oldest entries down to MAXLEN, or
\* leaves them for later.  It does not ask whether they were delivered.
Publish(e) ==
  /\ e \notin Published
  /\ stream' = Append(stream, e)
  /\ \/ trimmed' = MaxOf(trimmed, Len(stream') - StreamMax)
     \/ UNCHANGED trimmed
  /\ UNCHANGED <<delivered, pending, disp, hour, sendVars, callbacks, faults>>

\* runTrimmer: the hourly XTRIM.
Trim ==
  /\ Len(stream) - StreamMax > trimmed
  /\ trimmed' = Len(stream) - StreamMax
  /\ UNCHANGED <<stream, delivered, pending, disp, hour, sendVars, callbacks, faults>>

\* Variant: the reclaimed entries are worked on without asking who has them.
AutoClaimWorks(s) ==
  \E e \in pending \cap LiveEntries :
    /\ disp[s].pc = "idle"
    /\ disp' = [disp EXCEPT ![s] = [Idle EXCEPT !.pc = "evaluate", !.batch = <<e>>]]
    /\ UNCHANGED <<streamVars, pending, hour, sendVars, callbacks, faults>>

\* runAutoClaim makes this consumer the owner of idle pending entries, logs
\* how many there are and drops them.  The owner decides nothing else, so
\* what remains is that entries trimmed meanwhile leave the pending list.
AutoClaim(s) ==
  /\ pending \ LiveEntries # {}
  /\ pending' = pending \cap LiveEntries
  /\ UNCHANGED <<streamVars, disp, hour, sendVars, callbacks, faults>>

-------------------------------------------------------------------------------
(* The dispatcher of server s.                                             *)

Msg(s) == Head(disp[s].batch)
Chan(s) == Head(disp[s].todo)

\* d goes on with the next message of its batch, or reads again.
NextMessage(d) ==
  IF Len(d.batch) > 1
    THEN [Idle EXCEPT !.pc = "evaluate", !.batch = Tail(d.batch)]
    ELSE Idle

\* d goes on with the next channel of its message, or acknowledges.
NextChannel(d) ==
  [d EXCEPT !.todo = Tail(@), !.hour = Uncounted, !.ok = FALSE,
            !.pc = IF Len(d.todo) > 1 THEN "allow" ELSE "ack"]

\* XREADGROUP ">": up to BatchSize entries nobody was given before.
Read(s) ==
  LET from == MaxOf(trimmed, delivered)
      to == MinOf(from + BatchSize, Len(stream))
  IN
  /\ disp[s].pc = "idle"
  /\ from < Len(stream)
  /\ disp' = [disp EXCEPT ![s] = [Idle EXCEPT
                !.pc = "evaluate", !.batch = SubSeq(stream, from + 1, to)]]
  /\ delivered' = to
  /\ pending' = pending \union {stream[i] : i \in from + 1 .. to}
  /\ UNCHANGED <<stream, trimmed, hour, sendVars, callbacks, faults>>

\* actionToPriority of the actions a rule can have.
RulePriorities == {95, 70, 50, 0}

\* Variant: a suppressed message is skipped without XACK.
EvaluateSkips(s) ==
  /\ disp[s].pc = "evaluate"
  /\ \E p \in {PriorityOf[Msg(s)]} \union RulePriorities :
       disp' = [disp EXCEPT ![s] =
                  IF Msg(s) \in Unreadable \/ p = 0
                    THEN NextMessage(@)
                    ELSE [@ EXCEPT !.pc = "route", !.prio = p]]
  /\ UNCHANGED <<streamVars, pending, hour, sendVars, callbacks, faults>>

\* Evaluate: the first rule that matches decides, and without one (or without
\* the rules) the event's own priority.  The user edits the rules and the time
\* rules follow the clock, so any of them may match.  A message that cannot be
\* read and a suppressed one are acknowledged at once.
Evaluate(s) ==
  /\ disp[s].pc = "evaluate"
  /\ \E p \in {PriorityOf[Msg(s)]} \union RulePriorities :
       disp' = [disp EXCEPT ![s] =
                  IF Msg(s) \in Unreadable \/ p = 0
                    THEN [@ EXCEPT !.pc = "ack"]
                    ELSE [@ EXCEPT !.pc = "route", !.prio = p]]
  /\ UNCHANGED <<streamVars, pending, hour, sendVars, callbacks, faults>>

\* No connection: processMessage returns without XACK.
LoadRecipientFails(s) ==
  /\ disp[s].pc = "route"
  /\ Fault
  /\ disp' = [disp EXCEPT ![s] = NextMessage(@)]
  /\ UNCHANGED <<streamVars, pending, hour, sendVars, callbacks>>

Registered(c) == IF c \in Channels THEN <<c>> ELSE <<>>

\* allActiveChannels: the enabled and registered ones, in the order of checks.
AllActive(enabled) ==
  LET Active(c) == IF c \in enabled THEN Registered(c) ELSE <<>>
  IN Active("sms") \o Active("whatsapp") \o Active("signal") \o Active("push")
       \o Active("email_digest")

\* Route: all enabled channels above 80, the primary one (enabled or not)
\* above 60, else the digest; push when the preferences cannot be loaded.
\* The user edits the preferences at any time.  loadRecipient comes first and
\* writes nothing; the priority is not needed after it.
RouteTo(s, channels) ==
  disp' = [disp EXCEPT ![s].todo = channels, ![s].prio = 0,
                       ![s].pc = IF channels = <<>> THEN "ack" ELSE "allow"]

Route(s) ==
  /\ disp[s].pc = "route"
  /\ \/ /\ disp[s].prio > 80
        /\ \E enabled \in SUBSET Channels : RouteTo(s, AllActive(enabled))
     \/ /\ disp[s].prio \in 61 .. 80
        /\ \E primary \in KnownChannels : RouteTo(s, Registered(primary))
     \/ /\ disp[s].prio <= 60
        /\ RouteTo(s, Registered("email_digest"))
  /\ UNCHANGED <<streamVars, pending, hour, sendVars, callbacks, faults>>

RouteWithoutPrefs(s) ==
  /\ disp[s].pc = "route"
  /\ Fault
  /\ RouteTo(s, Registered("push"))
  /\ UNCHANGED <<streamVars, pending, hour, sendVars, callbacks>>

\* Allow: INCR, and a count above the limit skips the channel.
AllowUpTo(s, limit) ==
  LET u == UserOf[Msg(s)]
      c == Chan(s)
  IN
  /\ disp[s].pc = "allow"
  /\ \/ /\ c \notin Limited
        /\ disp' = [disp EXCEPT ![s].pc = "send"]
        /\ UNCHANGED count
     \/ /\ c \in Limited
        /\ count' = [count EXCEPT ![u][c] = @ + 1]
        /\ disp' = [disp EXCEPT ![s] =
                      IF count'[u][c] <= limit[c]
                        THEN [@ EXCEPT !.pc = "send", !.hour = hour]
                        ELSE NextChannel(@)]
  /\ UNCHANGED <<streamVars, pending, hour, calls, log, callbacks, faults>>

\* Variant: a refused message waits for its turn.
AllowWaits(s) ==
  /\ disp[s].pc = "allow"
  /\ Chan(s) \in Limited => count[UserOf[Msg(s)]][Chan(s)] < Limit[Chan(s)]
  /\ AllowUpTo(s, Limit)

Allow(s) == AllowUpTo(s, Limit)

\* INCR fails, executed or not: the limiter lets the message pass.
AllowFailsOpen(s) ==
  LET u == UserOf[Msg(s)]
      c == Chan(s)
  IN
  /\ disp[s].pc = "allow" /\ c \in Limited
  /\ Fault
  /\ \/ UNCHANGED count
     \/ count' = [count EXCEPT ![u][c] = @ + 1]
  /\ disp' = [disp EXCEPT ![s].pc = "send"]
  /\ UNCHANGED <<streamVars, pending, hour, calls, log, callbacks>>

\* The channels whose Send writes a row of its own, by the outcome.  Push does
\* so only when the user has a device; the digest's Send does nothing.
Tracks(c, ok) == IF ok THEN {"sms", "whatsapp", "push"} ELSE {"whatsapp"}

\* ch.Send: the provider takes the message or not; a missing address fails
\* like a refusal (and is not tracked), no device succeeds without a call.
Send(s) ==
  LET e == Msg(s)
      c == Chan(s)
  IN
  /\ disp[s].pc = "send"
  /\ \E ok \in IF c = "email_digest" THEN {TRUE} ELSE BOOLEAN,
        addressed \in BOOLEAN :
       /\ disp' = [disp EXCEPT ![s].ok = ok, ![s].pc =
                     IF c \in Tracks(c, ok) /\ addressed THEN "track" ELSE "log"]
       /\ c \in {"sms", "whatsapp"} /\ ok => addressed
       /\ calls' = [calls EXCEPT ![e][c] =
                      Append(@, [hour |-> disp[s].hour, at |-> hour, by |-> s, ok |-> ok])]
  /\ UNCHANGED <<streamVars, pending, hour, count, log, callbacks, faults>>

\* LogSend: without an email_id the row names the zero uuid, which no email
\* has, and the INSERT fails on the foreign key (migration 031).
Insert(e, c, by, ok) ==
  log' = IF e \in OfEmail
           THEN log \union {[event |-> e, channel |-> c, by |-> by,
                             status |-> IF ok THEN "sent" ELSE "failed"]}
           ELSE log

\* The row of the channel carries the provider's id of the message.
Track(s) ==
  /\ disp[s].pc = "track"
  /\ Insert(Msg(s), Chan(s), "channel", disp[s].ok)
  /\ disp' = [disp EXCEPT ![s].pc = "log"]
  /\ UNCHANGED <<streamVars, pending, hour, count, calls, callbacks, faults>>

\* Variant: a failed send goes on with the next channel before the row.
LogSendOnlySent(s) ==
  /\ disp[s].pc = "log"
  /\ IF disp[s].ok THEN Insert(Msg(s), Chan(s), "dispatcher", TRUE)
                   ELSE UNCHANGED log
  /\ disp' = [disp EXCEPT ![s] = NextChannel(@)]
  /\ UNCHANGED <<streamVars, pending, hour, count, calls, callbacks, faults>>

\* The dispatcher writes a second row, without the provider's id.
LogSend(s) ==
  /\ disp[s].pc = "log"
  /\ Insert(Msg(s), Chan(s), "dispatcher", disp[s].ok)
  /\ disp' = [disp EXCEPT ![s] = NextChannel(@)]
  /\ UNCHANGED <<streamVars, pending, hour, count, calls, callbacks, faults>>

\* An INSERT that fails is only logged.
LogFails(s) ==
  /\ disp[s].pc \in {"track", "log"}
  /\ Fault
  /\ disp' = [disp EXCEPT ![s] = IF @.pc = "track" THEN [@ EXCEPT !.pc = "log"]
                                                   ELSE NextChannel(@)]
  /\ UNCHANGED <<streamVars, pending, hour, sendVars, callbacks>>

\* XACK, whatever became of the sends.
Ack(s) ==
  /\ disp[s].pc = "ack"
  /\ pending' = pending \ {Msg(s)}
  /\ disp' = [disp EXCEPT ![s] = NextMessage(@)]
  /\ UNCHANGED <<streamVars, hour, sendVars, callbacks, faults>>

\* The error of XACK is not looked at.
AckFails(s) ==
  /\ disp[s].pc = "ack"
  /\ Fault
  /\ disp' = [disp EXCEPT ![s] = NextMessage(@)]
  /\ UNCHANGED <<streamVars, pending, hour, sendVars, callbacks>>

\* The process dies and starts again under another consumer name.
Crash(s) ==
  /\ disp[s].pc # "idle"
  /\ Fault
  /\ disp' = [disp EXCEPT ![s] = Idle]
  /\ UNCHANGED <<streamVars, pending, hour, sendVars, callbacks>>

-------------------------------------------------------------------------------
(* The clock and the providers.                                            *)

\* The keys of the limiter carry the hour: a new one starts from zero.
Tick ==
  /\ hour < MaxHours
  /\ hour' = hour + 1
  /\ count' = [u \in Users |-> [c \in Limited |-> 0]]
  /\ UNCHANGED <<streamVars, pending, disp, calls, log, callbacks, faults>>

Accepted(e, c) == \E i \in 1 .. Len(calls[e][c]) : calls[e][c][i].ok

\* A payload of WhatsApp without the id of a message (Twilio's handler refuses
\* one): UpdateStatus overwrites every row whose id is empty, which are all those
\* of the dispatcher, those of push, and those a provider named nothing for.  A
\* provider that sends this counts as a fault.
CallbackWithoutId ==
  /\ Fault
  /\ \E status \in Reports, named \in SUBSET {r \in log : r.by = "channel"} :
       log' = named \union {[r EXCEPT !.status = status] : r \in log \ named}
  /\ UNCHANGED <<streamVars, pending, disp, hour, count, calls, callbacks>>

\* A status callback of Twilio or WhatsApp: UpdateStatus overwrites the row
\* with this id, in whatever order the callbacks come.  A callback that comes
\* before the row changes nothing and is lost.
Callback(e, c) ==
  /\ callbacks < MaxCallbacks
  /\ \E r \in log, status \in Reports :
       /\ r.event = e /\ r.channel = c /\ r.by = "channel"
       /\ c \in {"sms", "whatsapp"} /\ Accepted(e, c)
       /\ log' = (log \ {r}) \union {[r EXCEPT !.status = status]}
  /\ callbacks' = callbacks + 1
  /\ UNCHANGED <<streamVars, pending, disp, hour, count, calls, faults>>

-------------------------------------------------------------------------------
Work(s) ==
  \/ Read(s) \/ Evaluate(s) \/ Route(s) \/ Allow(s)
  \/ Send(s) \/ Track(s) \/ LogSend(s) \/ Ack(s)

Failure(s) ==
  \/ LoadRecipientFails(s) \/ RouteWithoutPrefs(s) \/ AllowFailsOpen(s)
  \/ LogFails(s) \/ AckFails(s) \/ Crash(s)

Next ==
  \/ \E e \in Events : Publish(e) \/ \E c \in Channels : Callback(e, c)
  \/ CallbackWithoutId
  \/ Trim
  \/ Tick
  \/ \E s \in Servers : Work(s) \/ Failure(s) \/ AutoClaim(s)

Spec == Init /\ [][Next]_vars

\* The loop of a dispatcher goes on as long as its process runs, and a process
\* that died is started again.
FairSpec == Spec /\ \A s \in Servers : WF_vars(Work(s))

-------------------------------------------------------------------------------
(* Properties.                                                             *)

Pcs == {"idle", "evaluate", "route", "allow", "send", "track", "log", "ack"}
Hours == Uncounted .. MaxHours

\* The shape of the state: a dispatcher past its read has a message, and one
\* that sends has a channel (dispatcher.go:99, 139).
TypeOK ==
  /\ stream \in Seq(Events)
  /\ trimmed \in 0 .. Len(stream) /\ delivered \in 0 .. Len(stream)
  /\ pending \subseteq Events
  /\ \A s \in Servers :
       /\ disp[s].pc \in Pcs
       /\ disp[s].batch \in Seq(Events) /\ disp[s].todo \in Seq(Channels)
       /\ disp[s].pc = "idle" <=> disp[s].batch = <<>>
       /\ disp[s].pc \in {"allow", "send", "track", "log"} => disp[s].todo # <<>>
       /\ disp[s].hour \in Hours
  /\ hour \in 1 .. MaxHours
  /\ callbacks \in 0 .. MaxCallbacks /\ faults \in 0 .. MaxFaults

InHand(e) == \E s \in Servers : \E i \in 1 .. Len(disp[s].batch) : disp[s].batch[i] = e

\* No channel is asked twice to send one event, whatever servers read the
\* stream, crash and reclaim (dispatcher.go:83-102, 261-268): delivery is at
\* most once.
AtMostOneSend ==
  \A e \in Events, c \in Channels : Len(calls[e][c]) <= 1

CallsOf(u, c) == {e \in Events : UserOf[e] = u} \X (1 .. 2)
CallAt(p, c) == calls[p[1]][c][p[2]]

\* In no hour are more messages permitted to a user over a channel, and sent
\* then or later, than its limit allows, by all servers together; only messages
\* let through by a failing Redis are not counted (ratelimit.go:30-54).
PermittedLimit ==
  \A u \in Users, c \in Limited, h \in 1 .. MaxHours :
    Cardinality({p \in CallsOf(u, c) : p[2] <= Len(calls[p[1]][c])
                                        /\ CallAt(p, c).hour = h}) <= Limit[c]

\* A counted call made in a later hour than its permission.
Late(call) == call.hour # Uncounted /\ call.hour < call.at

\* The hour may change between the permission and the send, so an hour can see
\* more messages than "notifications per hour" (ratelimit.go:17) allows.  How
\* many more is bounded: a server holds one permission at a time, so it sends
\* at most one late message in any hour, over all users and channels
\* (dispatcher.go:136-155).  With PermittedLimit, the counted messages an hour
\* sees are at most the limit and one per server.
OneLatePerServer ==
  \A d, e \in Events, b, c \in Channels :
    \A i \in 1 .. Len(calls[d][b]), j \in 1 .. Len(calls[e][c]) :
      LET x == calls[d][b][i]
          y == calls[e][c][j]
      IN Late(x) /\ Late(y) /\ x.by = y.by /\ x.at = y.at => <<d, b, i>> = <<e, c, j>>

\* A dispatcher lets go of a message unacknowledged only when something
\* failed: denied, refused and suppressed messages are acknowledged
\* (dispatcher.go:108-158).
LeftPendingOnlyByFault ==
  [][\A e \in Events : InHand(e) /\ ~InHand(e)' /\ e \in pending'
       => faults' > faults]_vars

\* s is between the provider's answer and its row for <<e, c>>.
AboutToLog(e, c) ==
  \E s \in Servers : disp[s].pc \in {"track", "log"} /\ Msg(s) = e /\ Chan(s) = c

Row(e, c, ok) == [event |-> e, channel |-> c, by |-> "dispatcher",
                  status |-> IF ok THEN "sent" ELSE "failed"]

\* Without faults every send for an email has its row with the outcome, and
\* the providers' callbacks that name a message do not touch it
\* (dispatcher.go:139-155, delivery.go:22-72).
EverySendLogged ==
  faults = 0 =>
    \A e \in OfEmail, c \in Channels :
      calls[e][c] # <<>> /\ ~AboutToLog(e, c) => Row(e, c, calls[e][c][1].ok) \in log

\* No message is sent twice, no hour permits more messages than it may, a server
\* carries at most one over into the next, and what was sent is on record
\* (dispatcher.go:136-155).
SendsAreLimited ==
  TypeOK /\ AtMostOneSend /\ PermittedLimit /\ OneLatePerServer /\ EverySendLogged

\* e is delivered or trimmed, and no dispatcher is working on it.
Ended(e) ==
  /\ ~InHand(e)
  /\ \A i \in 1 .. Len(stream) : stream[i] = e => i <= MaxOf(trimmed, delivered)

\* No published event waits for ever: the trimmer removes it, or some
\* dispatcher takes it up and is done with it; a limit that is reached or a
\* provider that refuses does not hold up the messages behind (dispatcher.go:76-105).
EveryEventEnds == []<>(\A e \in Published : Ended(e))
===============================================================================
