------------------------ MODULE BriefingDispatcherProofs ------------------------
(***************************************************************************)
(* Proofs about BriefingDispatcher for every number of servers and events, *)
(* every limit, batch and stream size.                                     *)
(*                                                                         *)
(* The consumer group gives an entry to one dispatcher, and the stream has *)
(* an event once: so an event is in one hand, and while it is there the    *)
(* channels still to be asked have not been asked (Once).  The sends of an *)
(* hour and the permissions that may become one are together no more than  *)
(* the counter (Claims).                                                   *)
(***************************************************************************)
EXTENDS BriefingDispatcher, SequenceTheorems, FiniteSetTheorems, TLAPS

-------------------------------------------------------------------------------
(* The inductive invariant.                                                *)

DispStates == [pc : Pcs, batch : Seq(Events), prio : Nat, todo : Seq(Channels),
               hour : Hours, ok : BOOLEAN]
Calls == [hour : Hours, at : 1 .. MaxHours, by : Servers, ok : BOOLEAN]

\* A dispatcher past its read has a message, and one that sends has a channel;
\* the hour of its permission is not kept for the next channel.
DispOK(d) ==
  /\ d \in DispStates
  /\ d.pc = "idle" <=> d.batch = <<>>
  /\ d.pc \in {"allow", "send", "track", "log"} => d.todo # <<>>
  /\ d.pc \notin {"send", "track", "log"} => d.hour = Uncounted

\* TypeOK with the types of what it leaves open.
Typed ==
  /\ stream \in Seq(Events)
  /\ trimmed \in 0 .. Len(stream) /\ delivered \in 0 .. Len(stream)
  /\ pending \subseteq Events
  /\ disp \in [Servers -> DispStates] /\ \A s \in Servers : DispOK(disp[s])
  /\ hour \in 1 .. MaxHours
  /\ count \in [Users -> [Limited -> Nat]]
  /\ calls \in [Events -> [Channels -> Seq(Calls)]]
  /\ callbacks \in 0 .. MaxCallbacks /\ faults \in 0 .. MaxFaults

\* Each event is in the stream once, and the group has given those in a batch.
Given(e) == \E k \in 1 .. delivered : stream[k] = e
StreamOnce == \A j, k \in 1 .. Len(stream) : stream[j] = stream[k] => j = k
BatchesGiven == \A s \in Servers : \A i \in 1 .. Len(disp[s].batch) : Given(disp[s].batch[i])
OneHand ==
  \A s, t \in Servers :
    \A i \in 1 .. Len(disp[s].batch) : \A j \in 1 .. Len(disp[t].batch) :
      disp[s].batch[i] = disp[t].batch[j] => s = t /\ i = j

\* A dispatcher has each channel once in its list.
ChannelsOnce ==
  \A s \in Servers : \A i, j \in 1 .. Len(disp[s].todo) :
    disp[s].todo[i] = disp[s].todo[j] => i = j

\* What has been asked is at most once asked, and was given to somebody; what
\* is still to be asked is not.
Unasked(e) == \A c \in Channels : calls[e][c] = <<>>
AskedOnce == \A e \in Events, c \in Channels : Len(calls[e][c]) <= 1
AskedGiven == \A e \in Events : Unasked(e) \/ Given(e)
WaitingUnasked ==
  \A s \in Servers : \A i \in 1 .. Len(disp[s].batch) :
    i > 1 \/ disp[s].pc \in {"evaluate", "route"} => Unasked(disp[s].batch[i])
TodoUnasked ==
  \A s \in Servers : disp[s].pc \in {"allow", "send", "track", "log"} =>
    \A j \in 1 .. Len(disp[s].todo) :
      j > 1 \/ disp[s].pc \in {"allow", "send"} => calls[Msg(s)][disp[s].todo[j]] = <<>>

Once ==
  /\ StreamOnce /\ BatchesGiven /\ OneHand /\ ChannelsOnce
  /\ AskedOnce /\ AskedGiven /\ WaitingUnasked /\ TodoUnasked

\* A dispatcher that writes a row knows the outcome it writes.
Outcome ==
  \A s \in Servers : disp[s].pc \in {"track", "log"} =>
    calls[Msg(s)][Chan(s)] # <<>> /\ calls[Msg(s)][Chan(s)][1].ok = disp[s].ok

\* The events sent to u over c with a permission of the hour h, or about to be.
Permitted(e, c, h) ==
  \E s \in Servers : disp[s].pc = "send" /\ disp[s].hour = h /\ Msg(s) = e /\ Chan(s) = c
Sent(e, c, h) == calls[e][c] # <<>> /\ calls[e][c][1].hour = h
Claims(u, c, h) == {e \in Events : UserOf[e] = u /\ (Sent(e, c, h) \/ Permitted(e, c, h))}

ClaimsLimited ==
  \A u \in Users, c \in Limited, h \in 1 .. MaxHours :
    /\ IsFiniteSet(Claims(u, c, h))
    /\ Cardinality(Claims(u, c, h)) <= Limit[c]
    /\ h = hour => Cardinality(Claims(u, c, h)) <= count[u][c]
    /\ h > hour => Claims(u, c, h) = {}

\* The calls are made in hours that have been, and a server that made a late call
\* in this hour holds no permission of an earlier one.
Asked(e, c) == calls[e][c] # <<>>
Lates ==
  /\ \A e \in Events, c \in Channels : Asked(e, c) => calls[e][c][1].at <= hour
  /\ \A e \in Events, c \in Channels :
       Asked(e, c) /\ Late(calls[e][c][1]) /\ calls[e][c][1].at = hour =>
         LET d == disp[calls[e][c][1].by]
         IN d.pc = "send" => d.hour \in {Uncounted, hour}

\* No two late calls of a server in an hour.
LatesApart ==
  \A d, e \in Events, b, c \in Channels :
    /\ Asked(d, b) /\ Late(calls[d][b][1])
    /\ Asked(e, c) /\ Late(calls[e][c][1])
    /\ calls[d][b][1].by = calls[e][c][1].by /\ calls[d][b][1].at = calls[e][c][1].at
    => d = e /\ b = c

Inv ==
  Typed /\ Once /\ Outcome /\ ClaimsLimited /\ Lates /\ LatesApart /\ EverySendLogged

-------------------------------------------------------------------------------
(* The shape of the state.                                                 *)

\* The rest of a sequence.
LEMMA TailOK ==
  ASSUME NEW S, NEW q \in Seq(S), q # <<>>
  PROVE  /\ Head(q) = q[1] /\ q[1] \in S /\ Len(q) \in Nat \ {0}
         /\ Tail(q) \in Seq(S)
         /\ Len(Tail(q)) = Len(q) - 1
         /\ \A i \in 1 .. Len(Tail(q)) : Tail(q)[i] = q[i + 1]
         /\ Len(q) > 1 <=> Tail(q) # <<>>
<1>1. /\ Tail(q) \in Seq(S) /\ Len(Tail(q)) = Len(q) - 1
      /\ \A i \in 1 .. Len(Tail(q)) : Tail(q)[i] = q[i + 1]
  BY HeadTailProperties
<1>2. Len(q) \in Nat \ {0} /\ q[1] \in S
  BY EmptySeq, ElementOfSeq
<1>3. Tail(q) = <<>> => Len(Tail(q)) = 0
  BY EmptySeq
<1>4. Tail(q) # <<>> => Len(Tail(q)) > 0
  <2>1. Tail(q) # <<>> => Len(Tail(q)) \in Nat \ {0}
    BY <1>1, EmptySeq
  <2>2. QED
    BY <2>1
<1>5. QED
  BY <1>1, <1>2, <1>3, <1>4

\* The next message is the rest of the batch, evaluated anew.
LEMMA NextMessageOK ==
  ASSUME NEW d, DispOK(d), d.pc # "idle"
  PROVE  /\ DispOK(NextMessage(d))
         /\ NextMessage(d).batch = Tail(d.batch)
         /\ NextMessage(d).pc \in {"idle", "evaluate"}
         /\ NextMessage(d).todo = <<>>
<1>1. d.batch \in Seq(Events) /\ d.batch # <<>>
  BY DEF DispOK, DispStates
<1>2. Tail(d.batch) \in Seq(Events) /\ (Len(d.batch) > 1 <=> Tail(d.batch) # <<>>)
  BY <1>1, TailOK
<1>3. CASE Len(d.batch) > 1
  <2>1. NextMessage(d) = [pc |-> "evaluate", batch |-> Tail(d.batch), prio |-> 0,
                          todo |-> <<>>, hour |-> 0, ok |-> FALSE]
    BY <1>3 DEF NextMessage, Idle, Uncounted
  <2>2. NextMessage(d) \in DispStates
    BY <1>2, <2>1, SizesAssumption DEF DispStates, Pcs, Hours, Uncounted
  <2>3. QED
    BY <1>2, <1>3, <2>1, <2>2 DEF DispOK, Uncounted
<1>4. CASE ~(Len(d.batch) > 1)
  <2>1. NextMessage(d) = [pc |-> "idle", batch |-> <<>>, prio |-> 0,
                          todo |-> <<>>, hour |-> 0, ok |-> FALSE]
    BY <1>4 DEF NextMessage, Idle, Uncounted
  <2>2. NextMessage(d) \in DispStates
    BY <2>1, SizesAssumption DEF DispStates, Pcs, Hours, Uncounted
  <2>3. QED
    BY <1>2, <1>4, <2>1, <2>2 DEF DispOK, Uncounted
<1>5. QED
  BY <1>3, <1>4

\* The next channel is the rest of the list, asked for permission first.
LEMMA NextChannelOK ==
  ASSUME NEW d, DispOK(d), d.pc # "idle", d.todo # <<>>
  PROVE  /\ DispOK(NextChannel(d))
         /\ NextChannel(d).batch = d.batch
         /\ NextChannel(d).todo = Tail(d.todo)
         /\ NextChannel(d).pc \in {"allow", "ack"}
<1>1. d \in DispStates /\ d.todo \in Seq(Channels)
  BY DEF DispOK, DispStates
<1>2. Tail(d.todo) \in Seq(Channels) /\ (Len(d.todo) > 1 <=> Tail(d.todo) # <<>>)
  BY <1>1, TailOK
<1>3. NextChannel(d) \in DispStates
  <2>1. 0 \in Hours
    BY SizesAssumption DEF Hours, Uncounted
  <2>2. QED
    BY <1>1, <1>2, <2>1 DEF NextChannel, DispStates, Pcs, Uncounted
<1>4. QED
  BY <1>1, <1>2, <1>3 DEF NextChannel, DispOK, DispStates

\* Every list of channels Route can choose has registered channels, each once.
ChannelList(q) == q \in Seq(Channels) /\ \A i, j \in 1 .. Len(q) : q[i] = q[j] => i = j

LEMMA RegisteredOK == ASSUME NEW c PROVE ChannelList(Registered(c))
  BY DEF ChannelList, Registered

\* A channel that is not in a list yet can follow it.
Fresh(q, c) == \A i \in 1 .. Len(q) : q[i] # c
IfActive(c, enabled) == IF c \in enabled THEN Registered(c) ELSE <<>>

LEMMA ListGrows ==
  ASSUME NEW q, ChannelList(q), NEW c, NEW enabled, Fresh(q, c)
  PROVE  /\ ChannelList(q \o IfActive(c, enabled))
         /\ \A d : d # c /\ Fresh(q, d) => Fresh(q \o IfActive(c, enabled), d)
<1>1. CASE c \in enabled /\ c \in Channels
  <2>1. q \o <<c>> \in Seq(Channels) /\ Len(q \o <<c>>) = Len(q) + 1
    BY <1>1 DEF ChannelList
  <2>2. \A i \in 1 .. Len(q) + 1 : (q \o <<c>>)[i] = IF i <= Len(q) THEN q[i] ELSE c
    BY <1>1 DEF ChannelList
  <2>3. QED
    BY <1>1, <2>1, <2>2 DEF ChannelList, Registered, IfActive, Fresh
<1>2. CASE ~(c \in enabled /\ c \in Channels)
  <2>1. q \o <<>> = q
    BY DEF ChannelList
  <2>2. QED
    BY <1>2, <2>1 DEF ChannelList, Registered, IfActive, Fresh
<1>3. QED
  BY <1>1, <1>2

LEMMA AllActiveOK == ASSUME NEW enabled PROVE ChannelList(AllActive(enabled))
<1> DEFINE q1 == IfActive("sms", enabled)
           q2 == q1 \o IfActive("whatsapp", enabled)
           q3 == q2 \o IfActive("signal", enabled)
           q4 == q3 \o IfActive("push", enabled)
           q5 == q4 \o IfActive("email_digest", enabled)
<1>1. AllActive(enabled) = q5
  BY DEF AllActive, IfActive
<1>2. /\ ChannelList(q1) /\ Fresh(q1, "whatsapp") /\ Fresh(q1, "signal")
      /\ Fresh(q1, "push") /\ Fresh(q1, "email_digest")
  BY DEF Registered, ChannelList, Fresh, IfActive
<1> HIDE DEF q1
<1>3. /\ ChannelList(q2) /\ Fresh(q2, "signal") /\ Fresh(q2, "push")
      /\ Fresh(q2, "email_digest")
  BY <1>2, ListGrows
<1> HIDE DEF q2
<1>4. ChannelList(q3) /\ Fresh(q3, "push") /\ Fresh(q3, "email_digest")
  BY <1>3, ListGrows
<1> HIDE DEF q3
<1>5. ChannelList(q4) /\ Fresh(q4, "email_digest")
  BY <1>4, ListGrows
<1> HIDE DEF q4
<1>6. QED
  BY <1>1, <1>5, ListGrows

-------------------------------------------------------------------------------
(* What a step does to its dispatcher: d is the state it leaves.           *)

Moves(s, d) == DispOK(d) /\ disp' = [disp EXCEPT ![s] = d]

\* XREADGROUP gives a batch of entries nobody was given before.
Reads(s, d) ==
  /\ disp[s].pc = "idle" /\ d.pc = "evaluate" /\ d.todo = <<>>
  /\ delivered' \in Nat /\ delivered' <= Len(stream)
  /\ \E from \in Nat :
       /\ delivered <= from /\ from < delivered'
       /\ Len(d.batch) = delivered' - from
       /\ \A i \in 1 .. Len(d.batch) : d.batch[i] = stream[from + i]
  /\ UNCHANGED <<stream, calls>>

\* The message goes on with its channels as they are.
Walks(s, d) ==
  /\ d.batch = disp[s].batch /\ d.todo = disp[s].todo /\ d.ok = disp[s].ok
  /\ \/ disp[s].pc = "evaluate" /\ d.pc \in {"route", "ack"}
     \/ disp[s].pc = "allow" /\ d.pc = "send" /\ d.hour \in {Uncounted, hour}
     \/ disp[s].pc = "track" /\ d.pc = "log"
  /\ UNCHANGED <<stream, delivered, calls>>

Routes(s, d) ==
  /\ disp[s].pc = "route" /\ d.pc \in {"allow", "ack"}
  /\ d.batch = disp[s].batch /\ ChannelList(d.todo)
  /\ UNCHANGED <<stream, delivered, calls>>

SkipsChannel(s, d) ==
  /\ disp[s].pc \in {"allow", "log"} /\ d = NextChannel(disp[s])
  /\ UNCHANGED <<stream, delivered, calls>>

Sends(s, d) ==
  /\ disp[s].pc = "send" /\ d.pc \in {"track", "log"}
  /\ d.batch = disp[s].batch /\ d.todo = disp[s].todo
  /\ calls' = [calls EXCEPT ![Msg(s)][Chan(s)] =
                 Append(@, [hour |-> disp[s].hour, at |-> hour, by |-> s, ok |-> d.ok])]
  /\ UNCHANGED <<stream, delivered>>

LeavesMessage(s, d) ==
  /\ disp[s].pc \in {"route", "ack"} /\ d = NextMessage(disp[s])
  /\ UNCHANGED <<stream, delivered, calls>>

Restarts(s, d) ==
  /\ disp[s].pc # "idle" /\ d = Idle
  /\ UNCHANGED <<stream, delivered, calls>>

StepOf(s, d) ==
  /\ Moves(s, d)
  /\ \/ Reads(s, d) \/ Walks(s, d) \/ Routes(s, d) \/ SkipsChannel(s, d)
     \/ Sends(s, d) \/ LeavesMessage(s, d) \/ Restarts(s, d)

\* What is in the hands of a dispatcher that works.
LEMMA AtWork ==
  ASSUME Typed, NEW s \in Servers, disp[s].pc # "idle"
  PROVE  /\ DispOK(disp[s]) /\ disp[s] \in DispStates
         /\ disp[s].batch \in Seq(Events) /\ Len(disp[s].batch) \in Nat \ {0}
         /\ Msg(s) = disp[s].batch[1] /\ Msg(s) \in Events /\ UserOf[Msg(s)] \in Users
<1>1. DispOK(disp[s]) /\ disp[s] \in DispStates
  BY DEF Typed
<1>2. disp[s].batch \in Seq(Events) /\ disp[s].batch # <<>>
  BY <1>1 DEF DispOK, DispStates
<1>3. Msg(s) = disp[s].batch[1] /\ Msg(s) \in Events /\ Len(disp[s].batch) \in Nat \ {0}
  BY <1>2, TailOK DEF Msg
<1>4. QED
  BY <1>1, <1>2, <1>3 DEF Users

\* The channel it is about to ask, asks or asked.
LEMMA AtChannel ==
  ASSUME Typed, NEW s \in Servers, disp[s].pc \in {"allow", "send", "track", "log"}
  PROVE  /\ disp[s].todo \in Seq(Channels) /\ disp[s].todo # <<>>
         /\ Len(disp[s].todo) \in Nat \ {0}
         /\ Chan(s) = disp[s].todo[1] /\ Chan(s) \in Channels
<1>1. disp[s].todo \in Seq(Channels) /\ disp[s].todo # <<>>
  BY DEF Typed, DispOK, DispStates
<1>2. QED
  BY <1>1, TailOK DEF Chan

\* Idle is a state of a dispatcher.
LEMMA IdleOK == DispOK(Idle)
<1>1. 0 \in Hours
  BY SizesAssumption DEF Hours, Uncounted
<1>2. QED
  BY <1>1 DEF DispOK, DispStates, Idle, Pcs, Uncounted

\* So is the one that begins a batch.
LEMMA BatchOK ==
  ASSUME NEW b \in Seq(Events), b # <<>>
  PROVE  DispOK([Idle EXCEPT !.pc = "evaluate", !.batch = b])
<1>1. Idle \in DispStates /\ Idle.hour = Uncounted
  BY IdleOK DEF DispOK, Idle
<1>2. QED
  BY <1>1 DEF DispOK, DispStates, Pcs

\* The routes of a message lead to registered channels or to its XACK.
LEMMA RouteToOK ==
  ASSUME Typed, NEW s \in Servers, disp[s].pc = "route",
         NEW q, ChannelList(q), RouteTo(s, q), UNCHANGED <<stream, delivered, calls>>
  PROVE  \E d : StepOf(s, d)
<1> DEFINE d == [disp[s] EXCEPT !.todo = q, !.prio = 0,
                                !.pc = IF q = <<>> THEN "ack" ELSE "allow"]
<1>1. disp[s] \in DispStates /\ DispOK(disp[s])
  BY AtWork
<1>2. DispOK(d)
  BY <1>1 DEF DispOK, DispStates, Pcs, ChannelList
<1>3. disp' = [disp EXCEPT ![s] = d]
  BY <1>1 DEF RouteTo, Typed
<1>4. Routes(s, d)
  BY <1>1 DEF Routes, DispStates
<1>5. QED
  BY <1>2, <1>3, <1>4 DEF StepOf, Moves

\* XREADGROUP gives the entries after the last one it gave that are left.
LEMMA ReadShape ==
  ASSUME Typed, NEW s \in Servers, Read(s)
  PROVE  \E d : StepOf(s, d)
<1> DEFINE from == MaxOf(trimmed, delivered)
           to == MinOf(from + BatchSize, Len(stream))
           b == SubSeq(stream, from + 1, to)
           d == [Idle EXCEPT !.pc = "evaluate", !.batch = b]
<1>1. /\ stream \in Seq(Events) /\ Len(stream) \in Nat
      /\ trimmed \in Nat /\ delivered \in Nat /\ BatchSize \in Nat \ {0}
  BY SizesAssumption DEF Typed
<1>2. from \in Nat /\ delivered <= from /\ from < Len(stream)
  BY <1>1 DEF Read, MaxOf
<1>3. to \in Nat /\ from < to /\ to <= Len(stream)
  BY <1>1, <1>2 DEF MinOf
<1> HIDE DEF from, to
<1>4. \A i \in from + 1 .. to : stream[i] \in Events
  BY <1>1, <1>2, <1>3
<1>5. /\ b \in Seq(Events) /\ Len(b) = to - from
      /\ \A i \in 1 .. to - from : b[i] = stream[from + i]
  <2>1. from + 1 \in Int /\ to \in Int /\ to - (from + 1) + 1 = to - from
    BY <1>2, <1>3
  <2>2. \A i \in 1 .. to - from : from + 1 + i - 1 = from + i
    BY <1>2, <1>3
  <2>3. /\ b \in Seq(Events)
        /\ Len(b) = IF from + 1 <= to THEN to - (from + 1) + 1 ELSE 0
        /\ \A i \in 1 .. to - (from + 1) + 1 : b[i] = stream[from + 1 + i - 1]
    BY <2>1, <1>4, SubSeqProperties
  <2>4. QED
    BY <2>1, <2>2, <2>3, <1>2, <1>3
<1>6. b # <<>>
  BY <1>5, <1>2, <1>3
<1>7. disp' = [disp EXCEPT ![s] = d] /\ delivered' = to /\ UNCHANGED <<stream, calls>>
  BY DEF Read, from, to, sendVars
<1> HIDE DEF b
<1>8. DispOK(d)
  BY <1>5, <1>6, BatchOK
<1>9. d.pc = "evaluate" /\ d.todo = <<>> /\ d.batch = b
  BY DEF Idle
<1>10. Reads(s, d)
  <2>1. disp[s].pc = "idle"
    BY DEF Read
  <2>2. /\ delivered <= from /\ from < delivered' /\ Len(d.batch) = delivered' - from
        /\ \A i \in 1 .. Len(d.batch) : d.batch[i] = stream[from + i]
    BY <1>2, <1>3, <1>5, <1>7, <1>9
  <2>3. QED
    BY <2>1, <2>2, <1>2, <1>3, <1>7, <1>9 DEF Reads
<1>11. QED
  BY <1>7, <1>8, <1>10 DEF StepOf, Moves

\* Allow lets the message pass or skips the channel.
LEMMA AllowShape ==
  ASSUME Typed, NEW s \in Servers, Allow(s) \/ AllowFailsOpen(s)
  PROVE  \E d : StepOf(s, d)
<1>1. disp[s].pc = "allow" /\ UNCHANGED <<stream, delivered, calls>>
  BY DEF Allow, AllowUpTo, AllowFailsOpen, streamVars
<1>2. /\ DispOK(disp[s]) /\ disp[s] \in DispStates /\ disp[s].todo # <<>>
      /\ disp[s].batch # <<>> /\ hour \in Hours
  <2>1. hour \in Hours
    BY SizesAssumption DEF Typed, Hours, Uncounted
  <2>2. QED
    BY <1>1, <2>1, AtWork, AtChannel DEF DispOK
<1>3. CASE disp' = [disp EXCEPT ![s].pc = "send"]
  <2> DEFINE d == [disp[s] EXCEPT !.pc = "send"]
  <2>1. DispOK(d) /\ disp' = [disp EXCEPT ![s] = d]
    BY <1>1, <1>2, <1>3 DEF DispOK, DispStates, Pcs, Typed
  <2>2. Walks(s, d)
    BY <1>1, <1>2 DEF Walks, DispStates, DispOK
  <2>3. QED
    BY <2>1, <2>2 DEF StepOf, Moves
<1>4. CASE disp' = [disp EXCEPT ![s] = [@ EXCEPT !.pc = "send", !.hour = hour]]
  <2> DEFINE d == [disp[s] EXCEPT !.pc = "send", !.hour = hour]
  <2>1. DispOK(d) /\ disp' = [disp EXCEPT ![s] = d]
    BY <1>1, <1>2, <1>4 DEF DispOK, DispStates, Pcs, Typed
  <2>2. Walks(s, d)
    BY <1>1, <1>2 DEF Walks, DispStates, DispOK
  <2>3. QED
    BY <2>1, <2>2 DEF StepOf, Moves
<1>5. CASE disp' = [disp EXCEPT ![s] = NextChannel(@)]
  <2>1. DispOK(NextChannel(disp[s])) /\ disp' = [disp EXCEPT ![s] = NextChannel(disp[s])]
    BY <1>1, <1>2, <1>5, NextChannelOK DEF Typed
  <2>2. SkipsChannel(s, NextChannel(disp[s]))
    BY <1>1 DEF SkipsChannel
  <2>3. QED
    BY <2>1, <2>2 DEF StepOf, Moves
<1>6. QED
  BY <1>3, <1>4, <1>5 DEF Allow, AllowUpTo, AllowFailsOpen

\* The provider's answer is noted, and its row comes next.
LEMMA SendShape ==
  ASSUME Typed, NEW s \in Servers, Send(s)
  PROVE  \E d : StepOf(s, d)
<1>1. disp[s].pc = "send" /\ UNCHANGED <<stream, delivered>>
  BY DEF Send, streamVars
<1>2. /\ DispOK(disp[s]) /\ disp[s] \in DispStates /\ disp[s].todo # <<>>
      /\ disp[s].batch # <<>>
  BY <1>1, AtWork, AtChannel DEF DispOK
<1>3. PICK ok \in BOOLEAN, pc \in {"track", "log"} :
        /\ disp' = [disp EXCEPT ![s].ok = ok, ![s].pc = pc]
        /\ calls' = [calls EXCEPT ![Msg(s)][Chan(s)] =
                       Append(@, [hour |-> disp[s].hour, at |-> hour, by |-> s, ok |-> ok])]
  BY DEF Send
<1> DEFINE d == [disp[s] EXCEPT !.ok = ok, !.pc = pc]
<1>4. DispOK(d) /\ disp' = [disp EXCEPT ![s] = d]
  BY <1>2, <1>3 DEF DispOK, DispStates, Pcs, Typed
<1>5. Sends(s, d)
  <2>1. /\ d.pc \in {"track", "log"} /\ d.batch = disp[s].batch
        /\ d.todo = disp[s].todo /\ d.ok = ok
    BY <1>2 DEF DispStates
  <2>2. QED
    BY <1>1, <1>3, <2>1 DEF Sends
<1>6. QED
  BY <1>4, <1>5 DEF StepOf, Moves

\* Evaluate routes the message or has it acknowledged.
LEMMA EvaluateShape ==
  ASSUME Typed, NEW s \in Servers, Evaluate(s)
  PROVE  \E d : StepOf(s, d)
<1>1. disp[s].pc = "evaluate" /\ UNCHANGED <<stream, delivered, calls>>
  BY DEF Evaluate, streamVars, sendVars
<1>2. DispOK(disp[s]) /\ disp[s] \in DispStates /\ disp[s].batch # <<>> /\ Msg(s) \in Events
  BY <1>1, AtWork DEF DispOK
<1>3. PICK p \in {PriorityOf[Msg(s)]} \union RulePriorities :
        disp' = [disp EXCEPT ![s] = IF Msg(s) \in Unreadable \/ p = 0
                                      THEN [@ EXCEPT !.pc = "ack"]
                                      ELSE [@ EXCEPT !.pc = "route", !.prio = p]]
  BY DEF Evaluate
<1>4. p \in Nat
  <2>1. PriorityOf[Msg(s)] \in 0 .. 100
    BY <1>2, EventsAssumption
  <2>2. QED
    BY <2>1, <1>3 DEF RulePriorities
<1> DEFINE d == IF Msg(s) \in Unreadable \/ p = 0
                  THEN [disp[s] EXCEPT !.pc = "ack"]
                  ELSE [disp[s] EXCEPT !.pc = "route", !.prio = p]
<1>5. DispOK(d) /\ disp' = [disp EXCEPT ![s] = d]
  BY <1>1, <1>2, <1>3, <1>4 DEF DispOK, DispStates, Pcs, Typed
<1>6. Walks(s, d)
  BY <1>1, <1>2 DEF Walks, DispStates
<1>7. QED
  BY <1>5, <1>6 DEF StepOf, Moves

\* Route and the route without preferences.
LEMMA RouteShape ==
  ASSUME Typed, NEW s \in Servers, Route(s) \/ RouteWithoutPrefs(s)
  PROVE  \E d : StepOf(s, d)
<1>1. disp[s].pc = "route" /\ UNCHANGED <<stream, delivered, calls>>
  BY DEF Route, RouteWithoutPrefs, streamVars, sendVars
<1>2. CASE Route(s)
  <2>1. \/ \E enabled \in SUBSET Channels : RouteTo(s, AllActive(enabled))
        \/ \E primary \in KnownChannels : RouteTo(s, Registered(primary))
        \/ RouteTo(s, Registered("email_digest"))
    BY <1>2 DEF Route
  <2>2. QED
    BY <1>1, <2>1, RouteToOK, RegisteredOK, AllActiveOK
<1>3. CASE RouteWithoutPrefs(s)
  <2>1. RouteTo(s, Registered("push"))
    BY <1>3 DEF RouteWithoutPrefs
  <2>2. QED
    BY <1>1, <2>1, RouteToOK, RegisteredOK
<1>4. QED
  BY <1>2, <1>3

\* The rows of the log: the channel's first, then the dispatcher's.
LEMMA LogShape ==
  ASSUME Typed, NEW s \in Servers, Track(s) \/ LogSend(s) \/ LogFails(s)
  PROVE  \E d : StepOf(s, d)
<1>1. disp[s].pc \in {"track", "log"} /\ UNCHANGED <<stream, delivered, calls>>
  BY DEF Track, LogSend, LogFails, streamVars, sendVars
<1>2. /\ DispOK(disp[s]) /\ disp[s] \in DispStates /\ disp[s].todo # <<>>
      /\ disp[s].batch # <<>>
  BY <1>1, AtWork, AtChannel DEF DispOK
<1>3. CASE disp[s].pc = "track"
  <2> DEFINE d == [disp[s] EXCEPT !.pc = "log"]
  <2>1. disp' = [disp EXCEPT ![s] = d]
    BY <1>3, <1>2 DEF Track, LogSend, LogFails, Typed
  <2>2. DispOK(d)
    BY <1>2 DEF DispOK, DispStates, Pcs
  <2>3. Walks(s, d)
    BY <1>1, <1>2, <1>3 DEF Walks, DispStates
  <2>4. QED
    BY <2>1, <2>2, <2>3 DEF StepOf, Moves
<1>4. CASE disp[s].pc = "log"
  <2>1. disp' = [disp EXCEPT ![s] = NextChannel(disp[s])]
    BY <1>4, <1>2 DEF Track, LogSend, LogFails, Typed
  <2>2. DispOK(NextChannel(disp[s])) /\ SkipsChannel(s, NextChannel(disp[s]))
    BY <1>1, <1>2, <1>4, NextChannelOK DEF SkipsChannel
  <2>3. QED
    BY <2>1, <2>2 DEF StepOf, Moves
<1>5. QED
  BY <1>1, <1>3, <1>4

\* The steps that are done with the message.
LEMMA LeaveShape ==
  ASSUME Typed, NEW s \in Servers, LoadRecipientFails(s) \/ Ack(s) \/ AckFails(s)
  PROVE  \E d : StepOf(s, d)
<1>1. disp[s].pc \in {"route", "ack"} /\ UNCHANGED <<stream, delivered, calls>>
  BY DEF LoadRecipientFails, Ack, AckFails, streamVars, sendVars
<1>2. DispOK(disp[s]) /\ disp' = [disp EXCEPT ![s] = NextMessage(disp[s])]
  BY <1>1, AtWork DEF LoadRecipientFails, Ack, AckFails, Typed
<1>3. DispOK(NextMessage(disp[s])) /\ LeavesMessage(s, NextMessage(disp[s]))
  BY <1>1, <1>2, NextMessageOK DEF LeavesMessage
<1>4. QED
  BY <1>2, <1>3 DEF StepOf, Moves

\* Every step of a dispatcher is one of the seven kinds.
LEMMA Shapes ==
  ASSUME Typed, NEW s \in Servers, Work(s) \/ Failure(s)
  PROVE  \E d : StepOf(s, d)
<1>1. CASE Crash(s)
  BY <1>1, IdleOK DEF Crash, StepOf, Moves, Restarts, streamVars, sendVars
<1>2. CASE ~Crash(s)
  BY <1>2, ReadShape, AllowShape, SendShape, EvaluateShape, RouteShape, LogShape,
     LeaveShape DEF Work, Failure
<1>3. QED
  BY <1>1, <1>2

\* A step of s leaves the other dispatchers alone.
LEMMA MovesTyped ==
  ASSUME Typed, NEW s \in Servers, NEW d, Moves(s, d)
  PROVE  /\ disp' \in [Servers -> DispStates] /\ \A t \in Servers : DispOK(disp[t])'
         /\ disp'[s] = d /\ \A t \in Servers : t # s => disp'[t] = disp[t]
<1>1. d \in DispStates
  BY DEF Moves, DispOK
<1>2. /\ disp' \in [Servers -> DispStates]
      /\ disp'[s] = d /\ \A t \in Servers : t # s => disp'[t] = disp[t]
  BY <1>1 DEF Moves, Typed
<1>3. \A t \in Servers : DispOK(disp'[t])
  BY <1>2 DEF Moves, Typed
<1>4. QED
  BY <1>2, <1>3 DEF DispOK

\* The calls of Send are appended with the hour of their permission.
LEMMA CallsTyped ==
  ASSUME Typed, NEW s \in Servers, NEW d, StepOf(s, d)
  PROVE  calls' \in [Events -> [Channels -> Seq(Calls)]]
<1>1. CASE Sends(s, d)
  <2>1. disp[s].pc = "send"
    BY <1>1 DEF Sends
  <2>2. /\ disp[s] \in DispStates /\ d \in DispStates
        /\ Msg(s) \in Events /\ Chan(s) \in Channels
    BY <2>1, AtWork, AtChannel DEF StepOf, Moves, DispOK
  <2>3. [hour |-> disp[s].hour, at |-> hour, by |-> s, ok |-> d.ok] \in Calls
    BY <2>2 DEF DispStates, Calls, Typed
  <2>4. calls[Msg(s)] \in [Channels -> Seq(Calls)] /\ calls[Msg(s)][Chan(s)] \in Seq(Calls)
    BY <2>2 DEF Typed
  <2>5. Append(calls[Msg(s)][Chan(s)], [hour |-> disp[s].hour, at |-> hour, by |-> s, ok |-> d.ok]) \in Seq(Calls)
    BY <2>3, <2>4, AppendProperties
  <2>6. QED
    BY <1>1, <2>2, <2>4, <2>5 DEF Sends, Typed
<1>2. CASE UNCHANGED calls
  BY <1>2 DEF Typed
<1>3. QED
  BY <1>1, <1>2 DEF StepOf, Reads, Walks, Routes, SkipsChannel, LeavesMessage, Restarts

\* The counter counts up, for one user and channel at a time.
LEMMA CountSteps ==
  ASSUME Typed, NEW s \in Servers, Work(s) \/ Failure(s)
  PROVE  UNCHANGED count
         \/ \E u \in Users, c \in Limited : count' = [count EXCEPT ![u][c] = @ + 1]
<1>1. CASE Allow(s) \/ AllowFailsOpen(s)
  <2>1. disp[s].pc = "allow"
    BY <1>1 DEF Allow, AllowUpTo, AllowFailsOpen
  <2>2. UserOf[Msg(s)] \in Users
    BY <2>1, AtWork, Zenon
  <2>3. QED
    BY <1>1, <2>2 DEF Allow, AllowUpTo, AllowFailsOpen
<1>2. CASE ~(Allow(s) \/ AllowFailsOpen(s))
  BY <1>2 DEF Work, Failure, Read, Evaluate, Route, Send, Track, LogSend, Ack,
    LoadRecipientFails, RouteWithoutPrefs, LogFails, AckFails, Crash, sendVars
<1>3. QED
  BY <1>1, <1>2

\* So it stays a counter.
LEMMA CountTyped ==
  ASSUME Typed, NEW s \in Servers, Work(s) \/ Failure(s)
  PROVE  count' \in [Users -> [Limited -> Nat]]
<1>1. CASE UNCHANGED count
  BY <1>1 DEF Typed
<1>2. CASE \E u \in Users, c \in Limited : count' = [count EXCEPT ![u][c] = @ + 1]
  <2>1. PICK u \in Users, c \in Limited : count' = [count EXCEPT ![u][c] = @ + 1]
    BY <1>2
  <2>2. count[u] \in [Limited -> Nat] /\ count[u][c] + 1 \in Nat
    BY DEF Typed
  <2>3. QED
    BY <2>1, <2>2 DEF Typed
<1>3. QED
  BY <1>1, <1>2, CountSteps

\* The pending list has events.
LEMMA PendingTyped ==
  ASSUME Typed, NEW s \in Servers, Work(s) \/ Failure(s) \/ AutoClaim(s)
  PROVE  pending' \subseteq Events
<1>1. CASE Read(s)
  <2> DEFINE from == MaxOf(trimmed, delivered)
             to == MinOf(from + BatchSize, Len(stream))
  <2>1. /\ stream \in Seq(Events) /\ Len(stream) \in Nat
        /\ trimmed \in Nat /\ delivered \in Nat /\ BatchSize \in Nat \ {0}
    BY SizesAssumption DEF Typed
  <2>2. from \in Nat /\ to \in Nat /\ to <= Len(stream)
    BY <2>1 DEF MaxOf, MinOf
  <2>3. pending' = pending \union {stream[i] : i \in from + 1 .. to}
    BY <1>1 DEF Read
  <2> HIDE DEF from, to
  <2>4. \A i \in from + 1 .. to : stream[i] \in Events
    BY <2>1, <2>2
  <2>5. QED
    BY <2>3, <2>4 DEF Typed
<1>2. CASE ~Read(s)
  BY <1>2 DEF Work, Failure, AutoClaim, Evaluate, Route, Allow, AllowUpTo, Send, Track,
    LogSend, Ack, LoadRecipientFails, RouteWithoutPrefs, AllowFailsOpen, LogFails,
    AckFails, Crash, Typed
<1>3. QED
  BY <1>1, <1>2

\* Every step keeps the shape of the state.
LEMMA TypedStep == Typed /\ [Next]_vars => Typed'
<1> SUFFICES ASSUME Typed, [Next]_vars PROVE Typed'
  OBVIOUS
<1>1. ASSUME NEW e \in Events, Publish(e) PROVE Typed'
  <2>1. /\ stream' \in Seq(Events) /\ Len(stream') = Len(stream) + 1 /\ Len(stream) \in Nat
    BY <1>1, AppendProperties, EmptySeq DEF Publish, Typed
  <2>2. trimmed' \in 0 .. Len(stream')
    BY <1>1, <2>1, SizesAssumption DEF Publish, Typed, MaxOf
  <2>3. delivered' \in 0 .. Len(stream')
    BY <1>1, <2>1 DEF Publish, Typed
  <2>4. UNCHANGED <<pending, disp, hour, count, calls, callbacks, faults>>
    BY <1>1 DEF Publish, sendVars
  <2>5. QED
    BY <2>1, <2>2, <2>3, <2>4 DEF Typed, DispOK
<1>2. ASSUME NEW e \in Events, NEW c \in Channels, Callback(e, c) PROVE Typed'
  <2>1. callbacks' \in 0 .. MaxCallbacks
    BY <1>2, SizesAssumption DEF Callback, Typed
  <2>2. QED
    BY <1>2, <2>1 DEF Callback, Typed, DispOK, streamVars
<1>9. CASE CallbackWithoutId
  <2>1. faults' \in 0 .. MaxFaults
    BY <1>9, SizesAssumption DEF CallbackWithoutId, Fault, Typed
  <2>2. QED
    BY <1>9, <2>1 DEF CallbackWithoutId, Typed, DispOK, streamVars
<1>3. CASE Trim
  <2>1. Len(stream) \in Nat
    BY EmptySeq DEF Typed
  <2>2. trimmed' \in 0 .. Len(stream)
    BY <1>3, <2>1, SizesAssumption DEF Trim, Typed
  <2>3. QED
    BY <1>3, <2>2 DEF Trim, Typed, DispOK, sendVars
<1>4. CASE Tick
  <2>1. hour' \in 1 .. MaxHours
    BY <1>4, SizesAssumption DEF Tick, Typed
  <2>2. count' \in [Users -> [Limited -> Nat]]
    BY <1>4 DEF Tick
  <2>3. QED
    BY <1>4, <2>1, <2>2 DEF Tick, Typed, DispOK, streamVars
<1>5. ASSUME NEW s \in Servers, Work(s) \/ Failure(s) PROVE Typed'
  <2>1. PICK d : StepOf(s, d)
    BY <1>5, Shapes
  <2>2. disp' \in [Servers -> DispStates] /\ \A t \in Servers : DispOK(disp[t])'
    BY <2>1, MovesTyped DEF StepOf
  <2>3. stream' = stream /\ delivered' \in 0 .. Len(stream)
    BY <2>1, SMTT(20) DEF StepOf, Reads, Walks, Routes, SkipsChannel, Sends, LeavesMessage,
      Restarts, Typed
  <2>4. trimmed' = trimmed /\ hour' = hour /\ callbacks' = callbacks
    BY <1>5 DEF Work, Failure, Read, Evaluate, Route, Allow, AllowUpTo, Send, Track,
      LogSend, Ack, LoadRecipientFails, RouteWithoutPrefs, AllowFailsOpen, LogFails,
      AckFails, Crash, streamVars
  <2>5. faults' \in 0 .. MaxFaults
    <3>1. faults' = faults \/ (faults < MaxFaults /\ faults' = faults + 1)
      BY <1>5 DEF Work, Failure, Read, Evaluate, Route, Allow, AllowUpTo, Send, Track,
        LogSend, Ack, LoadRecipientFails, RouteWithoutPrefs, AllowFailsOpen, LogFails,
        AckFails, Crash, Fault
    <3>2. QED
      BY <3>1, SizesAssumption, SMTT(20) DEF Typed
  <2>6. QED
    BY <1>5, <2>1, <2>2, <2>3, <2>4, <2>5, CallsTyped, CountTyped, PendingTyped DEF Typed
<1>6. ASSUME NEW s \in Servers, AutoClaim(s) PROVE Typed'
  BY <1>6, PendingTyped DEF AutoClaim, Typed, DispOK, streamVars, sendVars
<1>7. CASE UNCHANGED vars
  BY <1>7 DEF vars, Typed, DispOK
<1>8. QED
  BY <1>1, <1>2, <1>3, <1>4, <1>5, <1>6, <1>7, <1>9 DEF Next

-------------------------------------------------------------------------------
(* An event in one hand, and a channel asked once.                         *)

Hands == StreamOnce /\ BatchesGiven /\ OneHand

\* What a dispatcher holds after a step it held before, or has just been given.
LEMMA BatchShape ==
  ASSUME Typed, NEW s \in Servers, NEW d, StepOf(s, d), ~Reads(s, d)
  PROVE  /\ stream' = stream /\ delivered' = delivered
         /\ \E k \in {0, 1} : \A i \in 1 .. Len(d.batch) :
              i + k \in 1 .. Len(disp[s].batch) /\ d.batch[i] = disp[s].batch[i + k]
<1>1. stream' = stream /\ delivered' = delivered
  BY DEF StepOf, Walks, Routes, SkipsChannel, Sends, LeavesMessage, Restarts
<1>2. CASE Restarts(s, d)
  BY <1>1, <1>2 DEF Restarts, Idle
<1>3. CASE LeavesMessage(s, d)
  <2>1. disp[s].pc # "idle"
    BY <1>3 DEF LeavesMessage
  <2>2. disp[s].batch \in Seq(Events) /\ disp[s].batch # <<>> /\ DispOK(disp[s])
    BY <2>1, AtWork DEF DispOK
  <2>3. d.batch = Tail(disp[s].batch)
    BY <1>3, <2>1, <2>2, NextMessageOK DEF LeavesMessage
  <2>4. \A i \in 1 .. Len(d.batch) :
          i + 1 \in 1 .. Len(disp[s].batch) /\ d.batch[i] = disp[s].batch[i + 1]
    BY <2>2, <2>3, TailOK
  <2>5. QED
    BY <1>1, <2>4
<1>4. CASE ~Restarts(s, d) /\ ~LeavesMessage(s, d)
  <2>1. disp[s].pc # "idle" /\ d.batch = disp[s].batch
    BY <1>4, AtWork, AtChannel, NextChannelOK
    DEF StepOf, Walks, Routes, SkipsChannel, Sends
  <2>2. \A i \in 1 .. Len(d.batch) :
          i + 0 \in 1 .. Len(disp[s].batch) /\ d.batch[i] = disp[s].batch[i + 0]
    BY <2>1, AtWork
  <2>3. QED
    BY <1>1, <2>2
<1>5. QED
  BY <1>2, <1>3, <1>4

\* The positions after the first f of g are positions.
LEMMA Shift ==
  ASSUME NEW f \in Nat, NEW g \in Nat, NEW n \in Nat, f < g, g <= n
  PROVE  \A m \in 1 .. g - f : f + m \in 1 .. n
  OBVIOUS

\* The steps of a dispatcher.
LEMMA HandsStep ==
  ASSUME Typed, Hands, NEW s \in Servers, NEW d, StepOf(s, d)
  PROVE  Hands'
<1> USE DEF Hands
<1>1. disp'[s] = d /\ \A t \in Servers : t # s => disp'[t] = disp[t]
  BY MovesTyped DEF StepOf
<1>2. \A t \in Servers : Len(disp[t].batch) \in Nat
  BY EmptySeq DEF Typed, DispStates
<1>3. Len(d.batch) \in Nat
  BY EmptySeq DEF StepOf, Moves, DispOK, DispStates
<1>4. Len(stream) \in Nat /\ delivered \in 0 .. Len(stream)
  BY EmptySeq DEF Typed
<1>5. CASE Reads(s, d)
  <2>1. PICK from \in Nat :
          /\ delivered <= from /\ from < delivered'
          /\ Len(d.batch) = delivered' - from
          /\ \A i \in 1 .. Len(d.batch) : d.batch[i] = stream[from + i]
    BY <1>5 DEF Reads
  <2>2. stream' = stream /\ delivered' \in Nat /\ delivered' <= Len(stream)
    BY <1>5 DEF Reads
  <2>3. StreamOnce'
    BY <2>2 DEF StreamOnce
  <2>4. BatchesGiven'
    <3> SUFFICES ASSUME NEW t \in Servers, NEW i \in 1 .. Len(disp'[t].batch)
                 PROVE  \E k \in 1 .. delivered' : stream'[k] = disp'[t].batch[i]
      BY DEF BatchesGiven, Given
    <3>1. CASE t = s
      <4>1. from + i \in 1 .. delivered' /\ stream'[from + i] = disp'[t].batch[i]
        BY <1>1, <1>3, <2>1, <2>2, <3>1
      <4>2. QED
        BY <4>1
    <3>2. CASE t # s
      <4>1. PICK k \in 1 .. delivered : stream[k] = disp[t].batch[i]
        BY <1>1, <3>2 DEF BatchesGiven, Given
      <4>2. k \in 1 .. delivered' /\ stream'[k] = disp'[t].batch[i]
        BY <1>1, <1>4, <2>1, <2>2, <3>2, <4>1
      <4>3. QED
        BY <4>2
    <3>3. QED
      BY <3>1, <3>2
  <2>5. \A t \in Servers : t # s =>
          \A i \in 1 .. Len(disp[t].batch), j \in 1 .. Len(d.batch) :
            disp[t].batch[i] # d.batch[j]
    <3> SUFFICES ASSUME NEW t \in Servers, NEW i \in 1 .. Len(disp[t].batch),
                        NEW j \in 1 .. Len(d.batch), disp[t].batch[i] = d.batch[j]
                 PROVE  FALSE
      OBVIOUS
    <3>1. PICK k \in 1 .. delivered : stream[k] = disp[t].batch[i]
      BY DEF BatchesGiven, Given
    <3>2. /\ k \in 1 .. Len(stream) /\ from + j \in 1 .. Len(stream) /\ k # from + j
          /\ stream[k] = stream[from + j]
      <4>1. from < delivered' /\ Len(d.batch) = delivered' - from /\ delivered <= from
        BY <2>1
      <4>2. \A m \in 1 .. delivered' - from : from + m \in 1 .. Len(stream)
        BY <1>4, <2>2, <4>1, Shift
      <4>3. from + j \in 1 .. Len(stream)
        BY <4>1, <4>2
      <4>4. k <= delivered /\ j >= 1 /\ k \in Nat /\ j \in Nat
        BY <1>4
      <4>5. k # from + j
        BY <1>4, <4>1, <4>4
      <4>6. stream[k] = stream[from + j]
        BY <2>1, <3>1
      <4>7. k \in 1 .. Len(stream)
        BY <1>4
      <4>8. QED
        BY <4>3, <4>5, <4>6, <4>7
    <3>3. QED
      BY <3>2 DEF StreamOnce
  <2>6. \A i, j \in 1 .. Len(d.batch) : d.batch[i] = d.batch[j] => i = j
    <3>1. \A m \in 1 .. Len(d.batch) : from + m \in 1 .. Len(stream)
      <4>1. from < delivered' /\ Len(d.batch) = delivered' - from
        BY <2>1
      <4>2. \A m \in 1 .. delivered' - from : from + m \in 1 .. Len(stream)
        BY <1>4, <2>2, <4>1, Shift
      <4>3. QED
        BY <4>1, <4>2
    <3> SUFFICES ASSUME NEW i \in 1 .. Len(d.batch), NEW j \in 1 .. Len(d.batch),
                        d.batch[i] = d.batch[j]
                 PROVE  i = j
      OBVIOUS
    <3>2. stream[from + i] = stream[from + j]
      BY <2>1
    <3>3. from + i = from + j
      BY <3>1, <3>2 DEF StreamOnce
    <3>4. QED
      BY <3>3, <1>3, <2>1
  <2>7. OneHand'
    <3> SUFFICES ASSUME NEW t \in Servers, NEW r \in Servers,
                        NEW i \in 1 .. Len(disp'[t].batch),
                        NEW j \in 1 .. Len(disp'[r].batch),
                        disp'[t].batch[i] = disp'[r].batch[j]
                 PROVE  t = r /\ i = j
      BY DEF OneHand
    <3>1. CASE t = s /\ r = s
      BY <1>1, <2>6, <3>1
    <3>2. CASE t = s /\ r # s
      BY <1>1, <2>5, <3>2
    <3>3. CASE t # s /\ r = s
      BY <1>1, <2>5, <3>3
    <3>4. CASE t # s /\ r # s
      BY <1>1, <3>4 DEF OneHand
    <3>5. QED
      BY <3>1, <3>2, <3>3, <3>4
  <2>8. QED
    BY <2>3, <2>4, <2>7
<1>6. CASE ~Reads(s, d)
  <2>1. PICK k \in {0, 1} : \A i \in 1 .. Len(d.batch) :
          i + k \in 1 .. Len(disp[s].batch) /\ d.batch[i] = disp[s].batch[i + k]
    BY <1>6, BatchShape
  <2>2. stream' = stream /\ delivered' = delivered
    BY <1>6, BatchShape
  <2>3. StreamOnce'
    BY <2>2 DEF StreamOnce
  <2>4. BatchesGiven'
    <3> SUFFICES ASSUME NEW t \in Servers, NEW i \in 1 .. Len(disp'[t].batch)
                 PROVE  \E m \in 1 .. delivered : stream[m] = disp'[t].batch[i]
      BY <2>2 DEF BatchesGiven, Given
    <3> DEFINE i0 == IF t = s THEN i + k ELSE i
    <3>1. i0 \in 1 .. Len(disp[t].batch) /\ disp[t].batch[i0] = disp'[t].batch[i]
      BY <1>1, <2>1
    <3>2. QED
      BY <3>1 DEF BatchesGiven, Given
  <2>5. OneHand'
    <3> SUFFICES ASSUME NEW t \in Servers, NEW r \in Servers,
                        NEW i \in 1 .. Len(disp'[t].batch),
                        NEW j \in 1 .. Len(disp'[r].batch),
                        disp'[t].batch[i] = disp'[r].batch[j]
                 PROVE  t = r /\ i = j
      BY DEF OneHand
    <3> DEFINE i0 == IF t = s THEN i + k ELSE i
               j0 == IF r = s THEN j + k ELSE j
    <3>1. i0 \in 1 .. Len(disp[t].batch) /\ disp[t].batch[i0] = disp'[t].batch[i]
      BY <1>1, <2>1
    <3>2. j0 \in 1 .. Len(disp[r].batch) /\ disp[r].batch[j0] = disp'[r].batch[j]
      BY <1>1, <2>1
    <3>3. t = r /\ i0 = j0
      BY <3>1, <3>2 DEF OneHand
    <3>4. i \in Nat /\ j \in Nat
      BY <1>1, <1>2, <1>3
    <3>5. QED
      BY <3>3, <3>4, <2>1
  <2>6. QED
    BY <2>3, <2>4, <2>5
<1>7. QED
  BY <1>5, <1>6

\* A dispatcher's list stays without repetition.
LEMMA ChannelsStep ==
  ASSUME Typed, ChannelsOnce, NEW s \in Servers, NEW d, StepOf(s, d)
  PROVE  ChannelsOnce'
<1>1. disp'[s] = d /\ \A t \in Servers : t # s => disp'[t] = disp[t]
  BY MovesTyped DEF StepOf
<1>2. \A i, j \in 1 .. Len(d.todo) : d.todo[i] = d.todo[j] => i = j
  <2>1. CASE SkipsChannel(s, d)
    <3>1. disp[s].todo \in Seq(Channels) /\ disp[s].todo # <<>> /\ DispOK(disp[s])
      BY <2>1, AtChannel, AtWork DEF SkipsChannel
    <3>2. d.todo = Tail(disp[s].todo)
      BY <2>1, <3>1, NextChannelOK DEF SkipsChannel
    <3> SUFFICES ASSUME NEW i \in 1 .. Len(d.todo), NEW j \in 1 .. Len(d.todo),
                        d.todo[i] = d.todo[j]
                 PROVE  i = j
      OBVIOUS
    <3>3. /\ i + 1 \in 1 .. Len(disp[s].todo) /\ j + 1 \in 1 .. Len(disp[s].todo)
          /\ disp[s].todo[i + 1] = disp[s].todo[j + 1] /\ i \in Nat /\ j \in Nat
      BY <3>1, <3>2, TailOK
    <3>4. i + 1 = j + 1
      BY <3>3 DEF ChannelsOnce
    <3>5. QED
      BY <3>3, <3>4
  <2>2. CASE Routes(s, d)
    BY <2>2 DEF Routes, ChannelList
  <2>3. CASE LeavesMessage(s, d)
    <3>1. d.todo = <<>>
      BY <2>3, AtWork, NextMessageOK DEF LeavesMessage
    <3>2. QED
      BY <3>1, EmptySeq
  <2>4. CASE Restarts(s, d) \/ Reads(s, d)
    BY <2>4, EmptySeq DEF Restarts, Reads, Idle
  <2>5. CASE Walks(s, d) \/ Sends(s, d)
    BY <2>5 DEF Walks, Sends, ChannelsOnce
  <2>6. QED
    BY <2>1, <2>2, <2>3, <2>4, <2>5 DEF StepOf
<1>3. QED
  BY <1>1, <1>2 DEF ChannelsOnce

\* The channel that is asked was not asked for this event, and only it is.
LEMMA SendAsks ==
  ASSUME Typed, Once, NEW s \in Servers, NEW d, Moves(s, d), Sends(s, d)
  PROVE  /\ Msg(s) \in Events /\ Chan(s) \in Channels
         /\ calls[Msg(s)][Chan(s)] = <<>>
         /\ calls'[Msg(s)][Chan(s)] = <<[hour |-> disp[s].hour, at |-> hour, by |-> s, ok |-> d.ok]>>
         /\ \A e \in Events, c \in Channels :
              e # Msg(s) \/ c # Chan(s) => calls'[e][c] = calls[e][c]
<1>1. disp[s].pc = "send"
  BY DEF Sends
<1>2. Msg(s) \in Events /\ Chan(s) \in Channels
  BY <1>1, AtWork, AtChannel
<1>3. calls[Msg(s)][Chan(s)] = <<>>
  <2>1. 1 \in 1 .. Len(disp[s].todo) /\ Chan(s) = disp[s].todo[1]
    BY <1>1, AtChannel
  <2>2. QED
    BY <1>1, <2>1 DEF Once, TodoUnasked
<1>4. calls[Msg(s)] \in [Channels -> Seq(Calls)]
  BY <1>2 DEF Typed
<1>5. calls' = [calls EXCEPT ![Msg(s)][Chan(s)] = <<[hour |-> disp[s].hour, at |-> hour, by |-> s, ok |-> d.ok]>>]
  BY <1>3 DEF Sends
<1>6. QED
  BY <1>2, <1>3, <1>4, <1>5 DEF Typed

\* No other dispatcher works on the event, and this one has it once.
LEMMA MessageAlone ==
  ASSUME Typed, Hands, NEW s \in Servers, disp[s].pc # "idle"
  PROVE  \A t \in Servers : \A i \in 1 .. Len(disp[t].batch) :
           disp[t].batch[i] = Msg(s) => t = s /\ i = 1
<1>1. 1 \in 1 .. Len(disp[s].batch) /\ Msg(s) = disp[s].batch[1]
  BY AtWork
<1>2. QED
  BY <1>1 DEF Hands, OneHand

\* A channel is asked once, and only for events that were given to somebody.
LEMMA AskedStep ==
  ASSUME Typed, Once, NEW s \in Servers, NEW d, StepOf(s, d)
  PROVE  AskedOnce' /\ AskedGiven'
<1>1. CASE Sends(s, d)
  <2>1. /\ Msg(s) \in Events /\ Chan(s) \in Channels
        /\ calls'[Msg(s)][Chan(s)] = <<[hour |-> disp[s].hour, at |-> hour, by |-> s, ok |-> d.ok]>>
        /\ \A e \in Events, c \in Channels :
             e # Msg(s) \/ c # Chan(s) => calls'[e][c] = calls[e][c]
    BY <1>1, SendAsks DEF StepOf
  <2>2. AskedOnce'
    <3> SUFFICES ASSUME NEW e \in Events, NEW c \in Channels PROVE Len(calls'[e][c]) <= 1
      BY DEF AskedOnce
    <3>1. CASE e = Msg(s) /\ c = Chan(s)
      <4>1. calls'[e][c] = <<[hour |-> disp[s].hour, at |-> hour, by |-> s, ok |-> d.ok]>>
        BY <2>1, <3>1
      <4>2. QED
        BY <4>1
    <3>2. CASE e # Msg(s) \/ c # Chan(s)
      BY <2>1, <3>2 DEF Once, AskedOnce
    <3>3. QED
      BY <3>1, <3>2
  <2>3. Given(Msg(s))
    <3>1. 1 \in 1 .. Len(disp[s].batch) /\ Msg(s) = disp[s].batch[1]
      BY <1>1, AtWork DEF Sends
    <3>2. QED
      BY <3>1 DEF Once, BatchesGiven
  <2>4. \A e \in Events : Given(e) => Given(e)'
    BY <1>1 DEF Sends, Given
  <2>5. \A e \in Events : e # Msg(s) /\ Unasked(e) => Unasked(e)'
    BY <2>1 DEF Unasked
  <2>6. AskedGiven'
    BY <2>3, <2>4, <2>5 DEF Once, AskedGiven
  <2>7. QED
    BY <2>2, <2>6
<1>2. CASE ~Sends(s, d)
  <2>1. calls' = calls /\ stream' = stream
    BY <1>2 DEF StepOf, Reads, Walks, Routes, SkipsChannel, LeavesMessage, Restarts
  <2>2. delivered' \in Nat /\ delivered \in Nat /\ delivered <= delivered'
    BY <1>2 DEF StepOf, Reads, Walks, Routes, SkipsChannel, LeavesMessage, Restarts, Typed
  <2>3. \A e \in Events : Given(e) => Given(e)'
    <3> SUFFICES ASSUME NEW e \in Events, NEW k \in 1 .. delivered, stream[k] = e
                 PROVE  \E m \in 1 .. delivered' : stream[m] = e
      BY <2>1 DEF Given
    <3>1. k \in 1 .. delivered'
      BY <2>2
    <3>2. QED
      BY <3>1
  <2>4. QED
    BY <2>1, <2>3 DEF Once, AskedOnce, AskedGiven, Unasked
<1>3. QED
  BY <1>1, <1>2

\* What waits in a batch has not been asked.
LEMMA WaitingStep ==
  ASSUME Typed, Once, NEW s \in Servers, NEW d, StepOf(s, d)
  PROVE  WaitingUnasked'
<1>1. disp'[s] = d /\ \A t \in Servers : t # s => disp'[t] = disp[t]
  BY MovesTyped DEF StepOf
<1>2. \A t \in Servers : disp[t].batch \in Seq(Events) /\ Len(disp[t].batch) \in Nat
  BY EmptySeq DEF Typed, DispStates
<1>3. d.batch \in Seq(Events) /\ Len(d.batch) \in Nat
  BY EmptySeq DEF StepOf, Moves, DispOK, DispStates
<1>4. CASE Sends(s, d)
  <2>1. \A e \in Events : e # Msg(s) /\ Unasked(e) =>
          \A c \in Channels : calls'[e][c] = <<>>
    BY <1>4, SendAsks DEF Unasked, StepOf
  <2>2. \A t \in Servers : \A i \in 1 .. Len(disp[t].batch) :
          disp[t].batch[i] = Msg(s) => t = s /\ i = 1
    BY <1>4, MessageAlone DEF Sends, Once, Hands
  <2>3. d.batch = disp[s].batch /\ d.pc \notin {"evaluate", "route"}
    BY <1>4 DEF Sends
  <2> SUFFICES ASSUME NEW t \in Servers, NEW i \in 1 .. Len(disp'[t].batch),
                      i > 1 \/ disp'[t].pc \in {"evaluate", "route"}
               PROVE  \A c \in Channels : calls'[disp'[t].batch[i]][c] = <<>>
    BY DEF WaitingUnasked, Unasked
  <2>4. /\ disp'[t].batch = disp[t].batch /\ disp[t].batch[i] \in Events
        /\ i \in 1 .. Len(disp[t].batch)
    BY <1>1, <1>2, <2>3, ElementOfSeq
  <2>5. disp[t].batch[i] # Msg(s) /\ Unasked(disp[t].batch[i])
    BY <1>1, <1>2, <2>2, <2>3, <2>4 DEF Once, WaitingUnasked
  <2>6. QED
    BY <2>1, <2>4, <2>5
<1>5. CASE Reads(s, d)
  <2>1. PICK from \in Nat :
          /\ delivered <= from /\ from < delivered'
          /\ Len(d.batch) = delivered' - from
          /\ \A i \in 1 .. Len(d.batch) : d.batch[i] = stream[from + i]
    BY <1>5 DEF Reads
  <2>2. calls' = calls /\ Len(stream) \in Nat /\ delivered \in 0 .. Len(stream)
        /\ delivered' \in Nat /\ delivered' <= Len(stream)
    BY <1>5, EmptySeq DEF Reads, Typed
  <2>3. \A i \in 1 .. Len(d.batch) : from + i \in 1 .. Len(stream)
    <3>1. from < delivered' /\ Len(d.batch) = delivered' - from
      BY <2>1
    <3>2. \A m \in 1 .. delivered' - from : from + m \in 1 .. Len(stream)
      BY <2>2, <3>1, Shift
    <3>3. QED
      BY <3>1, <3>2
  <2>4. \A i \in 1 .. Len(d.batch) : Unasked(d.batch[i])
    <3> SUFFICES ASSUME NEW i \in 1 .. Len(d.batch), ~Unasked(d.batch[i])
                 PROVE  FALSE
      OBVIOUS
    <3>1. d.batch[i] \in Events
      BY <1>3, ElementOfSeq
    <3>2. PICK k \in 1 .. delivered : stream[k] = d.batch[i]
      BY <3>1 DEF Once, AskedGiven, Given
    <3>3. /\ k \in 1 .. Len(stream) /\ from + i \in 1 .. Len(stream)
          /\ stream[k] = stream[from + i]
      BY <2>1, <2>2, <2>3, <3>2
    <3>4. k = from + i
      BY <3>3 DEF Once, StreamOnce
    <3>5. k <= delivered /\ i >= 1 /\ i \in Nat
      BY <1>3, <2>2
    <3>6. delivered <= from
      BY <2>1
    <3>7. QED
      BY <2>2, <3>4, <3>5, <3>6
  <2>5. QED
    BY <1>1, <2>2, <2>4 DEF Once, WaitingUnasked, Unasked
<1>6. CASE ~Sends(s, d) /\ ~Reads(s, d)
  <2>1. calls' = calls
    BY <1>6 DEF StepOf, Walks, Routes, SkipsChannel, LeavesMessage, Restarts
  <2>2. \A i \in 1 .. Len(d.batch) :
          i > 1 \/ d.pc \in {"evaluate", "route"} => Unasked(d.batch[i])
    <3>1. CASE LeavesMessage(s, d)
      <4>1. disp[s].pc # "idle" /\ DispOK(disp[s]) /\ disp[s].batch # <<>>
        BY <3>1, AtWork DEF LeavesMessage, DispOK
      <4>2. d.batch = Tail(disp[s].batch)
        BY <3>1, <4>1, NextMessageOK DEF LeavesMessage
      <4>3. \A i \in 1 .. Len(d.batch) :
              /\ i + 1 \in 1 .. Len(disp[s].batch) /\ i + 1 > 1
              /\ d.batch[i] = disp[s].batch[i + 1]
        BY <1>2, <4>1, <4>2, TailOK
      <4>4. QED
        BY <4>3 DEF Once, WaitingUnasked
    <3>2. CASE Restarts(s, d)
      BY <3>2, EmptySeq DEF Restarts, Idle
    <3>3. CASE ~LeavesMessage(s, d) /\ ~Restarts(s, d)
      <4>1. /\ d.batch = disp[s].batch
            /\ d.pc \in {"evaluate", "route"} => disp[s].pc \in {"evaluate", "route"}
        BY <1>6, <3>3, AtWork, AtChannel, NextChannelOK
        DEF StepOf, Walks, Routes, SkipsChannel
      <4>2. QED
        BY <4>1 DEF Once, WaitingUnasked
    <3>4. QED
      BY <3>1, <3>2, <3>3
  <2>3. QED
    BY <1>1, <2>1, <2>2 DEF Once, WaitingUnasked, Unasked
<1>7. QED
  BY <1>4, <1>5, <1>6

\* Nor have the channels a dispatcher has still to ask.
LEMMA TodoStep ==
  ASSUME Typed, Once, NEW s \in Servers, NEW d, StepOf(s, d)
  PROVE  TodoUnasked'
<1>1. /\ disp'[s] = d /\ \A t \in Servers : t # s => disp'[t] = disp[t]
      /\ DispOK(d)
  BY MovesTyped DEF StepOf, Moves
<1>2. \A t \in Servers : t # s /\ disp[t].pc \in {"allow", "send", "track", "log"} =>
        \A j \in 1 .. Len(disp[t].todo) :
          j > 1 \/ disp[t].pc \in {"allow", "send"} =>
            calls'[Msg(t)][disp[t].todo[j]] = <<>>
  <2> SUFFICES ASSUME NEW t \in Servers, t # s,
                      disp[t].pc \in {"allow", "send", "track", "log"},
                      NEW j \in 1 .. Len(disp[t].todo),
                      j > 1 \/ disp[t].pc \in {"allow", "send"}
               PROVE  calls'[Msg(t)][disp[t].todo[j]] = <<>>
    OBVIOUS
  <2>1. calls[Msg(t)][disp[t].todo[j]] = <<>>
    BY DEF Once, TodoUnasked
  <2>2. CASE Sends(s, d)
    <3>1. /\ Msg(t) \in Events /\ disp[t].todo[j] \in Channels
          /\ 1 \in 1 .. Len(disp[t].batch) /\ disp[t].batch[1] = Msg(t)
      BY AtWork, AtChannel, ElementOfSeq
    <3>2. Msg(t) # Msg(s)
      BY <2>2, <3>1, MessageAlone DEF Sends, Once, Hands
    <3>3. QED
      BY <2>1, <2>2, <3>1, <3>2, SendAsks DEF StepOf
  <2>3. CASE ~Sends(s, d)
    BY <2>1, <2>3 DEF StepOf, Reads, Walks, Routes, SkipsChannel, LeavesMessage, Restarts
  <2>4. QED
    BY <2>2, <2>3
<1>3. ASSUME d.pc \in {"allow", "send", "track", "log"}, NEW j \in 1 .. Len(d.todo),
             j > 1 \/ d.pc \in {"allow", "send"}
      PROVE  calls'[Head(d.batch)][d.todo[j]] = <<>>
  <2>1. ~Reads(s, d) /\ ~Restarts(s, d)
    BY <1>3 DEF Reads, Restarts, Idle
  <2>2. ~LeavesMessage(s, d)
    BY <1>3, AtWork, NextMessageOK DEF LeavesMessage
  <2>3. disp[s].pc # "idle" /\ d.batch = disp[s].batch
    BY <2>1, <2>2, AtWork, AtChannel, NextChannelOK
    DEF StepOf, Walks, Routes, SkipsChannel, Sends
  <2>4. Head(d.batch) = Msg(s) /\ Msg(s) \in Events
    BY <2>3, AtWork DEF Msg
  <2>5. CASE Routes(s, d)
    <3>1. Unasked(Msg(s))
      <4>1. 1 \in 1 .. Len(disp[s].batch) /\ Msg(s) = disp[s].batch[1]
        BY <2>3, AtWork
      <4>2. QED
        BY <2>5, <4>1 DEF Once, WaitingUnasked, Routes
    <3>2. d.todo[j] \in Channels
      BY <2>5, ElementOfSeq DEF Routes, ChannelList
    <3>3. QED
      BY <2>4, <2>5, <3>1, <3>2 DEF Unasked, Routes
  <2>6. CASE SkipsChannel(s, d)
    <3>1. /\ disp[s].pc \in {"allow", "log"} /\ disp[s].todo \in Seq(Channels)
          /\ disp[s].todo # <<>> /\ DispOK(disp[s])
      BY <2>6, AtChannel, AtWork DEF SkipsChannel
    <3>2. d.todo = Tail(disp[s].todo)
      BY <2>6, <3>1, NextChannelOK DEF SkipsChannel
    <3>3. /\ j + 1 \in 1 .. Len(disp[s].todo) /\ j + 1 > 1
          /\ d.todo[j] = disp[s].todo[j + 1]
      BY <3>1, <3>2, TailOK
    <3>4. QED
      BY <2>4, <2>6, <3>1, <3>3 DEF Once, TodoUnasked, SkipsChannel
  <2>7. CASE Sends(s, d)
    <3>1. disp[s].pc = "send" /\ d.pc \in {"track", "log"} /\ d.todo = disp[s].todo
      BY <2>7 DEF Sends
    <3>2. j > 1 /\ 1 \in 1 .. Len(d.todo) /\ disp[s].todo[j] \in Channels
          /\ Chan(s) = disp[s].todo[1]
      BY <1>3, <3>1, AtChannel, ElementOfSeq
    <3>3. d.todo[j] # Chan(s)
      BY <3>1, <3>2 DEF Once, ChannelsOnce
    <3>4. calls[Msg(s)][disp[s].todo[j]] = <<>>
      BY <3>1, <3>2 DEF Once, TodoUnasked
    <3>5. Moves(s, d)
      BY <2>1 DEF StepOf
    <3>6. calls'[Msg(s)][disp[s].todo[j]] = calls[Msg(s)][disp[s].todo[j]]
      BY <2>7, <3>1, <3>2, <3>3, <3>5, SendAsks
    <3>7. QED
      BY <2>4, <3>1, <3>4, <3>6
  <2>8. CASE Walks(s, d)
    <3>1. /\ disp[s].pc \in {"allow", "track"} /\ d.todo = disp[s].todo
          /\ j > 1 \/ disp[s].pc = "allow"
      BY <1>3, <2>8 DEF Walks
    <3>2. QED
      BY <2>4, <2>8, <3>1 DEF Once, TodoUnasked, Walks
  <2>9. QED
    BY <2>1, <2>2, <2>5, <2>6, <2>7, <2>8 DEF StepOf
<1>4. ASSUME NEW t \in Servers, disp'[t].pc \in {"allow", "send", "track", "log"},
             NEW j \in 1 .. Len(disp'[t].todo),
             j > 1 \/ disp'[t].pc \in {"allow", "send"}
      PROVE  calls'[Head(disp'[t].batch)][disp'[t].todo[j]] = <<>>
  <2>1. CASE t = s
    BY <1>1, <1>3, <1>4, <2>1
  <2>2. CASE t # s
    BY <1>1, <1>2, <1>4, <2>2 DEF Msg
  <2>3. QED
    BY <2>1, <2>2
<1>5. QED
  BY <1>4 DEF TodoUnasked, Msg

\* Every step of the system keeps the events in one hand and asked once.
LEMMA OnceStep == Typed /\ Once /\ [Next]_vars => Once'
<1> SUFFICES ASSUME Typed, Once, [Next]_vars PROVE Once'
  OBVIOUS
<1>1. ASSUME NEW e \in Events, Publish(e) PROVE Once'
  <2>1. /\ UNCHANGED <<delivered, disp, calls>>
        /\ Len(stream') = Len(stream) + 1 /\ Len(stream) \in Nat
        /\ stream'[Len(stream) + 1] = e
        /\ \A i \in 1 .. Len(stream) : stream'[i] = stream[i] /\ stream[i] # e
    BY <1>1, AppendProperties, EmptySeq DEF Publish, Typed, Published, sendVars
  <2>2. delivered \in Nat /\ delivered <= Len(stream)
    BY <2>1 DEF Typed
  <2>3. StreamOnce'
    BY <2>1 DEF Once, StreamOnce
  <2>4. \A i \in 1 .. delivered : stream'[i] = stream[i]
    BY <2>1, <2>2
  <2>5. UNCHANGED <<OneHand, ChannelsOnce, AskedOnce, WaitingUnasked, TodoUnasked>>
    BY <2>1 DEF OneHand, ChannelsOnce, AskedOnce, WaitingUnasked, TodoUnasked, Unasked, Msg
  <2>6. BatchesGiven' /\ AskedGiven'
    BY <2>1, <2>4 DEF Once, BatchesGiven, AskedGiven, Unasked, Given
  <2>7. QED
    BY <2>3, <2>5, <2>6 DEF Once
<1>2. ASSUME NEW s \in Servers, Work(s) \/ Failure(s) PROVE Once'
  <2>1. PICK d : StepOf(s, d)
    BY <1>2, Shapes
  <2>2. StreamOnce' /\ BatchesGiven' /\ OneHand'
    BY <2>1, HandsStep DEF Once, Hands
  <2>3. QED
    BY <2>1, <2>2, ChannelsStep, AskedStep, WaitingStep, TodoStep DEF Once
<1>3. CASE UNCHANGED <<stream, delivered, disp, calls>>
  BY <1>3 DEF Once, StreamOnce, BatchesGiven, OneHand, ChannelsOnce, AskedOnce, AskedGiven,
    WaitingUnasked, TodoUnasked, Unasked, Given, Msg
<1>4. QED
  <2>1. ASSUME NEW e \in Events, NEW c \in Channels, Callback(e, c) PROVE Once'
    BY <1>3, <2>1 DEF Callback, streamVars
  <2>2. ASSUME NEW s \in Servers, AutoClaim(s) PROVE Once'
    BY <1>3, <2>2 DEF AutoClaim, streamVars, sendVars
  <2>3. CASE Trim \/ Tick \/ CallbackWithoutId \/ UNCHANGED vars
    BY <1>3, <2>3 DEF Trim, Tick, CallbackWithoutId, vars, streamVars, sendVars
  <2>4. QED
    BY <1>1, <1>2, <2>1, <2>2, <2>3 DEF Next

-------------------------------------------------------------------------------
(* The rows of the log.                                                    *)

\* A dispatcher that is about to write a row stays so while others work.
LEMMA OutcomeStep == Typed /\ Once /\ Outcome /\ [Next]_vars => Outcome'
<1> SUFFICES ASSUME Typed, Once, Outcome, [Next]_vars PROVE Outcome'
  BY Zenon
<1>1. ASSUME NEW s \in Servers, Work(s) \/ Failure(s) PROVE Outcome'
  <2>1. PICK d : StepOf(s, d)
    BY <1>1, Shapes
  <2>2. disp'[s] = d /\ \A t \in Servers : t # s => disp'[t] = disp[t]
    BY <2>1, MovesTyped, Zenon DEF StepOf
  <2> SUFFICES ASSUME NEW t \in Servers, disp'[t].pc \in {"track", "log"}
               PROVE  LET e == Head(disp'[t].batch)
                          c == Head(disp'[t].todo)
                      IN  calls'[e][c] # <<>> /\ calls'[e][c][1].ok = disp'[t].ok
    BY DEF Outcome, Msg, Chan
  <2>3. CASE t # s
    <3>1. disp'[t] = disp[t] /\ disp[t].pc \in {"track", "log"}
      BY <2>2, <2>3
    <3>2. calls[Msg(t)][Chan(t)] # <<>> /\ calls[Msg(t)][Chan(t)][1].ok = disp[t].ok
      BY <3>1 DEF Outcome
    <3>3. calls'[Msg(t)][Chan(t)] = calls[Msg(t)][Chan(t)]
      <4>1. CASE Sends(s, d)
        <5>1. /\ Msg(t) \in Events /\ Chan(t) \in Channels
              /\ 1 \in 1 .. Len(disp[t].batch) /\ disp[t].batch[1] = Msg(t)
          BY <3>1, AtWork, AtChannel
        <5>2. Msg(t) # Msg(s)
          BY <2>3, <4>1, <5>1, MessageAlone DEF Sends, Once, Hands
        <5>3. QED
          BY <2>1, <4>1, <5>1, <5>2, SendAsks DEF StepOf
      <4>2. CASE ~Sends(s, d)
        BY <2>1, <4>2, SMTT(20) DEF StepOf, Reads, Walks, Routes, SkipsChannel, LeavesMessage, Restarts
      <4>3. QED
        BY <4>1, <4>2
    <3>4. QED
      BY <3>1, <3>2, <3>3 DEF Msg, Chan
  <2>4. CASE t = s
    <3>1. d.pc \in {"track", "log"}
      BY <2>2, <2>4
    <3>2. CASE Sends(s, d)
      <4>1. /\ d.batch = disp[s].batch /\ d.todo = disp[s].todo
            /\ calls'[Msg(s)][Chan(s)] = <<[hour |-> disp[s].hour, at |-> hour, by |-> s, ok |-> d.ok]>>
        BY <2>1, <3>2, SendAsks DEF StepOf, Sends
      <4>2. calls'[Msg(s)][Chan(s)] # <<>> /\ calls'[Msg(s)][Chan(s)][1].ok = d.ok
        BY <4>1
      <4>3. QED
        BY <2>2, <2>4, <4>1, <4>2 DEF Msg, Chan
    <3>3. CASE ~Sends(s, d)
      <4>1. ~Reads(s, d) /\ ~Routes(s, d) /\ ~SkipsChannel(s, d) /\ ~LeavesMessage(s, d)
            /\ ~Restarts(s, d)
        BY <3>1, AtWork, AtChannel, NextMessageOK, NextChannelOK
        DEF Reads, Routes, SkipsChannel, LeavesMessage, Restarts, Idle
      <4>2. Walks(s, d)
        BY <2>1, <3>3, <4>1 DEF StepOf
      <4>3. /\ disp[s].pc = "track" /\ calls' = calls
            /\ d.batch = disp[s].batch /\ d.todo = disp[s].todo /\ d.ok = disp[s].ok
        BY <3>1, <4>2 DEF Walks
      <4>4. QED
        BY <2>2, <2>4, <4>3 DEF Outcome, Msg, Chan
    <3>4. QED
      BY <3>2, <3>3
  <2>5. QED
    BY <2>3, <2>4
<1>2. CASE UNCHANGED <<disp, calls>>
  BY <1>2 DEF Outcome, Msg, Chan
<1>3. QED
  <2>1. ASSUME NEW e \in Events, Publish(e) \/ \E c \in Channels : Callback(e, c)
        PROVE  Outcome'
    BY <1>2, <2>1 DEF Publish, Callback, sendVars
  <2>2. ASSUME NEW s \in Servers, AutoClaim(s) PROVE Outcome'
    BY <1>2, <2>2 DEF AutoClaim, sendVars
  <2>3. CASE Trim \/ Tick \/ CallbackWithoutId \/ UNCHANGED vars
    BY <1>2, <2>3 DEF Trim, Tick, CallbackWithoutId, vars, sendVars
  <2>4. QED
    BY <1>1, <2>1, <2>2, <2>3 DEF Next

\* Who is about to write a row is so after the step of another dispatcher.
LEMMA OthersAboutToLog ==
  ASSUME Typed, NEW s \in Servers, NEW d, Moves(s, d), NEW e, NEW c,
         AboutToLog(e, c), ~AboutToLog(e, c)'
  PROVE  disp[s].pc \in {"track", "log"} /\ Msg(s) = e /\ Chan(s) = c
<1>1. PICK t \in Servers : disp[t].pc \in {"track", "log"} /\ Msg(t) = e /\ Chan(t) = c
  BY DEF AboutToLog
<1>2. CASE t = s
  BY <1>1, <1>2
<1>3. CASE t # s
  <2>1. disp'[t] = disp[t]
    BY <1>3, MovesTyped
  <2>2. AboutToLog(e, c)'
    BY <1>1, <2>1 DEF AboutToLog, Msg, Chan
  <2>3. QED
    BY <2>2
<1>4. QED
  BY <1>2, <1>3

\* Without faults, a send that has no row yet is in the hands of a dispatcher.
LEMMA LoggedStep ==
  Typed /\ Once /\ Outcome /\ EverySendLogged /\ [Next]_vars => EverySendLogged'
<1> SUFFICES ASSUME Typed, Once, Outcome, EverySendLogged, [Next]_vars, faults' = 0,
                    NEW e \in OfEmail, NEW c \in Channels,
                    calls'[e][c] # <<>>, ~AboutToLog(e, c)'
             PROVE  Row(e, c, calls'[e][c][1].ok) \in log'
  BY DEF EverySendLogged, Row
<1>1. e \in Events
  BY EventsAssumption
<1>2. ASSUME NEW s \in Servers, Failure(s) PROVE FALSE
  <2>1. faults' = faults + 1 /\ faults \in Nat
    BY <1>2 DEF Failure, LoadRecipientFails, RouteWithoutPrefs, AllowFailsOpen, LogFails,
      AckFails, Crash, Fault, Typed
  <2>2. QED
    BY <2>1
<1>10. CASE CallbackWithoutId
  <2>1. faults' = faults + 1 /\ faults \in Nat
    BY <1>10 DEF CallbackWithoutId, Fault, Typed
  <2>2. QED
    BY <2>1
<1>3. ASSUME faults = 0, calls[e][c] # <<>>, ~AboutToLog(e, c)
      PROVE  Row(e, c, calls[e][c][1].ok) \in log
  BY <1>3 DEF EverySendLogged
<1>4. CASE UNCHANGED <<disp, calls, log, faults>>
  BY <1>3, <1>4 DEF AboutToLog, Msg, Chan
<1>5. ASSUME NEW f \in Events, NEW k \in Channels, Callback(f, k)
      PROVE  Row(e, c, calls'[e][c][1].ok) \in log'
  <2>1. UNCHANGED <<disp, calls, faults>>
    BY <1>5 DEF Callback
  <2>2. Row(e, c, calls[e][c][1].ok) \in log
    BY <1>3, <2>1 DEF AboutToLog, Msg, Chan
  <2>3. PICK r \in log, status \in Reports :
          r.by = "channel" /\ log' = (log \ {r}) \union {[r EXCEPT !.status = status]}
    BY <1>5 DEF Callback
  <2>4. Row(e, c, calls[e][c][1].ok) # r
    BY <2>3 DEF Row
  <2>5. QED
    BY <2>1, <2>2, <2>3, <2>4
<1>6. ASSUME NEW s \in Servers, Work(s)
      PROVE  Row(e, c, calls'[e][c][1].ok) \in log'
  <2>1. PICK d : StepOf(s, d)
    BY <1>6, Shapes, Zenon
  <2>2. faults = 0
    BY <1>6 DEF Work, Read, Evaluate, Route, Allow, AllowUpTo, Send, Track, LogSend, Ack
  <2>3. disp'[s] = d
    BY <2>1, MovesTyped DEF StepOf
  <2>4. ASSUME UNCHANGED calls, log \subseteq log', ~AboutToLog(e, c)
        PROVE  Row(e, c, calls'[e][c][1].ok) \in log'
    BY <1>3, <2>2, <2>4
  <2>5. CASE Send(s)
    <3>1. disp[s].pc = "send" /\ log' = log /\ d.pc \in {"track", "log"}
      <4>1. PICK ok \in BOOLEAN, pc \in {"track", "log"} :
              disp' = [disp EXCEPT ![s].ok = ok, ![s].pc = pc]
        BY <2>5, Zenon DEF Send
      <4>2. disp \in [Servers -> DispStates] /\ disp[s] \in DispStates
        BY DEF Typed
      <4>3. disp'[s].pc = pc
        BY <4>1, <4>2 DEF DispStates
      <4>4. QED
        BY <2>3, <2>5, <4>3 DEF Send
    <3>2. Sends(s, d)
      BY <2>1, <3>1 DEF StepOf, Reads, Walks, Routes, SkipsChannel, LeavesMessage, Restarts,
        Idle
    <3>3. CASE e = Msg(s) /\ c = Chan(s)
      BY <2>3, <3>1, <3>2, <3>3, Zenon DEF Sends, AboutToLog, Msg, Chan
    <3>4. CASE ~(e = Msg(s) /\ c = Chan(s))
      <4>1. calls'[e][c] = calls[e][c]
        BY <1>1, <2>1, <3>2, <3>4, SendAsks DEF StepOf
      <4>2. ~AboutToLog(e, c)
        BY <2>1, <3>1, OthersAboutToLog DEF StepOf
      <4>3. QED
        BY <1>3, <2>2, <3>1, <4>1, <4>2
    <3>5. QED
      BY <3>3, <3>4
  <2>6. CASE Track(s) \/ LogSend(s)
    <3>1. UNCHANGED calls /\ log \subseteq log'
      BY <2>6 DEF Track, LogSend, Insert
    <3>2. CASE ~(e = Msg(s) /\ c = Chan(s))
      BY <2>1, <2>4, <3>1, <3>2, OthersAboutToLog DEF StepOf
    <3>3. CASE Track(s) /\ e = Msg(s) /\ c = Chan(s)
      <4>1. disp[s] \in DispStates /\ d = [disp[s] EXCEPT !.pc = "log"]
        BY <2>3, <3>3 DEF Track, Typed
      <4>2. AboutToLog(e, c)'
        BY <2>3, <3>3, <4>1 DEF AboutToLog, Msg, Chan, DispStates
      <4>3. QED
        BY <4>2
    <3>4. CASE LogSend(s) /\ e = Msg(s) /\ c = Chan(s)
      <4>1. calls[e][c][1].ok = disp[s].ok
        BY <3>4 DEF LogSend, Outcome
      <4>2. Row(e, c, disp[s].ok) \in log'
        BY <3>4 DEF LogSend, Insert, Row
      <4>3. QED
        BY <3>1, <4>1, <4>2
    <3>5. QED
      BY <2>6, <3>2, <3>3, <3>4
  <2>7. CASE ~Send(s) /\ ~Track(s) /\ ~LogSend(s)
    <3>1. UNCHANGED <<calls, log>> /\ disp[s].pc \notin {"track", "log"}
      BY <1>6, <2>7 DEF Work, Read, Evaluate, Route, Allow, AllowUpTo, Ack, sendVars
    <3>2. ~AboutToLog(e, c)
      BY <2>1, <3>1, OthersAboutToLog DEF StepOf
    <3>3. QED
      BY <2>4, <3>1, <3>2
  <2>8. QED
    BY <2>5, <2>6, <2>7
<1>7. QED
  <2>1. ASSUME NEW f \in Events, Publish(f)
        PROVE  Row(e, c, calls'[e][c][1].ok) \in log'
    BY <1>4, <2>1 DEF Publish, sendVars
  <2>2. ASSUME NEW s \in Servers, AutoClaim(s)
        PROVE  Row(e, c, calls'[e][c][1].ok) \in log'
    BY <1>4, <2>2 DEF AutoClaim, sendVars
  <2>3. CASE Trim \/ Tick \/ UNCHANGED vars
    BY <1>4, <2>3 DEF Trim, Tick, vars, sendVars
  <2>4. QED
    BY <1>2, <1>5, <1>6, <1>10, <2>1, <2>2, <2>3 DEF Next

-------------------------------------------------------------------------------
(* The hourly limit.                                                       *)

\* Granted to s in this step: a permission the limiter counted.
Granted(s, c) ==
  /\ disp[s].pc = "allow" /\ c = Chan(s) /\ c \in Limited
  /\ count' = [count EXCEPT ![UserOf[Msg(s)]][c] = @ + 1]
  /\ count'[UserOf[Msg(s)]][c] <= Limit[c]

\* A step of a dispatcher without a grant makes no new claim to send; a grant
\* makes one, for its event in this hour.
LEMMA ClaimsShrink ==
  ASSUME Typed, Once, NEW s \in Servers, Work(s) \/ Failure(s),
         NEW u \in Users, NEW c \in Limited, NEW h \in 1 .. MaxHours,
         NEW e \in Claims(u, c, h)', e \notin Claims(u, c, h)
  PROVE  Granted(s, c) /\ e = Msg(s) /\ u = UserOf[e] /\ h = hour
<1>1. PICK d : StepOf(s, d)
  BY Shapes
<1>2. disp'[s] = d /\ \A t \in Servers : t # s => disp'[t] = disp[t]
  BY <1>1, MovesTyped DEF StepOf
<1>3. e \in Events /\ u = UserOf[e] /\ c \in Channels /\ h # Uncounted
  BY ChannelsAssumption DEF Claims, Uncounted, Limited
<1>4. ~Sent(e, c, h) /\ ~Permitted(e, c, h)
  BY <1>3 DEF Claims
<1>5. ~Sent(e, c, h)'
  <2>1. CASE Sends(s, d) /\ e = Msg(s) /\ c = Chan(s)
    <3>1. calls'[e][c] = <<[hour |-> disp[s].hour, at |-> hour, by |-> s, ok |-> d.ok]>>
      BY <1>1, <2>1, SendAsks DEF StepOf
    <3>2. disp[s].hour # h
      BY <1>4, <2>1 DEF Permitted, Sends
    <3>3. QED
      BY <3>1, <3>2 DEF Sent
  <2>2. CASE Sends(s, d) /\ ~(e = Msg(s) /\ c = Chan(s))
    <3>1. calls'[e][c] = calls[e][c]
      BY <1>1, <1>3, <2>2, SendAsks DEF StepOf
    <3>2. QED
      BY <1>4, <3>1 DEF Sent
  <2>3. CASE ~Sends(s, d)
    <3>1. calls' = calls
      BY <1>1, <2>3 DEF StepOf, Reads, Walks, Routes, SkipsChannel, LeavesMessage, Restarts
    <3>2. QED
      BY <1>4, <3>1 DEF Sent
  <2>4. QED
    BY <2>1, <2>2, <2>3
<1>6. PICK t \in Servers :
        disp'[t].pc = "send" /\ disp'[t].hour = h /\ Head(disp'[t].batch) = e
        /\ Head(disp'[t].todo) = c
  BY <1>3, <1>5 DEF Claims, Permitted, Msg, Chan
<1>7. t = s
  BY <1>2, <1>4, <1>6 DEF Permitted, Msg, Chan
<1>8. /\ disp[s].pc = "allow" /\ d.batch = disp[s].batch /\ d.todo = disp[s].todo
  <2>1. d.pc = "send"
    BY <1>2, <1>6, <1>7
  <2>2. ~Reads(s, d) /\ ~Routes(s, d) /\ ~Sends(s, d) /\ ~Restarts(s, d)
    BY <2>1 DEF Reads, Routes, Sends, Restarts, Idle
  <2>3. ~SkipsChannel(s, d) /\ ~LeavesMessage(s, d)
    BY <2>1, AtWork, AtChannel, NextMessageOK, NextChannelOK DEF SkipsChannel, LeavesMessage
  <2>4. Walks(s, d)
    BY <1>1, <2>2, <2>3 DEF StepOf
  <2>5. QED
    BY <2>1, <2>4 DEF Walks
<1>9. e = Msg(s) /\ c = Chan(s)
  BY <1>2, <1>6, <1>7, <1>8 DEF Msg, Chan
<1>10. disp[s].hour = Uncounted /\ disp[s] \in DispStates
  BY <1>8 DEF Typed, DispOK
<1>11. disp'[s].hour = h /\ disp'[s].pc = "send"
  BY <1>6, <1>7
<1>12. ~(disp' = [disp EXCEPT ![s].pc = "send"])
  BY <1>3, <1>10, <1>11 DEF Typed, DispStates
<1>13. Allow(s)
  <2>1. ~Crash(s)
    BY <1>11 DEF Crash, Idle, Typed
  <2>2. QED
    BY <1>8, <1>12, <2>1 DEF Work, Failure, Read, Evaluate, Route, Send, Track, LogSend,
      Ack, LoadRecipientFails, RouteWithoutPrefs, AllowFailsOpen, LogFails, AckFails
<1>14. /\ count' = [count EXCEPT ![UserOf[Msg(s)]][c] = @ + 1]
       /\ disp' = [disp EXCEPT ![s] = IF count'[UserOf[Msg(s)]][c] <= Limit[c]
                                        THEN [@ EXCEPT !.pc = "send", !.hour = hour]
                                        ELSE NextChannel(@)]
  BY <1>9, <1>12, <1>13 DEF Allow, AllowUpTo
<1>15. count'[UserOf[Msg(s)]][c] <= Limit[c]
  <2>1. disp[s].todo # <<>> /\ DispOK(disp[s])
    BY <1>8, AtChannel, AtWork
  <2>2. NextChannel(disp[s]).pc # "send"
    BY <1>8, <2>1, NextChannelOK
  <2>3. QED
    BY <1>11, <1>14, <2>2 DEF Typed
<1>16. h = hour
  BY <1>10, <1>11, <1>14, <1>15 DEF Typed, DispStates
<1>17. QED
  BY <1>3, <1>8, <1>9, <1>14, <1>15, <1>16 DEF Granted

\* What one step may add to the claims of an hour the counter has counted.
LEMMA ClaimsStep ==
  ASSUME Typed, Once, ClaimsLimited, NEW s \in Servers, Work(s) \/ Failure(s)
  PROVE  ClaimsLimited'
<1> SUFFICES ASSUME NEW u \in Users, NEW c \in Limited, NEW h \in 1 .. MaxHours
             PROVE  /\ IsFiniteSet(Claims(u, c, h)')
                    /\ Cardinality(Claims(u, c, h)') <= Limit[c]
                    /\ h = hour' => Cardinality(Claims(u, c, h)') <= count'[u][c]
                    /\ h > hour' => Claims(u, c, h)' = {}
  BY SMTT(20) DEF ClaimsLimited
<1>1. hour' = hour
  BY DEF Work, Failure, Read, Evaluate, Route, Allow, AllowUpTo, Send, Track, LogSend, Ack,
    LoadRecipientFails, RouteWithoutPrefs, AllowFailsOpen, LogFails, AckFails, Crash
<1>2. /\ IsFiniteSet(Claims(u, c, h)) /\ Cardinality(Claims(u, c, h)) \in Nat
      /\ Cardinality(Claims(u, c, h)) <= Limit[c]
      /\ h = hour => Cardinality(Claims(u, c, h)) <= count[u][c]
      /\ h > hour => Claims(u, c, h) = {}
  BY FS_CardinalityType DEF ClaimsLimited
<1>3. count[u][c] \in Nat /\ count'[u][c] \in Nat /\ Limit[c] \in Nat
  BY CountTyped, ChannelsAssumption DEF Typed, Limited
<1>4. CASE Claims(u, c, h)' \subseteq Claims(u, c, h)
  <2>1. IsFiniteSet(Claims(u, c, h)') /\ Cardinality(Claims(u, c, h)') \in Nat
        /\ Cardinality(Claims(u, c, h)') <= Cardinality(Claims(u, c, h))
    BY <1>2, <1>4, FS_Subset, FS_CardinalityType
  <2>2. count[u][c] <= count'[u][c]
    <3>1. CASE UNCHANGED count
      BY <1>3, <3>1
    <3>2. CASE \E v \in Users, k \in Limited : count' = [count EXCEPT ![v][k] = @ + 1]
      <4>1. PICK v \in Users, k \in Limited : count' = [count EXCEPT ![v][k] = @ + 1]
        BY <3>2
      <4>2. count'[u][c] = count[u][c] \/ count'[u][c] = count[u][c] + 1
        BY <4>1 DEF Typed
      <4>3. QED
        BY <1>3, <4>2
    <3>3. QED
      BY <3>1, <3>2, CountSteps
  <2>3. QED
    BY <1>1, <1>2, <1>3, <1>4, <2>1, <2>2
<1>5. CASE ~(Claims(u, c, h)' \subseteq Claims(u, c, h))
  <2>1. /\ Granted(s, c) /\ u = UserOf[Msg(s)] /\ h = hour
        /\ Claims(u, c, h)' \subseteq Claims(u, c, h) \union {Msg(s)}
    BY <1>5, ClaimsShrink
  <2>2. count'[u][c] = count[u][c] + 1 /\ count'[u][c] <= Limit[c]
    BY <2>1 DEF Granted, Typed
  <2>3. /\ IsFiniteSet(Claims(u, c, h) \union {Msg(s)})
        /\ Cardinality(Claims(u, c, h) \union {Msg(s)}) <= Cardinality(Claims(u, c, h)) + 1
        /\ Cardinality(Claims(u, c, h) \union {Msg(s)}) \in Nat
    BY <1>2, FS_AddElement, FS_CardinalityType, SMTT(20)
  <2>4. /\ IsFiniteSet(Claims(u, c, h)') /\ Cardinality(Claims(u, c, h)') \in Nat
        /\ Cardinality(Claims(u, c, h)') <= Cardinality(Claims(u, c, h) \union {Msg(s)})
    BY <2>1, <2>3, FS_Subset, FS_CardinalityType
  <2>5. Cardinality(Claims(u, c, h)') <= count'[u][c]
    BY <1>2, <1>3, <2>1, <2>2, <2>3, <2>4
  <2>6. hour \in Nat
    BY DEF Typed
  <2>7. QED
    BY <1>1, <1>3, <2>1, <2>2, <2>4, <2>5, <2>6
<1>6. QED
  BY <1>4, <1>5

\* The claims of all the steps.
LEMMA ClaimsLimitedStep ==
  Typed /\ Once /\ ClaimsLimited /\ [Next]_vars => ClaimsLimited'
<1> SUFFICES ASSUME Typed, Once, ClaimsLimited, [Next]_vars PROVE ClaimsLimited'
  OBVIOUS
<1>1. CASE UNCHANGED <<disp, calls, count, hour>>
  <2>1. \A u \in Users, c \in Limited, h \in 1 .. MaxHours :
          Claims(u, c, h)' = Claims(u, c, h)
    BY <1>1 DEF Claims, Sent, Permitted, Msg, Chan
  <2>2. QED
    BY <1>1, <2>1 DEF ClaimsLimited
<1>2. CASE Tick
  <2>1. /\ UNCHANGED <<disp, calls>> /\ hour' = hour + 1 /\ hour \in Nat
        /\ count' = [u \in Users |-> [c \in Limited |-> 0]]
    BY <1>2 DEF Tick, Typed
  <2>2. \A u \in Users, c \in Limited, h \in 1 .. MaxHours :
          Claims(u, c, h)' = Claims(u, c, h)
    BY <2>1 DEF Claims, Sent, Permitted, Msg, Chan
  <2>3. \A u \in Users, c \in Limited, h \in 1 .. MaxHours :
          h >= hour' => Claims(u, c, h) = {}
    BY <2>1 DEF ClaimsLimited
  <2>4. \A u \in Users, c \in Limited : count'[u][c] = 0
    BY <2>1
  <2> SUFFICES ASSUME NEW u \in Users, NEW c \in Limited, NEW h \in 1 .. MaxHours
               PROVE  /\ IsFiniteSet(Claims(u, c, h)')
                      /\ Cardinality(Claims(u, c, h)') <= Limit[c]
                      /\ h = hour' => Cardinality(Claims(u, c, h)') <= count'[u][c]
                      /\ h > hour' => Claims(u, c, h)' = {}
    BY DEF ClaimsLimited
  <2>5. IsFiniteSet(Claims(u, c, h)') /\ Cardinality(Claims(u, c, h)') <= Limit[c]
    BY <2>2 DEF ClaimsLimited
  <2>6. h = hour' => Cardinality(Claims(u, c, h)') <= count'[u][c]
    <3>1. h = hour' => Claims(u, c, h)' = {}
      BY <2>1, <2>2, <2>3
    <3>2. QED
      BY <2>4, <3>1, FS_EmptySet
  <2>7. h > hour' => Claims(u, c, h)' = {}
    BY <2>1, <2>2, <2>3
  <2>8. QED
    BY <2>5, <2>6, <2>7
<1>3. ASSUME NEW s \in Servers, Work(s) \/ Failure(s) PROVE ClaimsLimited'
  BY <1>3, ClaimsStep
<1>4. QED
  <2>1. ASSUME NEW e \in Events, Publish(e) \/ \E c \in Channels : Callback(e, c)
        PROVE  ClaimsLimited'
    BY <1>1, <2>1 DEF Publish, Callback, sendVars
  <2>2. ASSUME NEW s \in Servers, AutoClaim(s) PROVE ClaimsLimited'
    BY <1>1, <2>2 DEF AutoClaim, sendVars
  <2>3. CASE Trim \/ CallbackWithoutId \/ UNCHANGED vars
    BY <1>1, <2>3 DEF Trim, CallbackWithoutId, vars, sendVars
  <2>4. QED
    BY <1>2, <1>3, <2>1, <2>2, <2>3 DEF Next

-------------------------------------------------------------------------------
(* The late calls.                                                         *)

\* A server that comes to hold a permission holds one of this hour.
LEMMA HoldsFresh ==
  ASSUME Typed, NEW s \in Servers, NEW d, StepOf(s, d), d.pc = "send"
  PROVE  d.hour \in {Uncounted, hour}
<1>1. ~Reads(s, d) /\ ~Routes(s, d) /\ ~Sends(s, d) /\ ~Restarts(s, d)
  BY DEF Reads, Routes, Sends, Restarts, Idle
<1>2. ~SkipsChannel(s, d) /\ ~LeavesMessage(s, d)
  BY AtWork, AtChannel, NextMessageOK, NextChannelOK DEF SkipsChannel, LeavesMessage
<1>3. Walks(s, d)
  BY <1>1, <1>2 DEF StepOf
<1>4. QED
  BY <1>3 DEF Walks

\* After a send the server holds nothing, and its call is of this hour.
LEMMA LatesWork ==
  ASSUME Typed, Once, Lates, LatesApart, NEW s \in Servers, Work(s) \/ Failure(s)
  PROVE  Lates' /\ LatesApart'
<1>1. PICK d : StepOf(s, d)
  BY Shapes
<1>2. /\ disp'[s] = d /\ \A t \in Servers : t # s => disp'[t] = disp[t]
      /\ d.pc = "send" => d.hour \in {Uncounted, hour}
  BY <1>1, MovesTyped, HoldsFresh DEF StepOf
<1>3. hour' = hour /\ hour \in Nat
  <2>1. hour' = hour
    BY DEF Work, Failure, Read, Evaluate, Route, Allow, AllowUpTo, Send, Track, LogSend, Ack,
      LoadRecipientFails, RouteWithoutPrefs, AllowFailsOpen, LogFails, AckFails, Crash
  <2>2. QED
    BY <2>1 DEF Typed
<1> DEFINE Quiet(t) == disp'[t].pc = "send" => disp'[t].hour \in {Uncounted, hour}
<1>4. \A t \in Servers :
        (disp[t].pc = "send" => disp[t].hour \in {Uncounted, hour}) => Quiet(t)
  BY <1>2
<1>5. CASE Sends(s, d)
  <2> DEFINE call == [hour |-> disp[s].hour, at |-> hour, by |-> s, ok |-> d.ok]
  <2>1. /\ Msg(s) \in Events /\ Chan(s) \in Channels
        /\ calls[Msg(s)][Chan(s)] = <<>> /\ calls'[Msg(s)][Chan(s)] = <<call>>
        /\ \A e \in Events, c \in Channels :
             e # Msg(s) \/ c # Chan(s) => calls'[e][c] = calls[e][c]
    BY <1>1, <1>5, SendAsks DEF StepOf
  <2>2. calls'[Msg(s)][Chan(s)][1] = call /\ call.at = hour /\ call.by = s
        /\ call.hour = disp[s].hour
    BY <2>1
  <2>3. Quiet(s)
    BY <1>2, <1>5 DEF Sends
  <2>4. \A e \in Events, c \in Channels :
          calls[e][c] # <<>> => calls[e][c][1] \in Calls
    <3>1. \A e \in Events, c \in Channels : calls[e][c] \in Seq(Calls)
      BY DEF Typed
    <3>2. QED
      BY <3>1, EmptySeq
  <2> HIDE DEF call
  <2>5. Lates'
    <3> SUFFICES ASSUME NEW e \in Events, NEW c \in Channels, calls'[e][c] # <<>>
                 PROVE  /\ calls'[e][c][1].at <= hour
                        /\ Late(calls'[e][c][1]) /\ calls'[e][c][1].at = hour
                             => Quiet(calls'[e][c][1].by)
      BY <1>3 DEF Lates, Asked, Late
    <3>1. CASE e = Msg(s) /\ c = Chan(s)
      BY <1>3, <2>2, <2>3, <3>1
    <3>2. CASE e # Msg(s) \/ c # Chan(s)
      <4>1. calls'[e][c] = calls[e][c]
        BY <2>1, <3>2
      <4>2. calls[e][c][1].by \in Servers
        BY <2>4, <4>1 DEF Calls
      <4>3. QED
        BY <1>4, <4>1, <4>2 DEF Lates, Asked
    <3>3. QED
      BY <3>1, <3>2
  <2>6. Late(call) => ~(disp[s].hour \in {Uncounted, hour}) /\ disp[s].pc = "send"
    BY <1>3, <1>5, <2>2 DEF Late, Sends
  <2>7. ASSUME NEW e \in Events, NEW c \in Channels, calls[e][c] # <<>>,
               Late(calls[e][c][1]), Late(call), calls[e][c][1].by = s
        PROVE  calls[e][c][1].at # hour
    BY <2>6, <2>7 DEF Lates, Asked
  <2>8. LatesApart'
    <3> SUFFICES ASSUME NEW f \in Events, NEW e \in Events, NEW b \in Channels, NEW c \in Channels,
                        calls'[f][b] # <<>>, Late(calls'[f][b][1]),
                        calls'[e][c] # <<>>, Late(calls'[e][c][1]),
                        calls'[f][b][1].by = calls'[e][c][1].by,
                        calls'[f][b][1].at = calls'[e][c][1].at
                 PROVE  f = e /\ b = c
      BY DEF LatesApart, Asked, Late
    <3>1. CASE f = Msg(s) /\ b = Chan(s)
      <4>1. CASE e = Msg(s) /\ c = Chan(s)
        BY <3>1, <4>1
      <4>2. CASE e # Msg(s) \/ c # Chan(s)
        <5>1. calls'[e][c] = calls[e][c] /\ calls'[f][b][1] = call
          BY <2>1, <2>2, <3>1, <4>2
        <5>2. QED
          BY <2>2, <2>7, <5>1
      <4>3. QED
        BY <4>1, <4>2
    <3>2. CASE e = Msg(s) /\ c = Chan(s) /\ (f # Msg(s) \/ b # Chan(s))
      <4>1. calls'[f][b] = calls[f][b] /\ calls'[e][c][1] = call
        BY <2>1, <2>2, <3>2
      <4>2. QED
        BY <2>2, <2>7, <4>1
    <3>3. CASE (f # Msg(s) \/ b # Chan(s)) /\ (e # Msg(s) \/ c # Chan(s))
      <4>1. calls'[f][b] = calls[f][b] /\ calls'[e][c] = calls[e][c]
        BY <2>1, <3>3
      <4>2. QED
        BY <4>1 DEF LatesApart, Asked
    <3>4. QED
      BY <3>1, <3>2, <3>3
  <2>9. QED
    BY <2>5, <2>8
<1>6. CASE ~Sends(s, d)
  <2>1. calls' = calls
    BY <1>1, <1>6, Zenon DEF StepOf, Reads, Walks, Routes, SkipsChannel, LeavesMessage, Restarts
  <2>2. \A e \in Events, c \in Channels :
          calls[e][c] # <<>> => calls[e][c][1].by \in Servers
    <3>1. \A e \in Events, c \in Channels : calls[e][c] \in Seq(Calls)
      BY DEF Typed
    <3>2. \A e \in Events, c \in Channels :
            calls[e][c] # <<>> => calls[e][c][1] \in Calls
      BY <3>1, EmptySeq
    <3>3. QED
      BY <3>2 DEF Calls
  <2>3. Lates'
    <3> SUFFICES ASSUME NEW e \in Events, NEW c \in Channels, calls[e][c] # <<>>
                 PROVE  /\ calls[e][c][1].at <= hour
                        /\ Late(calls[e][c][1]) /\ calls[e][c][1].at = hour
                             => Quiet(calls[e][c][1].by)
      BY <1>3, <2>1 DEF Lates, Asked, Late
    <3>1. QED
      BY <1>4, <2>2 DEF Lates, Asked
  <2>4. LatesApart'
    BY <2>1 DEF LatesApart, Asked, Late
  <2>5. QED
    BY <2>3, <2>4
<1>7. QED
  BY <1>5, <1>6

\* In a new hour nothing has been sent yet.
LEMMA LatesStep ==
  Typed /\ Once /\ Lates /\ LatesApart /\ [Next]_vars => Lates' /\ LatesApart'
<1> SUFFICES ASSUME Typed, Once, Lates, LatesApart, [Next]_vars PROVE Lates' /\ LatesApart'
  OBVIOUS
<1>1. CASE UNCHANGED <<disp, calls, hour>>
  BY <1>1 DEF Lates, LatesApart, Asked, Late
<1>2. CASE Tick
  <2>1. UNCHANGED <<disp, calls>> /\ hour' = hour + 1 /\ hour \in Nat
    BY <1>2 DEF Tick, Typed
  <2>2. \A e \in Events, c \in Channels :
          calls[e][c] # <<>> => calls[e][c][1].at \in Nat /\ calls[e][c][1].at <= hour
    <3>1. \A e \in Events, c \in Channels : calls[e][c] \in Seq(Calls)
      BY DEF Typed
    <3>2. \A e \in Events, c \in Channels :
            calls[e][c] # <<>> => calls[e][c][1] \in Calls
      BY <3>1, EmptySeq
    <3>3. QED
      BY <3>2 DEF Calls, Lates, Asked
  <2>3. \A e \in Events, c \in Channels : calls[e][c] # <<>> =>
          calls[e][c][1].at <= hour' /\ calls[e][c][1].at # hour'
    BY <2>1, <2>2
  <2>4. Lates'
    BY <2>1, <2>3 DEF Lates, Asked, Late
  <2>5. LatesApart'
    BY <2>1 DEF LatesApart, Asked, Late
  <2>6. QED
    BY <2>4, <2>5
<1>3. ASSUME NEW s \in Servers, Work(s) \/ Failure(s) PROVE Lates' /\ LatesApart'
  BY <1>3, LatesWork
<1>4. QED
  <2>1. ASSUME NEW e \in Events, Publish(e) \/ \E c \in Channels : Callback(e, c)
        PROVE  UNCHANGED <<disp, calls, hour>>
    BY <2>1, Zenon DEF Publish, Callback, sendVars
  <2>2. ASSUME NEW s \in Servers, AutoClaim(s) PROVE UNCHANGED <<disp, calls, hour>>
    BY <2>2, Zenon DEF AutoClaim, sendVars
  <2>3. CASE Trim \/ CallbackWithoutId \/ UNCHANGED vars
    BY <1>1, <2>3 DEF Trim, CallbackWithoutId, vars, sendVars
  <2>4. QED
    BY <1>1, <1>2, <1>3, <2>1, <2>2, <2>3 DEF Next

-------------------------------------------------------------------------------
(* The theorems.                                                           *)

\* The inductive invariant implies the type invariant of the module.
LEMMA TypedOK == Typed => TypeOK
  BY DEF Typed, TypeOK, DispOK, DispStates

\* An event that is sent in an hour has a claim to it, and is sent once.
LEMMA LimitsHold == Typed /\ Once /\ ClaimsLimited => PermittedLimit
<1> SUFFICES ASSUME Typed, Once, ClaimsLimited,
                    NEW u \in Users, NEW c \in Limited, NEW h \in 1 .. MaxHours
             PROVE  Cardinality({p \in CallsOf(u, c) : p[2] <= Len(calls[p[1]][c])
                                   /\ CallAt(p, c).hour = h}) <= Limit[c]
  BY DEF PermittedLimit
<1> DEFINE P == {p \in CallsOf(u, c) : p[2] <= Len(calls[p[1]][c])
                                        /\ CallAt(p, c).hour = h}
           C == Claims(u, c, h)
           f == [p \in P |-> p[1]]
<1>1. c \in Channels
  BY ChannelsAssumption DEF Limited
<1>2. \A p \in P : p[1] \in Events /\ p[2] = 1 /\ p = <<p[1], 1>>
  <2> SUFFICES ASSUME NEW p \in P PROVE p[1] \in Events /\ p[2] = 1 /\ p = <<p[1], 1>>
    OBVIOUS
  <2>1. p[1] \in Events /\ p[2] \in 1 .. 2 /\ p = <<p[1], p[2]>>
    BY DEF CallsOf
  <2>2. Len(calls[p[1]][c]) \in Nat /\ Len(calls[p[1]][c]) <= 1
    <3>1. calls[p[1]][c] \in Seq(Calls)
      BY <1>1, <2>1 DEF Typed
    <3>2. QED
      BY <1>1, <2>1, <3>1, EmptySeq DEF Once, AskedOnce
  <2>3. p[2] = 1
    BY <2>1, <2>2
  <2>4. QED
    BY <2>1, <2>3
<1>3. \A p \in P : p[1] \in C
  <2> SUFFICES ASSUME NEW p \in P PROVE p[1] \in C
    OBVIOUS
  <2>1. /\ p[1] \in Events /\ UserOf[p[1]] = u /\ 1 <= Len(calls[p[1]][c])
        /\ calls[p[1]][c][1].hour = h
    BY <1>2 DEF CallsOf, CallAt
  <2>2. calls[p[1]][c] # <<>>
    BY <2>1, EmptySeq
  <2>3. QED
    BY <2>1, <2>2 DEF Claims, Sent
<1>4. f \in Injection(P, C)
  <2>1. f \in [P -> C]
    BY <1>3
  <2>2. \A p, q \in P : f[p] = f[q] => p = q
    BY <1>2
  <2>3. QED
    BY <2>1, <2>2 DEF Injection, IsInjective
<1>5. IsFiniteSet(C) /\ Cardinality(C) <= Limit[c]
  BY DEF ClaimsLimited
<1> HIDE DEF P, C, f
<1>6. IsFiniteSet(P) /\ Cardinality(P) <= Cardinality(C)
  BY <1>4, <1>5, FS_Injection
<1>7. Cardinality(P) \in Nat /\ Cardinality(C) \in Nat /\ Limit[c] \in Nat
  BY <1>5, <1>6, FS_CardinalityType, ChannelsAssumption DEF Limited
<1>8. Cardinality(P) <= Limit[c]
  BY <1>5, <1>6, <1>7
<1>9. QED
  BY <1>8 DEF P

\* What is asked at most once has one call to be late.
LEMMA OneLate == Typed /\ Once /\ LatesApart => OneLatePerServer
<1> SUFFICES ASSUME Typed, Once, LatesApart,
                    NEW d \in Events, NEW e \in Events, NEW b \in Channels, NEW c \in Channels,
                    NEW i \in 1 .. Len(calls[d][b]), NEW j \in 1 .. Len(calls[e][c])
             PROVE  LET x == calls[d][b][i]
                        y == calls[e][c][j]
                    IN Late(x) /\ Late(y) /\ x.by = y.by /\ x.at = y.at
                         => <<d, b, i>> = <<e, c, j>>
  BY DEF OneLatePerServer
<1> SUFFICES ASSUME Late(calls[d][b][i]), Late(calls[e][c][j]),
                    calls[d][b][i].by = calls[e][c][j].by,
                    calls[d][b][i].at = calls[e][c][j].at
             PROVE  <<d, b, i>> = <<e, c, j>>
  OBVIOUS
<1>1. calls[d][b] \in Seq(Calls) /\ calls[e][c] \in Seq(Calls)
  BY DEF Typed
<1>2. Len(calls[d][b]) \in Nat /\ Len(calls[e][c]) \in Nat
      /\ Len(calls[d][b]) <= 1 /\ Len(calls[e][c]) <= 1
  BY <1>1, EmptySeq DEF Once, AskedOnce
<1>3. i = 1 /\ j = 1 /\ calls[d][b] # <<>> /\ calls[e][c] # <<>>
  BY <1>1, <1>2, EmptySeq
<1>4. QED
  BY <1>3 DEF LatesApart, Asked

\* At the start nothing is sent and nothing in hand.
LEMMA InvInit == Init => Inv
<1> SUFFICES ASSUME Init PROVE Inv
  OBVIOUS
<1>1. Typed
  BY IdleOK, EmptySeq, SizesAssumption DEF Init, Typed, DispOK
<1>2. Once
  BY EmptySeq DEF Init, Idle, Once, StreamOnce, BatchesGiven, OneHand, ChannelsOnce, AskedOnce,
    AskedGiven, WaitingUnasked, TodoUnasked, Unasked
<1>3. Outcome /\ EverySendLogged
  BY EventsAssumption DEF Init, Idle, Outcome, EverySendLogged
<1>4. ClaimsLimited
  <2>1. \A u \in Users, c \in Limited, h \in 1 .. MaxHours : Claims(u, c, h) = {}
    BY ChannelsAssumption DEF Init, Idle, Claims, Sent, Permitted, Limited
  <2>2. \A u \in Users, c \in Limited : count[u][c] = 0 /\ Limit[c] \in Nat
    BY ChannelsAssumption DEF Init, Limited
  <2>3. QED
    BY <2>1, <2>2, FS_EmptySet DEF ClaimsLimited
<1>5. Lates /\ LatesApart
  BY DEF Init, Lates, LatesApart, Asked
<1>6. QED
  BY <1>1, <1>2, <1>3, <1>4, <1>5 DEF Inv

\* The whole invariant is inductive.
LEMMA InvStep == Inv /\ [Next]_vars => Inv'
  BY TypedStep, OnceStep, OutcomeStep, LoggedStep, ClaimsLimitedStep,
     LatesStep DEF Inv

\* In every reachable state no event has been sent twice over a channel, no
\* hour has permitted more sends to a user over a channel than its limit
\* allows, a server has sent at most one of them in a later hour than it was
\* permitted in, and without faults every send has its row with the outcome:
\* for every number of servers that read, crash and come back.
THEOREM SendsLimited == Spec => []SendsAreLimited
<1>1. Inv => SendsAreLimited
  BY TypedOK, LimitsHold, OneLate DEF Inv, SendsAreLimited, Once, AskedOnce, AtMostOneSend
<1>2. QED
  BY InvInit, InvStep, <1>1, PTL DEF Spec

\* Every step but Ack and the failures leaves the batch in hand.
LEMMA BatchKept ==
  ASSUME Typed, NEW s \in Servers, Work(s), ~Ack(s), disp[s].pc # "idle"
  PROVE  disp'[s].batch = disp[s].batch
<1>1. DispOK(disp[s]) /\ disp[s] \in DispStates
  BY AtWork
<1>2. disp \in [Servers -> DispStates]
  BY DEF Typed
<1>3. CASE Evaluate(s)
  BY <1>1, <1>2, <1>3 DEF Evaluate, DispStates
<1>4. CASE Route(s)
  <2>1. PICK q : RouteTo(s, q)
    BY <1>4, Zenon DEF Route
  <2>2. QED
    BY <1>1, <1>2, <2>1 DEF RouteTo, DispStates
<1>5. CASE Send(s)
  <2>1. PICK ok, addressed :
          disp' = [disp EXCEPT ![s].ok = ok, ![s].pc =
                     IF Chan(s) \in Tracks(Chan(s), ok) /\ addressed THEN "track" ELSE "log"]
    BY <1>5, Zenon DEF Send
  <2>2. QED
    BY <1>1, <1>2, <2>1 DEF DispStates
<1>6. CASE Track(s)
  <2>1. disp' = [disp EXCEPT ![s].pc = "log"]
    BY <1>6 DEF Track
  <2>2. QED
    BY <1>1, <1>2, <2>1 DEF DispStates
<1>7. CASE Allow(s) \/ LogSend(s)
  <2>1. NextChannel(disp[s]).batch = disp[s].batch
    BY <1>1, <1>7, AtChannel, NextChannelOK DEF Allow, AllowUpTo, LogSend
  <2>2. \/ disp' = [disp EXCEPT ![s].pc = "send"]
        \/ disp' = [disp EXCEPT ![s] = [@ EXCEPT !.pc = "send", !.hour = hour]]
        \/ disp' = [disp EXCEPT ![s] = NextChannel(disp[s])]
    BY <1>2, <1>7 DEF Allow, AllowUpTo, LogSend
  <2>3. QED
    BY <1>1, <1>2, <2>1, <2>2 DEF DispStates
<1>8. QED
  BY <1>3, <1>4, <1>5, <1>6, <1>7 DEF Work, Read

\* A dispatcher lets go of a message unacknowledged only in a step that is a
\* failure: for every batch and whatever the rules, the limiter and the
\* providers say.
THEOREM LeftPending == Spec => LeftPendingOnlyByFault
<1>1. ASSUME Inv, [Next]_vars, NEW e \in Events,
             InHand(e), ~InHand(e)', e \in pending'
      PROVE  faults' > faults
  <2>1. Typed
    BY <1>1 DEF Inv
  <2>2. PICK t \in Servers : \E i \in 1 .. Len(disp[t].batch) : disp[t].batch[i] = e
    BY <1>1 DEF InHand
  <2>3. PICK i \in 1 .. Len(disp[t].batch) : disp[t].batch[i] = e
    BY <2>2
  <2>4. disp'[t].batch # disp[t].batch
    BY <1>1, <2>3 DEF InHand
  <2>5. PICK s \in Servers : Work(s) \/ Failure(s)
    <3>1. disp' # disp
      BY <2>4
    <3>2. QED
      BY <1>1, <3>1 DEF Next, Publish, Callback, CallbackWithoutId, Trim, Tick, AutoClaim, vars
  <2>6. PICK d : StepOf(s, d)
    BY <2>1, <2>5, Shapes
  <2>7. t = s /\ disp[s].pc # "idle"
    <3>1. t = s
      BY <2>1, <2>4, <2>6, MovesTyped DEF StepOf
    <3>2. disp[s].batch # <<>>
      BY <2>3, <3>1, EmptySeq
    <3>3. QED
      BY <2>1, <3>1, <3>2 DEF Typed, DispOK
  <2>8. CASE Failure(s)
    <3>1. faults' = faults + 1 /\ faults \in Nat
      BY <2>1, <2>8 DEF Failure, LoadRecipientFails, RouteWithoutPrefs, AllowFailsOpen,
        LogFails, AckFails, Crash, Fault, Typed
    <3>2. QED
      BY <3>1
  <2>9. CASE Work(s)
    <3>1. Ack(s)
      BY <2>1, <2>4, <2>7, <2>9, BatchKept
    <3>2. disp[s].batch \in Seq(Events) /\ DispOK(disp[s]) /\ Msg(s) = disp[s].batch[1]
      BY <2>1, <2>7, AtWork
    <3>3. disp'[s].batch = Tail(disp[s].batch)
      BY <2>1, <2>7, <3>1, <3>2, NextMessageOK DEF Ack, Typed
    <3>4. i # 1
      BY <1>1, <2>3, <2>7, <3>1, <3>2 DEF Ack
    <3>5. i - 1 \in 1 .. Len(disp'[s].batch) /\ disp'[s].batch[i - 1] = e
      <4>1. disp[s].batch # <<>> /\ Len(disp[s].batch) \in Nat
        BY <2>1, <2>7, <3>2, EmptySeq DEF DispOK
      <4>2. i - 1 \in 1 .. Len(disp[s].batch) - 1 /\ (i - 1) + 1 = i
        BY <2>3, <2>7, <3>4, <4>1
      <4>3. QED
        BY <2>3, <2>7, <3>2, <3>3, <4>1, <4>2, TailOK
    <3>6. InHand(e)'
      BY <3>5 DEF InHand
    <3>7. QED
      BY <1>1, <3>6
  <2>10. QED
    BY <2>5, <2>8, <2>9
<1>2. Inv /\ [Next]_vars =>
        [\A e \in Events : InHand(e) /\ ~InHand(e)' /\ e \in pending'
           => faults' > faults]_vars
  BY <1>1
<1>3. QED
  BY InvInit, InvStep, <1>2, PTL DEF Spec, LeftPendingOnlyByFault
===============================================================================
