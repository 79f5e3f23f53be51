----------------------------- MODULE CalendarSync -----------------------------
(***************************************************************************)
(* The sync of one calendar account (calendar/sync.go, google.go,          *)
(* microsoft.go).  A sync holds the advisory lock of the account, lists    *)
(* what changed since its token, applies the items one by one and stores   *)
(* the new token.  An item that cannot be applied is only logged.          *)
(***************************************************************************)
EXTENDS Naturals, FiniteSets

CONSTANTS
  Syncs,       \* servers that sync the account
  Events,      \* provider events
  Malformed,   \* those whose times cannot be parsed
  MaxRetries,  \* RetryPolicy.MaxRetries
  MaxChanges,  \* bound: changes of the calendar
  MaxFaults    \* bound: statements and calls that fail, processes that die

CalendarAssumption ==
  /\ Malformed \subseteq Events
  /\ MaxRetries \in Nat /\ MaxChanges \in Nat /\ MaxFaults \in Nat

VARIABLES
  provider,  \* of the account
  up,        \* up[e]: the event at the provider, and when it last changed; for
             \* Microsoft "cancelled" is also what left the range of the token
  clock,     \* changes so far: what a sync token stands for
  oldest,    \* tokens before this one are gone (410)
  consent,   \* of the user, "marked" once the token store knows
  token,     \* sync_token of the account, or NoToken
  row,       \* row[e]: the change the row of e shows, or NoRow
  sync,      \* sync[s]: where the sync of s is
  missed,    \* events with a change that was not stored
  unlisted,  \* events a listing left out, whose rows do not show them
  faults

vars == <<provider, up, clock, oldest, consent, token, row, sync, missed, unlisted, faults>>

NoToken == 0
NoRow == 0
Idle == [pc |-> "idle", token |-> NoToken, tries |-> 0, todo |-> [e \in {} |-> 0], upto |-> 0]

\* What normalizeGoogleEvent and normalizeMSEvent keep of an event, as far as
\* two versions of it differ.
Event == [status : {"busy", "free", "cancelled"}, changed : Nat]

\* The shape of the state.
TypeOK ==
  /\ provider \in {"google", "microsoft"}
  /\ up \in [Events -> Event]
  /\ clock \in 1 .. MaxChanges + 1 /\ oldest \in 0 .. clock
  /\ consent \in {"granted", "revoked", "marked"}
  /\ token \in 0 .. clock
  /\ row \in [Events -> 0 .. clock]
  /\ \A s \in Syncs : sync[s].pc \in {"idle", "state", "client", "list", "clear", "apply"}
  /\ missed \subseteq Events /\ unlisted \subseteq Events
  /\ faults \in 0 .. MaxFaults

\* The events exist, none of them has been synced.
Init ==
  /\ provider \in {"google", "microsoft"}
  /\ up = [e \in Events |-> [status |-> "busy", changed |-> 1]]
  /\ clock = 1 /\ oldest = 0
  /\ consent = "granted"
  /\ token = NoToken
  /\ row = [e \in Events |-> NoRow]
  /\ sync = [s \in Syncs |-> Idle]
  /\ missed = {} /\ unlisted = {}
  /\ faults = 0

Fails == faults < MaxFaults /\ faults' = faults + 1
Works == UNCHANGED faults
At(s, pc) == sync[s].pc = pc
Goto(s, pc) == sync' = [sync EXCEPT ![s].pc = pc]
End(s) == sync' = [sync EXCEPT ![s] = Idle]

-------------------------------------------------------------------------------
(* The provider and its user.                                                *)

Change(e, status) ==
  /\ clock <= MaxChanges
  /\ up[e].status # "cancelled" \/ status # "cancelled"
  /\ clock' = clock + 1
  /\ up' = [up EXCEPT ![e] = [status |-> status, changed |-> clock + 1]]
  /\ UNCHANGED <<provider, oldest, consent, token, row, sync, missed, unlisted, faults>>

ExpireTokens ==
  /\ oldest < clock
  /\ oldest' = clock
  /\ UNCHANGED <<provider, up, clock, consent, token, row, sync, missed, unlisted, faults>>

Revoke ==
  /\ consent = "granted"
  /\ consent' = "revoked"
  /\ UNCHANGED <<provider, up, clock, oldest, token, row, sync, missed, unlisted, faults>>

-------------------------------------------------------------------------------
(* SyncWithLock.                                                             *)

\* Variant: the lock is not looked at.
BeginAnyway(s) ==
  /\ At(s, "idle")
  /\ Goto(s, "state")
  /\ UNCHANGED <<provider, up, clock, oldest, consent, token, row, missed, unlisted, faults>>

\* pg_try_advisory_xact_lock; a sync that does not get it is skipped.
Begin(s) ==
  /\ \A o \in Syncs : At(o, "idle")
  /\ Goto(s, "state")
  /\ UNCHANGED <<provider, up, clock, oldest, consent, token, row, missed, unlisted, faults>>

\* getSyncState: an error counts as no state yet.
GetSyncState(s) ==
  /\ At(s, "state")
  /\ \/ Works /\ sync' = [sync EXCEPT ![s].pc = "client", ![s].token = token]
     \/ Fails /\ Goto(s, "client")
  /\ UNCHANGED <<provider, up, clock, oldest, consent, token, row, missed, unlisted>>

BuildClient(s) ==
  /\ At(s, "client")
  /\ \/ Works /\ Goto(s, "list")
     \/ Fails /\ End(s)
  /\ UNCHANGED <<provider, up, clock, oldest, consent, token, row, missed, unlisted>>

\* A full listing is bounded by a window of SyncWindowDays around now, and
\* Microsoft's token is one of that window: any of the events may be outside.
Windows(s) ==
  IF provider = "google" /\ sync[s].token # NoToken THEN {Events} ELSE SUBSET Events

\* What a list returns of them: everything, or what changed since the token.
Listed(s, window) ==
  {e \in window : IF sync[s].token = NoToken THEN up[e].status # "cancelled"
                                             ELSE up[e].changed > sync[s].token}

\* What the row of e should be.
Shown(e) == IF up[e].status = "cancelled" THEN NoRow ELSE up[e].changed

\* What it should return and does not, where the row is not the event: what is
\* outside the window, and what was deleted before everything is listed anew.
LeftOut(s, window) ==
  {e \in Events \ Listed(s, window) :
     (sync[s].token = NoToken \/ up[e].changed > sync[s].token) /\ row[e] # Shown(e)}

\* Variant: an expired token ends the sync.
ExpiredEnds(s) == End(s) /\ UNCHANGED <<consent, unlisted>>

\* 410: the stored token is cleared and everything listed anew.
Expired(s) == Goto(s, "clear") /\ UNCHANGED <<consent, unlisted>>

\* PersistingTokenSource.Token: a refused refresh marks the account revoked.
Refused(s) == consent # "granted" /\ consent' = "marked" /\ End(s) /\ UNCHANGED unlisted

\* RetryPolicy.Do: the call is made again, a bounded number of times.
Retried(s) ==
  \/ /\ sync[s].tries < MaxRetries
     /\ sync' = [sync EXCEPT ![s].tries = @ + 1]
  \/ End(s)

\* The list: all pages are there (PageFails is a page that is not).
List(s) ==
  /\ At(s, "list")
  /\ \/ /\ Works
        /\ \/ Refused(s)
           \/ /\ consent = "granted" /\ sync[s].token \in 1 .. oldest - 1
              /\ Expired(s)
           \/ /\ consent = "granted" /\ sync[s].token \notin 1 .. oldest - 1
              /\ \E window \in Windows(s) :
                   /\ sync' = [sync EXCEPT ![s].pc = "apply", ![s].upto = clock,
                                           ![s].todo = [e \in Listed(s, window) |-> up[e]]]
                   /\ unlisted' = unlisted \cup LeftOut(s, window)
              /\ UNCHANGED consent
     \/ Fails /\ Retried(s) /\ UNCHANGED <<consent, unlisted>>
  /\ UNCHANGED <<provider, up, clock, oldest, token, row, missed>>

ClearSyncState(s) ==
  /\ At(s, "clear")
  /\ \/ /\ Works
        /\ token' = NoToken
        /\ sync' = [sync EXCEPT ![s].pc = "list", ![s].token = NoToken, ![s].tries = 0]
     \/ Fails /\ End(s) /\ UNCHANGED token
  /\ UNCHANGED <<provider, up, clock, oldest, consent, row, missed, unlisted>>

-------------------------------------------------------------------------------
(* The items.                                                                *)

\* Both normalize functions refuse a time they cannot parse.  Microsoft's
\* statuses "free" and "outOfOffice" are none the table admits.
Storable(e, status) ==
  e \notin Malformed /\ (provider = "google" \/ status = "busy")

\* The item is applied, refused or fails; only the row changes.
Item(s, e, changed) ==
  LET event == sync[s].todo[e]
      stored == event.status = "cancelled" \/ Storable(e, event.status)
  IN \/ /\ Works /\ stored
        /\ row' = [row EXCEPT ![e] = IF event.status = "cancelled" THEN NoRow ELSE changed]
        /\ missed' = missed \ {e} /\ unlisted' = unlisted \ {e}
     \/ /\ IF stored THEN Fails ELSE Works
        /\ missed' = missed \cup {e}
        /\ UNCHANGED <<row, unlisted>>

\* deleteEvent or upsertEvent.
Apply(s, e) ==
  /\ At(s, "apply") /\ e \in DOMAIN sync[s].todo
  /\ Item(s, e, sync[s].todo[e].changed)
  /\ LET todo == sync[s].todo
     IN sync' = [sync EXCEPT ![s].todo = [i \in DOMAIN todo \ {e} |-> todo[i]]]
  /\ UNCHANGED <<provider, up, clock, oldest, consent, token>>

\* Google lists page by page: a later page fails after earlier ones have
\* been applied.  Microsoft collects all pages first.
PageFails(s) ==
  /\ At(s, "apply") /\ sync[s].todo # Idle.todo
  /\ provider = "google"
  /\ Fails
  /\ End(s)
  /\ UNCHANGED <<provider, up, clock, oldest, consent, token, row, missed, unlisted>>

SaveSyncState(s) ==
  /\ At(s, "apply") /\ sync[s].todo = Idle.todo
  /\ \/ Works /\ token' = sync[s].upto
     \/ Fails /\ UNCHANGED token
  /\ End(s)
  /\ UNCHANGED <<provider, up, clock, oldest, consent, row, missed, unlisted>>

\* The process dies, and the lock with its connection.
Crash(s) ==
  /\ ~At(s, "idle")
  /\ Fails
  /\ End(s)
  /\ UNCHANGED <<provider, up, clock, oldest, consent, token, row, missed, unlisted>>

Sync(s) ==
  \/ Begin(s) \/ GetSyncState(s) \/ BuildClient(s) \/ List(s) \/ ClearSyncState(s)
  \/ (\E e \in Events : Apply(s, e)) \/ SaveSyncState(s)
Next ==
  \/ \E s \in Syncs : Sync(s) \/ PageFails(s) \/ Crash(s)
  \/ \E e \in Events, status \in {"busy", "free", "cancelled"} : Change(e, status)
  \/ ExpireTokens \/ Revoke

Spec == Init /\ [][Next]_vars

\* The account is synced again and again, and a call ends.
FairSpec == Spec /\ \A s \in Syncs : WF_vars(Sync(s))

-------------------------------------------------------------------------------
(* Properties.                                                               *)

\* Every row shows its event as the token says, through expired tokens,
\* failed pages, crashes and syncs of other servers.  Two kinds of rows do
\* not, and no later sync repairs them unless the event changes again: what
\* could not be stored (google.go:118), and what a listing left out, which is
\* an event outside the window of a full listing (google.go:86) or one that
\* was deleted before everything was listed anew (sync.go:266).
Mirrored ==
  \A e \in Events :
    token # NoToken /\ up[e].changed <= token /\ e \notin missed \cup unlisted
      => row[e] = Shown(e)

\* The token catches up with every change unless the consent is revoked: an
\* expired token is replaced, and no failure is for ever.
CatchesUp == <>[](token = clock \/ consent # "granted")

\* Mirrored with the shape of the state (sync.go:315-374).
RowsMirrorEvents == TypeOK /\ Mirrored
===============================================================================
