----------------------------- MODULE AuthSessions -----------------------------
(***************************************************************************)
(* Signing in and out of one user: the count of failed logins with its     *)
(* lock (auth/lockout.go), the rows of the sessions (auth/sessions.go),    *)
(* and the sessions the identity provider itself holds                     *)
(* (auth/supabase.go), as api/auth_handlers.go drives them.                *)
(***************************************************************************)
EXTENDS Integers, FiniteSets, Sequences, Functions

CONSTANTS
  Sessions, Logins, Trackers, Revokes,  \* sessions and requests
  MaxFailed, Lockout,                   \* attempts (10), and how long the lock lasts (30 min)
  MaxSessions,                          \* concurrent sessions (5)
  MaxTime, MaxFaults, MaxRaces          \* bounds

AuthAssumption ==
  /\ {MaxFailed, Lockout, MaxSessions} \subseteq Nat \ {0}
  /\ {MaxTime, MaxFaults, MaxRaces} \subseteq Nat
  /\ IsFiniteSet(Logins) /\ IsFiniteSet(Trackers) /\ IsFiniteSet(Revokes)

VARIABLES
  rows,     \* auth_sessions, the one longest inactive first
  live,     \* the sessions the provider knows
  tracker,  \* tracker[t]: TrackSession and what it has read
  raced,    \* history: calls of it that began while another was under way
  revoke,   \* revoke[v]: the request that signs out, the sessions there were,
            \* and those it keeps
  failed,   \* auth_lockouts.failed_attempts, 0 without a row
  until,    \* auth_lockouts.locked_until, 0 for NULL
  login,    \* login[l]: Login and how far it is
  now, faults

vars == <<rows, live, tracker, raced, revoke, failed, until, login, now, faults>>
sessions == <<rows, live, tracker, raced, revoke>>
lock == <<failed, until>>

None == "none"

\* The shape of the state.
TypeOK ==
  /\ rows \in Seq(Sessions) /\ IsInjective(rows) /\ live \subseteq Sessions
  /\ tracker \in [Trackers -> [pc : {"idle", "oldest", "delete", "insert"},
                               session : Sessions \cup {None}, oldest : Sessions \cup {None}]]
  /\ revoke \in [Revokes -> [pc : {"idle", "sign_out", "done", "failed"},
                             of : SUBSET Sessions, keep : SUBSET Sessions]]
  /\ failed \in Nat /\ until \in 0 .. MaxTime + Lockout
  /\ login \in [Logins -> {"idle", "checked", "right", "wrong"}]
  /\ now \in 0 .. MaxTime /\ faults \in 0 .. MaxFaults /\ raced \in 0 .. MaxRaces

Rest == [pc |-> "idle", session |-> None, oldest |-> None]
Init ==
  /\ rows = <<>> /\ live \in SUBSET Sessions
  /\ tracker = [t \in Trackers |-> Rest]
  /\ revoke = [v \in Revokes |-> [pc |-> "idle", of |-> {}, keep |-> {}]]
  /\ failed = 0 /\ until = 0 /\ login = [l \in Logins |-> "idle"] /\ now = 0 /\ faults = 0 /\ raced = 0

Fault == faults < MaxFaults /\ faults' = faults + 1
Tick ==
  /\ now < MaxTime /\ now' = now + 1 /\ UNCHANGED <<sessions, lock, login, faults>>

-------------------------------------------------------------------------------
(* Login: the lock, the provider, and the count.  An error of the database   *)
(* is logged at most.                                                        *)

Locked == until > now
CheckLocked(l) ==
  /\ login[l] = "idle"
  /\ Locked => Fault
  /\ ~Locked => UNCHANGED faults
  /\ login' = [login EXCEPT ![l] = "checked"]
  /\ UNCHANGED <<sessions, lock, now>>
Fresh == Sessions \ (live \cup Range(rows) \cup UNION {revoke[v].of : v \in Revokes})
\* The provider's own error counts as a wrong password.
Login(l) ==
  /\ login[l] = "checked"
  /\ \/ login' = [login EXCEPT ![l] = "wrong"] /\ UNCHANGED live
     \/ \E s \in Fresh :
          login' = [login EXCEPT ![l] = "right"] /\ live' = live \cup {s}
  /\ UNCHANGED <<rows, tracker, raced, revoke, lock, now, faults>>
\* Variant: the lock is set when the limit is passed.
RecordFailureLate(l) ==
  /\ login[l] = "wrong" /\ login' = [login EXCEPT ![l] = "idle"]
  /\ failed' = failed + 1
  /\ until' = IF failed >= MaxFailed THEN now + Lockout ELSE until
  /\ UNCHANGED <<sessions, now, faults>>
\* The count goes on after a lock has expired: the next failure locks again.
RecordFailure(l) ==
  /\ login[l] = "wrong" /\ login' = [login EXCEPT ![l] = "idle"]
  /\ \/ /\ failed' = failed + 1
        /\ until' = IF failed + 1 >= MaxFailed THEN now + Lockout ELSE until
        /\ UNCHANGED faults
     \/ Fault /\ UNCHANGED lock
  /\ UNCHANGED <<sessions, now>>
ClearLockout(l) ==
  /\ login[l] = "right" /\ login' = [login EXCEPT ![l] = "idle"]
  /\ \/ failed' = 0 /\ until' = 0 /\ UNCHANGED faults
     \/ Fault /\ UNCHANGED lock
  /\ UNCHANGED <<sessions, now>>

-------------------------------------------------------------------------------
(* TrackSession: the count, the oldest, its deletion, the insert.            *)

SetTracker(t, v) == tracker' = [tracker EXCEPT ![t] = v]
\* It counts even when the session has a row already.
CountSessions(t, s) ==
  /\ tracker[t].pc = "idle" /\ s \in live
  /\ SetTracker(t, [pc |-> IF Len(rows) >= MaxSessions THEN "oldest" ELSE "insert",
                    session |-> s, oldest |-> None])
  /\ IF \A o \in Trackers : tracker[o].pc = "idle" THEN UNCHANGED raced
     ELSE raced < MaxRaces /\ raced' = raced + 1
  /\ UNCHANGED <<rows, live, revoke, lock, login, now, faults>>
\* Without any row the request ends here.
Oldest(t) ==
  /\ tracker[t].pc = "oldest"
  /\ SetTracker(t, IF rows = <<>> THEN Rest
                   ELSE [tracker[t] EXCEPT !.pc = "delete", !.oldest = rows[1]])
  /\ UNCHANGED <<rows, live, raced, revoke, lock, login, now, faults>>
\* The row of a session, which has one at most, goes.
Without(s) ==
  IF s \notin Range(rows) THEN rows
  ELSE LET at == CHOOSE i \in DOMAIN rows : rows[i] = s
       IN [i \in 1 .. Len(rows) - 1 |-> IF i < at THEN rows[i] ELSE rows[i + 1]]
\* Its error is not looked at.
DeleteOldest(t) ==
  /\ tracker[t].pc = "delete" /\ SetTracker(t, [tracker[t] EXCEPT !.pc = "insert", !.oldest = None])
  /\ \/ rows' = Without(tracker[t].oldest) /\ UNCHANGED faults
     \/ Fault /\ UNCHANGED rows
  /\ UNCHANGED <<live, raced, revoke, lock, login, now>>
\* The row becomes the one last active.
Touched(s) == Append(Without(s), s)
InsertSession(t) ==
  /\ tracker[t].pc = "insert" /\ SetTracker(t, Rest)
  /\ rows' = Touched(tracker[t].session)
  /\ UNCHANGED <<live, raced, revoke, lock, login, now, faults>>
\* Finding the oldest or the insert fails: the error ends the request.
TrackFails(t) ==
  /\ tracker[t].pc \in {"oldest", "insert"} /\ SetTracker(t, Rest) /\ Fault
  /\ UNCHANGED <<rows, live, raced, revoke, lock, login, now>>
UpdateLastActive(s) ==
  /\ s \in Range(rows) /\ rows' = Touched(s)
  /\ UNCHANGED <<live, tracker, raced, revoke, lock, login, now, faults>>

-------------------------------------------------------------------------------
(* The ends of a session.                                                    *)

ListSessions == [i \in DOMAIN rows |-> rows[Len(rows) + 1 - i]]
\* Its row goes, the session of the provider stays.
RevokeSession(s) ==
  /\ s \in Range(ListSessions) /\ rows' = Without(s)
  /\ UNCHANGED <<live, tracker, raced, revoke, lock, login, now, faults>>
\* The other way round.
Logout(s) ==
  /\ s \in live
  /\ \/ live' = live \ {s} /\ UNCHANGED faults
     \/ Fault /\ UNCHANGED live
  /\ UNCHANGED <<rows, tracker, raced, revoke, lock, login, now>>

Begin(v, keep) ==
  /\ revoke[v].pc = "idle"
  /\ revoke' = [revoke EXCEPT ![v] = [pc |-> "sign_out", of |-> live, keep |-> keep]]
RevokeAll(v) ==
  /\ Begin(v, {}) /\ rows' = <<>> /\ UNCHANGED <<live, tracker, raced, lock, login, now, faults>>
\* The session s has set a new password; the others are to end.
UpdatePassword(v, s) ==
  /\ s \in live /\ Begin(v, {s}) /\ UNCHANGED <<rows, live, tracker, raced, lock, login, now, faults>>
\* A session that began since ends as well.  Whatever its status an answer of
\* the provider is a success, and the change of the password is answered so
\* without any answer too: a call that failed may leave every session alive.
SignOutUser(v) ==
  /\ revoke[v].pc = "sign_out"
  /\ \/ /\ live' = live \cap revoke[v].keep /\ UNCHANGED faults
        /\ revoke' = [revoke EXCEPT ![v].pc = "done"]
     \/ /\ Fault /\ UNCHANGED live
        /\ \E pc \in {"done", "failed"} :
             /\ pc = "failed" => revoke[v].keep = {}
             /\ revoke' = [revoke EXCEPT ![v].pc = pc]
  /\ UNCHANGED <<rows, tracker, raced, lock, login, now>>

Next ==
  \/ Tick
  \/ \E l \in Logins : CheckLocked(l) \/ Login(l) \/ RecordFailure(l) \/ ClearLockout(l)
  \/ \E t \in Trackers :
       \/ Oldest(t) \/ DeleteOldest(t) \/ InsertSession(t) \/ TrackFails(t)
       \/ \E s \in Sessions : CountSessions(t, s)
  \/ \E s \in Sessions : UpdateLastActive(s) \/ RevokeSession(s) \/ Logout(s)
  \/ \E v \in Revokes : RevokeAll(v) \/ SignOutUser(v) \/ \E s \in Sessions : UpdatePassword(v, s)

Spec == Init /\ [][Next]_vars

-------------------------------------------------------------------------------
\* TrackSession counts and inserts in two statements: each request that overlaps
\* with another, and each deletion that fails, may leave one row more than the
\* limit, which no later request takes away again (sessions.go:46-75).
SessionsBounded == Len(rows) <= MaxSessions + raced + faults

\* However logins overlap, no more failures reach the provider than the limit
\* and one for each other login that had looked before, as often as a lock has
\* run out, and one for each failed look (lockout.go:27-60).
AttemptsBounded ==
  failed <= MaxFailed - 1 + Cardinality(Logins) * (1 + now \div Lockout) + faults

\* A sign-out answered with a success though sessions that were to end are alive.
LeftAlive == {v \in Revokes : revoke[v].pc = "done" /\ ~(revoke[v].of \cap live \subseteq revoke[v].keep)}

\* However logins, logouts and other sign-outs overlap with it, a sign-out that
\* was answered leaves of the sessions there were only the one that changed its
\* password: but for one answer for each call the provider refused, which the
\* user is not told (sessions.go:124, auth_handlers.go:232, supabase.go:113-118).
SignedOut == Cardinality(LeftAlive) <= faults

\* The shape of the state, and the three above.
LimitsHold == TypeOK /\ SessionsBounded /\ AttemptsBounded /\ SignedOut
===============================================================================
