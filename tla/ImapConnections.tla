--------------------------- MODULE ImapConnections ----------------------------
(***************************************************************************)
(* The registry of IMAP connections, one for each account                  *)
(* (email/connection/manager.go), and the Reconnector that replaces one    *)
(* after an error (reconnect.go).  The registry has one lock, held for a   *)
(* call; a reconnect makes two calls.                                      *)
(***************************************************************************)
EXTENDS Naturals, FiniteSets

CONSTANTS
  Accounts, Clients,    \* accounts, and client values
  Reconnects,           \* calls of Reconnect
  MaxConns, MaxAttempts,\* maxConns, and the attempts of a reconnect (10)
  MaxReplaced           \* bound

None == "none"

ConnectionsAssumption ==
  /\ {MaxConns, MaxAttempts} \subseteq Nat \ {0} /\ MaxReplaced \in Nat
  /\ None \notin Clients

VARIABLES
  connections,  \* connections[a]: the client registered for a, if any
  status,       \* status[a]: of that connection
  open,         \* clients with an open socket
  reconnect,    \* reconnect[r]: how far, which account, attempts, its client
  replaced      \* history: calls of Register for an account that has an entry

vars == <<connections, status, open, reconnect, replaced>>

\* The shape of the state.
TypeOK ==
  /\ connections \in [Accounts -> Clients \cup {None}]
  /\ status \in [Accounts -> {"connected", "error"}]
  /\ open \subseteq Clients
  /\ reconnect \in [Reconnects -> [pc : {"idle", "dial", "remove", "register", "done", "failed"},
                                   account : Accounts \cup {None}, attempt : 0 .. MaxAttempts,
                                   client : Clients \cup {None}]]
  /\ replaced \in 0 .. MaxReplaced

Init ==
  /\ connections = [a \in Accounts |-> None] /\ status = [a \in Accounts |-> "connected"]
  /\ open = {} /\ replaced = 0
  /\ reconnect = [r \in Reconnects |-> [pc |-> "idle", account |-> None, attempt |-> 0, client |-> None]]

Registered == {a \in Accounts : connections[a] # None}
Count == Cardinality(Registered)
ActiveCount == Cardinality({a \in Registered : status[a] = "connected"})
ErrorCount == Count - ActiveCount
Held == {reconnect[r].client : r \in {q \in Reconnects : reconnect[q].pc \in {"remove", "register"}}}
Goto(r, pc) == reconnect' = [reconnect EXCEPT ![r].pc = pc]

\* The limit counts the account's own entry too, which would be replaced.
Full == Count >= MaxConns
Put(a, client) ==
  connections' = [connections EXCEPT ![a] = client] /\ status' = [status EXCEPT ![a] = "connected"]

\* A connection is dialled and registered, and closed again if refused.  An entry
\* the account has is overwritten, and its client neither closed nor kept.
Register(a, client) ==
  /\ client \notin open \cup Held /\ ~Full
  /\ Put(a, client) /\ open' = open \cup {client} /\ UNCHANGED reconnect
  /\ IF a \in Registered THEN replaced < MaxReplaced /\ replaced' = replaced + 1
     ELSE UNCHANGED replaced
\* Remove closes what there is.
Removed(a) == /\ connections' = [connections EXCEPT ![a] = None]
              /\ open' = open \ {connections[a]}
Remove(a) == a \in Registered /\ Removed(a) /\ UNCHANGED <<status, reconnect, replaced>>
SetError(a) ==
  /\ a \in Registered /\ status' = [status EXCEPT ![a] = "error"]
  /\ UNCHANGED <<connections, open, reconnect, replaced>>
CloseAll ==
  /\ Registered # {} /\ connections' = [a \in Accounts |-> None]
  /\ open' = open \ {connections[a] : a \in Registered} /\ UNCHANGED <<status, reconnect, replaced>>

-------------------------------------------------------------------------------
(* Reconnect.                                                                *)

Begin(r, a) ==
  /\ reconnect[r].pc = "idle" /\ status[a] = "error"
  /\ reconnect' = [reconnect EXCEPT ![r].pc = "dial", ![r].account = a]
  /\ UNCHANGED <<connections, status, open, replaced>>
Dial(r) ==
  /\ reconnect[r].pc = "dial"
  /\ \/ \E client \in Clients \ (open \cup Held) :
          /\ open' = open \cup {client}
          /\ reconnect' = [reconnect EXCEPT ![r].pc = "remove", ![r].client = client]
     \/ /\ UNCHANGED open
        /\ reconnect' = [reconnect EXCEPT ![r].attempt = @ + 1,
                           ![r].pc = IF reconnect[r].attempt + 1 >= MaxAttempts THEN "failed" ELSE "dial"]
  /\ UNCHANGED <<connections, status, replaced>>
\* The context ends while it waits.
Cancelled(r) ==
  /\ reconnect[r].pc = "dial" /\ Goto(r, "failed") /\ UNCHANGED <<connections, status, open, replaced>>
RemoveOld(r) ==
  /\ reconnect[r].pc = "remove" /\ Goto(r, "register")
  /\ IF reconnect[r].account \in Registered THEN Removed(reconnect[r].account)
     ELSE UNCHANGED <<connections, open>>
  /\ UNCHANGED <<status, replaced>>
RegisterNew(r) ==
  /\ reconnect[r].pc = "register" /\ UNCHANGED replaced
  /\ IF Full
     THEN /\ open' = open \ {reconnect[r].client} /\ Goto(r, "failed")
          /\ UNCHANGED <<connections, status>>
     ELSE /\ Put(reconnect[r].account, reconnect[r].client) /\ Goto(r, "done") /\ UNCHANGED open

Next ==
  \/ \E a \in Accounts : Remove(a) \/ SetError(a) \/ \E c \in Clients : Register(a, c)
  \/ CloseAll
  \/ \E r \in Reconnects :
       \/ Dial(r) \/ Cancelled(r) \/ RemoveOld(r) \/ RegisterNew(r)
       \/ \E a \in Accounts : Begin(r, a)

Spec == Init /\ [][Next]_vars

-------------------------------------------------------------------------------
\* "Each email account gets exactly one persistent connection" (manager.go:49):
\* the entries are open and of one account each, and no more than maxConns; a
\* connection that is open and in nobody's hands was overwritten, one by each
\* Register of an account that had an entry, and one by each reconnect, between
\* whose Remove and Register another connection came in.
Lost == open \ (Held \cup {connections[a] : a \in Registered})
OneConnection ==
  /\ Count <= MaxConns
  /\ \A a, b \in Registered : connections[a] \in open /\ (connections[a] = connections[b] => a = b)
  /\ Cardinality(Lost) <= replaced + Cardinality({r \in Reconnects : reconnect[r].pc = "done"})

\* The shape of the state, and the above.
ConnectionsHeld == TypeOK /\ OneConnection
===============================================================================
