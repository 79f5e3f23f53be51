------------------------------- MODULE Accounts -------------------------------
(***************************************************************************)
(* The mail accounts of one user: connecting a mailbox with its password   *)
(* and deleting it (api/account_handlers.go, email/credentials.go), and    *)
(* the OAuth popup whose tokens are stored per provider                    *)
(* (api/oauth_popup_handlers.go, api/auth_handlers.go, auth/providers.go). *)
(***************************************************************************)
EXTENDS Naturals, FiniteSets

CONSTANTS Ids, Addresses, Providers,
          Connects, Deletes, Popups,  \* requests
          MaxFaults                   \* bound

NoRow == "none"

AccountsAssumption ==
  MaxFaults \in Nat /\ NoRow \notin Ids \cup Addresses /\ IsFiniteSet(Popups)

VARIABLES
  account,  \* account[i]: the address of the row of user_accounts
  secret,   \* accounts with a row of email_credentials
  mail,     \* accounts with rows of emails
  session,  \* accounts whose password a sync has read
  connect, delete, popup,  \* the requests and how far they are
  tokens,   \* tokens[p]: of oauth_provider_tokens, whose they are and
            \* whose they are said to be
  faults

vars == <<account, secret, mail, session, connect, delete, popup, tokens, faults>>
imap == <<account, secret, mail, session, connect, delete>>
oauth == <<popup, tokens>>

Rows == {i \in Ids : account[i] # NoRow}
OfAddress(a) == {i \in Rows : account[i] = a}

\* The shape of the state.
TypeOK ==
  /\ account \in [Ids -> Addresses \cup {NoRow}]
  /\ secret \subseteq Rows /\ mail \subseteq Rows /\ session \subseteq Ids
  /\ connect \in [Connects -> [pc : {"idle", "insert", "store", "done", "exists", "failed", "lost"},
                               address : Addresses \cup {NoRow}, id : Ids \cup {NoRow}]]
  /\ delete \in [Deletes -> [pc : {"idle", "account", "done", "refused", "failed"},
                             id : Ids \cup {NoRow}]]
  /\ popup \in [Popups -> [pc : {"idle", "consent", "tokens", "ensure", "connected", "closed"},
                           provider : Providers \cup {NoRow}, address : Addresses \cup {NoRow},
                           told : BOOLEAN]]
  /\ tokens \in [Providers -> {NoRow} \X {NoRow} \cup Addresses \X (Addresses \cup {NoRow})]
  /\ faults \in 0 .. MaxFaults

Init ==
  /\ account = [i \in Ids |-> NoRow] /\ secret = {} /\ mail = {} /\ session = {}
  /\ connect = [c \in Connects |-> [pc |-> "idle", address |-> NoRow, id |-> NoRow]]
  /\ delete = [d \in Deletes |-> [pc |-> "idle", id |-> NoRow]]
  /\ popup = [p \in Popups |-> [pc |-> "idle", provider |-> NoRow, address |-> NoRow, told |-> FALSE]]
  /\ tokens = [p \in Providers |-> <<NoRow, NoRow>>] /\ faults = 0

Fault == faults < MaxFaults /\ faults' = faults + 1

-------------------------------------------------------------------------------
(* HandleConnectIMAP: a look, the row, the password, which is stored over    *)
(* another connection.  Nothing makes an address unique.                     *)

\* An error of the look counts as an account that does not exist.
CheckExists(c, a) ==
  /\ connect[c].pc = "idle"
  /\ \/ UNCHANGED faults /\ connect' = [connect EXCEPT ![c].address = a,
                               ![c].pc = IF OfAddress(a) = {} THEN "insert" ELSE "exists"]
     \/ Fault /\ connect' = [connect EXCEPT ![c].address = a, ![c].pc = "insert"]
  /\ UNCHANGED <<account, secret, mail, session, delete, oauth>>

InsertAccount(c) ==
  /\ connect[c].pc = "insert"
  /\ \E i \in Ids \ Rows :
       /\ \A o \in Connects : connect[o].id # i
       /\ account' = [account EXCEPT ![i] = connect[c].address]
       /\ connect' = [connect EXCEPT ![c].pc = "store", ![c].id = i]
  /\ UNCHANGED <<secret, mail, session, delete, oauth, faults>>
\* The row may be deleted by now: the password then has no account.
StoreCredential(c) ==
  /\ connect[c].pc = "store"
  /\ secret' = secret \cup ({connect[c].id} \cap Rows)
  /\ connect' = [connect EXCEPT ![c].pc = IF connect[c].id \in Rows THEN "done" ELSE "failed"]
  /\ UNCHANGED <<account, mail, session, delete, oauth, faults>>
\* Variant: the row stays.
StoreFailsKeeps(c) ==
  /\ connect[c].pc = "store" /\ Fault
  /\ connect' = [connect EXCEPT ![c].pc = "failed"]
  /\ UNCHANGED <<account, secret, mail, session, delete, oauth>>
\* The row is deleted again, unless the context or the process ended too.
StoreFails(c) ==
  /\ connect[c].pc = "store" /\ Fault
  /\ \/ /\ account' = [account EXCEPT ![connect[c].id] = NoRow]
        /\ connect' = [connect EXCEPT ![c].pc = "failed"]
     \/ UNCHANGED account /\ connect' = [connect EXCEPT ![c].pc = "lost"]
  /\ UNCHANGED <<secret, mail, session, delete, oauth>>

-------------------------------------------------------------------------------
(* HandleDeleteAccount: the password, whose errors are ignored, and the row, *)
(* which the rows of emails hold (004_emails.up.sql:5 has no cascade).       *)

DeleteCredential(d, i) ==
  /\ delete[d].pc = "idle"
  /\ delete' = [delete EXCEPT ![d] = [pc |-> "account", id |-> i]]
  /\ \/ secret' = secret \ {i} /\ UNCHANGED faults
     \/ Fault /\ UNCHANGED secret
  /\ UNCHANGED <<account, mail, session, connect, oauth>>
DeleteAccount(d) ==
  /\ delete[d].pc = "account"
  /\ LET i == delete[d].id IN
     \/ /\ i \in mail
        /\ delete' = [delete EXCEPT ![d].pc = "refused"]
        /\ UNCHANGED <<account, secret, faults>>
     \/ /\ i \notin mail
        /\ delete' = [delete EXCEPT ![d].pc = "done"]
        /\ account' = [account EXCEPT ![i] = NoRow] /\ secret' = secret \ {i}
        /\ UNCHANGED faults
     \/ /\ Fault
        /\ delete' = [delete EXCEPT ![d].pc = "failed"]
        /\ UNCHANGED <<account, secret>>
  /\ UNCHANGED <<mail, session, connect, oauth>>

HandleListAccounts == {account[i] : i \in Rows}

\* A sync decrypts the password and stores mail later.
GetCredential(i) ==
  /\ i \in secret \ session /\ session' = session \cup {i}
  /\ UNCHANGED <<account, secret, mail, connect, delete, oauth, faults>>
StoreMail(i) ==
  /\ i \in session /\ session' = session \ {i} /\ mail' = mail \cup ({i} \cap Rows)
  /\ UNCHANGED <<account, secret, connect, delete, oauth, faults>>

-------------------------------------------------------------------------------
(* The popup: consent, callback, and the page hands the tokens to the one    *)
(* that opened it, which posts them to connectProvider.                      *)

SetPopup(p, pc) == popup' = [popup EXCEPT ![p].pc = pc]
HandleOAuthStart(p, provider) ==
  /\ popup[p].pc = "idle"
  /\ popup' = [popup EXCEPT ![p].pc = "consent", ![p].provider = provider]
  /\ UNCHANGED <<imap, tokens, faults>>
\* The user denies it, the code is not exchanged, or there are tokens of a
\* mailbox, whose address the provider tells or not.
HandleOAuthCallback(p) ==
  /\ popup[p].pc = "consent"
  /\ \/ SetPopup(p, "closed")
     \/ \E a \in Addresses, told \in BOOLEAN :
          popup' = [popup EXCEPT ![p].pc = "tokens", ![p].address = a, ![p].told = told]
  /\ UNCHANGED <<imap, tokens, faults>>

\* One row per provider; the address of the first stays on a conflict, and the
\* empty one with it.  Without an address there is no account to ensure.
StoreTokens(p) ==
  /\ popup[p].pc = "tokens"
  /\ LET a == popup[p].address  told == popup[p].told  old == tokens[popup[p].provider]
         first == IF told THEN a ELSE NoRow
     IN tokens' = [tokens EXCEPT ![popup[p].provider] =
                     <<a, IF old = <<NoRow, NoRow>> THEN first ELSE old[2]>>]
  /\ SetPopup(p, IF popup[p].told THEN "ensure" ELSE "connected")
  /\ UNCHANGED <<imap, faults>>
\* The scopes do not suffice, or the INSERT fails.
StoreTokensFails(p) ==
  /\ popup[p].pc = "tokens" /\ SetPopup(p, "closed") /\ UNCHANGED <<imap, tokens, faults>>
\* Its INSERT names a conflict target that no constraint has, and a provider
\* the check of the table refuses: it never creates an account.  The error is
\* a warning, and the answer is "connected".
EnsureEmailAccount(p) ==
  /\ popup[p].pc = "ensure" /\ SetPopup(p, "connected") /\ UNCHANGED <<imap, tokens, faults>>
GetTokens(provider) == [of |-> tokens[provider][1], address |-> tokens[provider][2]]
DisconnectProvider(provider) ==
  /\ tokens[provider] # <<NoRow, NoRow>>
  /\ tokens' = [tokens EXCEPT ![provider] = <<NoRow, NoRow>>] /\ UNCHANGED <<imap, popup, faults>>

Next ==
  \/ \E c \in Connects :
       \/ InsertAccount(c) \/ StoreCredential(c) \/ StoreFails(c)
       \/ \E a \in Addresses : CheckExists(c, a)
  \/ \E d \in Deletes : DeleteAccount(d) \/ \E i \in Rows : DeleteCredential(d, i)
  \/ \E i \in Ids : GetCredential(i) \/ StoreMail(i)
  \/ \E p \in Popups : HandleOAuthCallback(p) \/ StoreTokens(p) \/ StoreTokensFails(p)
                        \/ EnsureEmailAccount(p)
  \/ \E p \in Popups, provider \in Providers : HandleOAuthStart(p, provider)
  \/ \E provider \in Providers : DisconnectProvider(provider)

Spec == Init /\ [][Next]_vars

-------------------------------------------------------------------------------
\* An account has no password only while it is connected or deleted, when its
\* request was cut off, or when its deletion failed after that of the password:
\* with an error, or refused for its mail, and then it can neither be used, nor
\* deleted, nor connected again (account_handlers.go:251).
PasswordKept ==
  \A i \in Rows \ secret :
    \/ \E c \in Connects : connect[c].id = i /\ connect[c].pc \in {"store", "lost"}
    \/ \E d \in Deletes : /\ delete[d].id = i
                          /\ \/ delete[d].pc \in {"account", "failed"}
                             \/ delete[d].pc = "refused" /\ i \in mail

\* A mailbox answered as connected is listed and can be used, until it is itself deleted: no other
\* request's rollback or deletion reaches it (account_handlers.go:196-203).
AnsweredStands ==
  \A c \in Connects : connect[c].pc = "done" =>
    \/ connect[c].id \in secret /\ connect[c].address \in HandleListAccounts
    \/ \E d \in Deletes : delete[d].id = connect[c].id

\* Tokens are shown under another address than theirs only after two popups of
\* that provider (providers.go:60-67).
NamedAfterFirst ==
  \A provider \in Providers : GetTokens(provider).address \notin {GetTokens(provider).of, NoRow} =>
    Cardinality({p \in Popups : popup[p].provider = provider
                                /\ popup[p].pc \in {"ensure", "connected"}}) > 1

\* The shape of the state, and the three above.
AccountsKept == TypeOK /\ PasswordKept /\ AnsweredStands /\ NamedAfterFirst
===============================================================================
