----------------------------- MODULE AccessProofs -----------------------------
(***************************************************************************)
(* Proofs about the parts of MCAccess, each for any values of its          *)
(* constants: the steps of a part keep its invariant while the behaviour   *)
(* is of that part.                                                        *)
(***************************************************************************)
EXTENDS MCAccess, FiniteSetTheorems, SequenceTheorems, TLAPS
-------------------------------------------------------------------------------
(* Mail accounts.                                                          *)

None == A!NoRow
Requested == [pc : {"idle", "insert", "store", "done", "exists", "failed", "lost"},
              address : Addresses \cup {None}, id : Ids \cup {None}]
Deletion == [pc : {"idle", "account", "done", "refused", "failed"}, id : Ids \cup {None}]
Consent == [pc : {"idle", "consent", "tokens", "ensure", "connected", "closed"},
            provider : Providers \cup {None}, address : Addresses \cup {None}, told : BOOLEAN]

\* Some deletion has had the account i.
Deleted(i) == \E d \in Deletes : delete[d].id = i /\ delete[d].pc # "idle"

\* A connect has a row from its insert on, which it alone may give a password
\* until it has stored it.
ConnectOK(d) ==
  /\ d.pc # "idle" => d.address \in Addresses
  /\ d.pc \in {"idle", "insert", "exists"} => d.id = None
  /\ d.pc = "store" => d.id \in Ids /\ account[d.id] \in {d.address, None}
  /\ d.pc = "done" => Deleted(d.id) \/ (d.id \in secret /\ account[d.id] = d.address)

\* Why an account has no password.
Awaited(i) == \E c \in Processes : connect[c].id = i /\ connect[c].pc \in {"store", "lost"}
Emptied(i) ==
  \E d \in Deletes : /\ delete[d].id = i
                     /\ delete[d].pc \in {"account", "failed"} \/ (delete[d].pc = "refused" /\ i \in mail)

\* No two connects have the same row.
OwnRow == \A c, o \in Processes : connect[c].id = connect[o].id /\ connect[c].id # None => c = o

\* Only of a connect that has stored its password is there anything more.
StoredFirst ==
  \A i \in secret \cup session \cup mail :
    \E c \in Processes : connect[c].id = i /\ connect[c].pc # "store"

ConsentOK(d) ==
  /\ d.pc # "idle" => d.provider \in Providers
  /\ d.pc = "tokens" => d.address \in Addresses

\* The popups that have stored tokens of the provider.
StoredBy(provider) ==
  {p \in Processes : popup[p].provider = provider /\ popup[p].pc \in {"ensure", "connected"}}

\* Whose tokens are, and whose they are said to be if anyone's, some popup brought.
AddressesOf(popups) == {popup[p].address : p \in popups}
Brought ==
  \A provider \in Providers : tokens[provider] # <<None, None>> =>
    tokens[provider] \in AddressesOf(StoredBy(provider)) \X (AddressesOf(StoredBy(provider)) \cup {None})
TokenRows == ({None} \X {None}) \cup (Addresses \X (Addresses \cup {None}))

AccountsInv ==
  /\ A!TypeOK /\ A!PasswordKept
  /\ \A c \in Processes : ConnectOK(connect[c])
  /\ \A d \in Deletes : delete[d].pc # "idle" => delete[d].id \in Ids
  /\ OwnRow /\ StoredFirst
  /\ \A p \in Processes : ConsentOK(popup[p])
  /\ Brought

LEMMA AccountsTypes ==
  ASSUME A!AccountsAssumption, A!TypeOK
  PROVE  /\ account \in [Ids -> Addresses \cup {None}] /\ None \notin Ids \cup Addresses
         /\ connect \in [Processes -> Requested] /\ delete \in [Deletes -> Deletion]
         /\ popup \in [Processes -> Consent]
         /\ tokens \in [Providers -> TokenRows]
         /\ fault \in 0 .. MaxFaults /\ MaxFaults \in Nat
         /\ A!Rows = {i \in Ids : account[i] # None}
         /\ secret \subseteq A!Rows /\ mail \subseteq A!Rows /\ session \subseteq Ids
  BY DEF A!TypeOK, A!AccountsAssumption, None, Requested, Deletion, Consent, TokenRows, A!Rows

LEMMA KeptMeans ==
  /\ A!PasswordKept <=> \A i \in A!Rows \ secret : Awaited(i) \/ Emptied(i)
  /\ A!PasswordKept' <=> \A i \in A!Rows' \ secret' : Awaited(i)' \/ Emptied(i)'
  BY DEF A!PasswordKept, Awaited, Emptied

LEMMA AccountsFault ==
  ASSUME A!AccountsAssumption, A!TypeOK, A!Fault \/ UNCHANGED fault
  PROVE  fault' \in 0 .. MaxFaults
  BY DEF A!TypeOK, A!AccountsAssumption, A!Fault

\* The popups and the tokens do not meet the mailboxes.
LEMMA OauthKept ==
  ASSUME AccountsInv, UNCHANGED <<popup, tokens>>
  PROVE  (\A p \in Processes : ConsentOK(popup[p]))' /\ Brought'
  BY DEF AccountsInv, ConsentOK, Brought, StoredBy, AddressesOf

\* A connect that moves alone, with the row it has or a row nobody has had.
LEMMA ConnectMoves ==
  ASSUME A!AccountsAssumption, AccountsInv, NEW c \in Processes, NEW d \in Requested,
         connect' = [connect EXCEPT ![c] = d], d.id = connect[c].id \/ connect[c].id = None,
         \A o \in Processes : d.id # None /\ connect[o].id = d.id => o = c,
         d.pc = "store" => d.id \notin secret \cup session \cup mail
  PROVE  /\ connect' \in [Processes -> Requested] /\ OwnRow'
         /\ \A o \in Processes : connect'[o] = IF o = c THEN d ELSE connect[o]
         /\ \A i \in secret \cup session \cup mail :
              \E o \in Processes : connect'[o].id = i /\ connect'[o].pc # "store"
<1>1. /\ connect \in [Processes -> Requested] /\ None \notin Ids
      /\ secret \cup session \cup mail \subseteq Ids
  BY AccountsTypes DEF AccountsInv
<1>2. /\ connect' \in [Processes -> Requested]
      /\ \A o \in Processes : connect'[o] = IF o = c THEN d ELSE connect[o]
  BY <1>1
<1>3. OwnRow'
  BY <1>2 DEF AccountsInv, OwnRow
<1>4. ASSUME NEW i \in secret \cup session \cup mail
      PROVE  \E o \in Processes : connect'[o].id = i /\ connect'[o].pc # "store"
  <2>1. PICK o \in Processes : connect[o].id = i /\ connect[o].pc # "store"
    BY DEF AccountsInv, StoredFirst
  <2>2. CASE o = c
    BY <1>1, <1>2, <2>1, <2>2
  <2>3. CASE o # c
    BY <1>2, <2>1, <2>3
  <2>4. QED
    BY <2>2, <2>3
<1>5. QED
  BY <1>2, <1>3, <1>4

LEMMA CheckExistsStep ==
  ASSUME A!AccountsAssumption, AccountsInv, NEW c \in Processes, NEW a \in Addresses,
         A!CheckExists(c, a)
  PROVE  AccountsInv'
<1>1. /\ connect \in [Processes -> Requested] /\ None \notin Ids /\ connect[c].pc = "idle"
      /\ connect[c].id = None
  BY AccountsTypes DEF AccountsInv, A!CheckExists, ConnectOK
<1>2. UNCHANGED <<account, secret, mail, session, delete, popup, tokens>>
      /\ (A!Fault \/ UNCHANGED fault)
  BY DEF A!CheckExists, A!oauth
<1>3. PICK pc \in {"insert", "exists"} :
        connect' = [connect EXCEPT ![c].address = a, ![c].pc = pc]
  BY DEF A!CheckExists
<1>4. PICK d \in Requested : connect' = [connect EXCEPT ![c] = d] /\ d.pc = pc /\ d.id = None
                              /\ d.address = a
  BY <1>1, <1>3 DEF Requested
<1>5. /\ connect' \in [Processes -> Requested] /\ OwnRow'
      /\ \A o \in Processes : connect'[o] = IF o = c THEN d ELSE connect[o]
      /\ \A i \in secret \cup session \cup mail :
           \E o \in Processes : connect'[o].id = i /\ connect'[o].pc # "store"
  BY <1>1, <1>4, ConnectMoves
<1>6. A!TypeOK'
  BY <1>2, <1>5, AccountsFault DEF AccountsInv, A!TypeOK, Requested, None, A!Rows
<1>7. A!PasswordKept'
  BY <1>1, <1>2, <1>4, <1>5, AccountsTypes DEF AccountsInv, A!PasswordKept, A!Rows, None
<1>8. \A o \in Processes : ConnectOK(connect[o])'
  BY <1>2, <1>4, <1>5 DEF AccountsInv, ConnectOK, Deleted
<1>9. StoredFirst' /\ \A o \in Deletes : (delete[o].pc # "idle" => delete[o].id \in Ids)'
  BY <1>2, <1>5 DEF AccountsInv, StoredFirst
<1>10. QED
  BY <1>2, <1>5, <1>6, <1>7, <1>8, <1>9, OauthKept DEF AccountsInv

\* A row taken by a connect has neither password nor mail, nor is it known to another.
LEMMA RowIsNew ==
  ASSUME A!AccountsAssumption, AccountsInv, NEW c \in Processes, NEW i \in Ids,
         \A o \in Processes : connect[o].id = i => o = c /\ connect[o].pc = "store"
  PROVE  i \notin secret \cup session \cup mail
  BY DEF AccountsInv, StoredFirst

LEMMA InsertAccountStep ==
  ASSUME A!AccountsAssumption, AccountsInv, NEW c \in Processes, A!InsertAccount(c)
  PROVE  AccountsInv'
<1>1. /\ connect \in [Processes -> Requested] /\ None \notin Ids \cup Addresses
      /\ connect[c].pc = "insert" /\ connect[c].id = None /\ connect[c].address \in Addresses
  BY AccountsTypes DEF AccountsInv, A!InsertAccount, ConnectOK
<1>2. UNCHANGED <<secret, mail, session, delete, popup, tokens, fault>>
  BY DEF A!InsertAccount, A!oauth
<1>3. PICK i \in Ids \ A!Rows :
        /\ \A o \in Processes : connect[o].id # i
        /\ account' = [account EXCEPT ![i] = connect[c].address]
        /\ connect' = [connect EXCEPT ![c].pc = "store", ![c].id = i]
  BY DEF A!InsertAccount
<1>4. PICK d \in Requested : connect' = [connect EXCEPT ![c] = d] /\ d.pc = "store" /\ d.id = i
                              /\ d.address = connect[c].address
  BY <1>1, <1>3 DEF Requested
<1>5. i \notin secret \cup session \cup mail
  BY <1>3, RowIsNew
<1>6. /\ connect' \in [Processes -> Requested] /\ OwnRow'
      /\ \A o \in Processes : connect'[o] = IF o = c THEN d ELSE connect[o]
      /\ \A j \in secret \cup session \cup mail :
           \E o \in Processes : connect'[o].id = j /\ connect'[o].pc # "store"
  <2>1. connect[c].id = None /\ d.id \notin secret \cup session \cup mail
    BY <1>1, <1>4, <1>5
  <2>2. \A o \in Processes : d.id # None /\ connect[o].id = d.id => o = c
    BY <1>3, <1>4
  <2>3. QED
    BY <1>4, <2>1, <2>2, ConnectMoves
<1>7. /\ account' \in [Ids -> Addresses \cup {None}]
      /\ \A j \in Ids : account'[j] = IF j = i THEN d.address ELSE account[j]
  BY <1>1, <1>3, <1>4, AccountsTypes DEF AccountsInv
<1>8. A!Rows' = A!Rows \cup {i}
  BY <1>1, <1>4, <1>7 DEF A!Rows, None
<1>9. A!TypeOK'
  BY <1>2, <1>6, <1>7, <1>8 DEF AccountsInv, A!TypeOK, Requested, None
<1>10. A!PasswordKept'
  <2>1. ASSUME NEW j \in A!Rows \ secret, Awaited(j)
        PROVE  Awaited(j)'
    BY <1>1, <1>6, <2>1 DEF Awaited
  <2>2. ASSUME NEW j \in A!Rows \ secret, Emptied(j)
        PROVE  Emptied(j)'
    BY <1>2, <2>2 DEF Emptied
  <2>3. Awaited(i)'
    BY <1>4, <1>6 DEF Awaited
  <2>4. QED
    BY <1>2, <1>8, <2>1, <2>2, <2>3, KeptMeans DEF AccountsInv
<1>11. \A o \in Processes : ConnectOK(connect[o])'
  BY <1>1, <1>2, <1>3, <1>4, <1>5, <1>6, <1>7 DEF AccountsInv, ConnectOK, Deleted
<1>12. StoredFirst' /\ \A o \in Deletes : (delete[o].pc # "idle" => delete[o].id \in Ids)'
  BY <1>2, <1>6 DEF AccountsInv, StoredFirst
<1>13. QED
  BY <1>2, <1>6, <1>9, <1>10, <1>11, <1>12, OauthKept DEF AccountsInv

LEMMA StoreCredentialStep ==
  ASSUME A!AccountsAssumption, AccountsInv, NEW c \in Processes, A!StoreCredential(c)
  PROVE  AccountsInv'
<1>0. PICK i : i = connect[c].id
  OBVIOUS
<1>1. /\ connect \in [Processes -> Requested] /\ None \notin Ids \cup Addresses
      /\ connect[c].pc = "store" /\ i \in Ids /\ account[i] \in {connect[c].address, None}
  BY <1>0, AccountsTypes DEF AccountsInv, A!StoreCredential, ConnectOK
<1>2. UNCHANGED <<account, mail, session, delete, popup, tokens, fault>> /\ A!Rows' = A!Rows
  BY DEF A!StoreCredential, A!oauth, A!Rows
<1>3. PICK pc \in {"done", "failed"} :
        /\ connect' = [connect EXCEPT ![c].pc = pc] /\ secret' = secret \cup ({i} \cap A!Rows)
        /\ (pc = "done") <=> i \in A!Rows
  BY <1>0 DEF A!StoreCredential
<1>4. PICK d \in Requested : connect' = [connect EXCEPT ![c] = d] /\ d.pc = pc /\ d.id = i
                              /\ d.address = connect[c].address
  <2>1. connect[c] \in Requested
    BY <1>1
  <2>2. [connect[c] EXCEPT !.pc = pc] \in Requested
    BY <1>3, <2>1 DEF Requested
  <2>3. /\ [connect[c] EXCEPT !.pc = pc].pc = pc /\ [connect[c] EXCEPT !.pc = pc].id = i
        /\ [connect[c] EXCEPT !.pc = pc].address = connect[c].address
    BY <1>0, <2>1 DEF Requested
  <2>4. connect' = [connect EXCEPT ![c] = [connect[c] EXCEPT !.pc = pc]]
    BY <1>3
  <2>5. QED
    BY <2>2, <2>3, <2>4
<1>5. \A o \in Processes : connect[o].id = i => o = c
  BY <1>0, <1>1 DEF AccountsInv, OwnRow
<1>6. /\ connect' \in [Processes -> Requested] /\ OwnRow'
      /\ \A o \in Processes : connect'[o] = IF o = c THEN d ELSE connect[o]
      /\ \A j \in secret \cup session \cup mail :
           \E o \in Processes : connect'[o].id = j /\ connect'[o].pc # "store"
  <2>1. d.id = connect[c].id /\ d.pc # "store"
    BY <1>0, <1>3, <1>4
  <2>2. \A o \in Processes : d.id # None /\ connect[o].id = d.id => o = c
    BY <1>4, <1>5
  <2>3. QED
    BY <1>4, <2>1, <2>2, ConnectMoves
<1>7. A!TypeOK'
  BY <1>2, <1>3, <1>6 DEF AccountsInv, A!TypeOK, Requested, None
<1>8. A!PasswordKept'
  <2>1. ASSUME NEW j \in A!Rows \ secret, Awaited(j), j # i
        PROVE  Awaited(j)'
    BY <1>0, <1>1, <1>6, <2>1 DEF Awaited
  <2>2. ASSUME NEW j \in A!Rows \ secret, Emptied(j)
        PROVE  Emptied(j)'
    BY <1>2, <2>2 DEF Emptied
  <2>3. \A j \in A!Rows' \ secret' : j \in A!Rows \ secret /\ j # i
    BY <1>2, <1>3
  <2>4. QED
    BY <2>1, <2>2, <2>3, KeptMeans DEF AccountsInv
<1>9. \A o \in Processes : ConnectOK(connect[o])'
  <2>1. ConnectOK(connect[c])'
    <3>1. i \in A!Rows => account[i] = connect[c].address
      BY <1>1 DEF A!Rows, None
    <3>2. pc = "done" => i \in secret' /\ account'[i] = d.address
      BY <1>2, <1>3, <1>4, <3>1
    <3>3. connect'[c] = d /\ d.address \in Addresses
      BY <1>1, <1>4, <1>6 DEF AccountsInv, ConnectOK
    <3>4. QED
      BY <1>3, <1>4, <3>2, <3>3 DEF ConnectOK
  <2>2. ASSUME NEW o \in Processes, o # c
        PROVE  ConnectOK(connect[o])'
    <3>1. connect'[o] = connect[o] /\ UNCHANGED <<account, delete>> /\ secret \subseteq secret'
      BY <1>2, <1>3, <1>6, <2>2 DEF A!StoreCredential
    <3>2. ConnectOK(connect[o])
      BY DEF AccountsInv
    <3>3. QED
      BY <3>1, <3>2 DEF ConnectOK, Deleted
  <2>3. QED
    BY <2>1, <2>2 DEF ConnectOK, Deleted
<1>10. StoredFirst' /\ \A o \in Deletes : (delete[o].pc # "idle" => delete[o].id \in Ids)'
  <2>1. ASSUME NEW j \in secret' \cup session' \cup mail'
        PROVE  \E o \in Processes : connect'[o].id = j /\ connect'[o].pc # "store"
    <3>1. j = i => connect'[c].id = j /\ connect'[c].pc # "store"
      BY <1>3, <1>4, <1>6
    <3>2. j # i => j \in secret \cup session \cup mail
      BY <1>2, <1>3, <2>1
    <3>3. QED
      BY <1>6, <3>1, <3>2
  <2>2. QED
    BY <1>2, <2>1 DEF AccountsInv, StoredFirst
<1>11. QED
  BY <1>2, <1>6, <1>7, <1>8, <1>9, <1>10, OauthKept DEF AccountsInv

LEMMA StoreFailsStep ==
  ASSUME A!AccountsAssumption, AccountsInv, NEW c \in Processes, A!StoreFails(c)
  PROVE  AccountsInv'
<1>0. PICK i : i = connect[c].id
  OBVIOUS
<1>1. /\ connect \in [Processes -> Requested] /\ None \notin Ids \cup Addresses
      /\ connect[c].pc = "store" /\ i \in Ids /\ account[i] \in {connect[c].address, None}
  BY <1>0, AccountsTypes DEF AccountsInv, A!StoreFails, ConnectOK
<1>2. UNCHANGED <<secret, mail, session, delete, popup, tokens>> /\ A!Fault
  BY DEF A!StoreFails, A!oauth
<1>3. PICK pc \in {"failed", "lost"} :
        /\ connect' = [connect EXCEPT ![c].pc = pc]
        /\ account' = IF pc = "failed" THEN [account EXCEPT ![i] = None] ELSE account
  BY <1>0 DEF A!StoreFails, None
<1>4. PICK d \in Requested : connect' = [connect EXCEPT ![c] = d] /\ d.pc = pc /\ d.id = i
                              /\ d.address = connect[c].address
  <2>1. connect[c] \in Requested
    BY <1>1
  <2>2. [connect[c] EXCEPT !.pc = pc] \in Requested
    BY <1>3, <2>1 DEF Requested
  <2>3. /\ [connect[c] EXCEPT !.pc = pc].pc = pc /\ [connect[c] EXCEPT !.pc = pc].id = i
        /\ [connect[c] EXCEPT !.pc = pc].address = connect[c].address
    BY <1>0, <2>1 DEF Requested
  <2>4. connect' = [connect EXCEPT ![c] = [connect[c] EXCEPT !.pc = pc]]
    BY <1>3
  <2>5. QED
    BY <2>2, <2>3, <2>4
<1>5. \A o \in Processes : connect[o].id = i => o = c
  BY <1>0, <1>1 DEF AccountsInv, OwnRow
<1>6. /\ connect' \in [Processes -> Requested] /\ OwnRow'
      /\ \A o \in Processes : connect'[o] = IF o = c THEN d ELSE connect[o]
      /\ \A j \in secret \cup session \cup mail :
           \E o \in Processes : connect'[o].id = j /\ connect'[o].pc # "store"
  <2>1. d.id = connect[c].id /\ d.pc # "store"
    BY <1>0, <1>3, <1>4
  <2>2. \A o \in Processes : d.id # None /\ connect[o].id = d.id => o = c
    BY <1>4, <1>5
  <2>3. QED
    BY <1>4, <2>1, <2>2, ConnectMoves
<1>7. i \notin secret \cup session \cup mail
  BY <1>1, <1>5, RowIsNew
<1>8. /\ account' \in [Ids -> Addresses \cup {None}]
      /\ \A j \in Ids : account'[j] = IF j = i /\ pc = "failed" THEN None ELSE account[j]
  BY <1>1, <1>3, AccountsTypes DEF AccountsInv
<1>9. A!Rows' = IF pc = "failed" THEN A!Rows \ {i} ELSE A!Rows
  BY <1>8 DEF A!Rows, None
<1>10. A!TypeOK'
  BY <1>2, <1>6, <1>7, <1>8, <1>9, AccountsFault DEF AccountsInv, A!TypeOK, Requested, None
<1>11. A!PasswordKept'
  <2>1. ASSUME NEW j \in A!Rows \ secret, Awaited(j), j # i
        PROVE  Awaited(j)'
    BY <1>0, <1>1, <1>6, <2>1 DEF Awaited
  <2>2. ASSUME NEW j \in A!Rows \ secret, Emptied(j)
        PROVE  Emptied(j)'
    BY <1>2, <2>2 DEF Emptied
  <2>3. pc = "lost" => Awaited(i)'
    BY <1>4, <1>6 DEF Awaited
  <2>4. \A j \in A!Rows' \ secret' : j \in A!Rows \ secret /\ (j = i => pc = "lost")
    BY <1>2, <1>3, <1>9
  <2>5. QED
    BY <2>1, <2>2, <2>3, <2>4, KeptMeans DEF AccountsInv
<1>12. \A o \in Processes : ConnectOK(connect[o])'
  <2>1. ASSUME NEW o \in Processes PROVE ConnectOK(connect[o])'
    BY <1>1, <1>2, <1>3, <1>4, <1>5, <1>6, <1>8 DEF AccountsInv, ConnectOK, Deleted
  <2>2. QED
    BY <2>1 DEF ConnectOK, Deleted
<1>13. StoredFirst' /\ \A o \in Deletes : (delete[o].pc # "idle" => delete[o].id \in Ids)'
  BY <1>2, <1>6 DEF AccountsInv, StoredFirst
<1>14. QED
  BY <1>2, <1>6, <1>10, <1>11, <1>12, <1>13, OauthKept DEF AccountsInv

LEMMA DeleteCredentialStep ==
  ASSUME A!AccountsAssumption, AccountsInv, NEW d \in Deletes, NEW i \in A!Rows,
         A!DeleteCredential(d, i)
  PROVE  AccountsInv'
<1>1. /\ delete \in [Deletes -> Deletion] /\ i \in Ids /\ delete[d].pc = "idle"
      /\ delete' = [delete EXCEPT ![d] = [pc |-> "account", id |-> i]]
  BY AccountsTypes DEF AccountsInv, A!DeleteCredential
<1>2. /\ UNCHANGED <<account, mail, session, connect, popup, tokens>> /\ A!Rows' = A!Rows
      /\ (A!Fault \/ UNCHANGED fault) /\ secret \ {i} \subseteq secret' /\ secret' \subseteq secret
  BY DEF A!DeleteCredential, A!oauth, A!Rows
<1>3. /\ delete' \in [Deletes -> Deletion]
      /\ \A e \in Deletes : delete'[e] = IF e = d THEN [pc |-> "account", id |-> i] ELSE delete[e]
  BY <1>1 DEF Deletion
<1>4. A!TypeOK'
  BY <1>2, <1>3, AccountsFault DEF AccountsInv, A!TypeOK, Deletion, None
<1>5. A!PasswordKept'
  <2>1. ASSUME NEW j \in A!Rows \ secret, Awaited(j)
        PROVE  Awaited(j)'
    BY <1>2, <2>1 DEF Awaited
  <2>2. ASSUME NEW j \in A!Rows \ secret, Emptied(j)
        PROVE  Emptied(j)'
    BY <1>1, <1>2, <1>3, <2>2 DEF Emptied
  <2>3. Emptied(i)'
    BY <1>3 DEF Emptied
  <2>4. QED
    BY <1>2, <2>1, <2>2, <2>3, KeptMeans DEF AccountsInv
<1>6. \A c \in Processes : ConnectOK(connect[c])'
  <2>1. ASSUME NEW j, Deleted(j)
        PROVE  Deleted(j)'
    BY <1>1, <1>3, <2>1 DEF Deleted
  <2>2. Deleted(i)'
    BY <1>3 DEF Deleted
  <2>3. QED
    BY <1>2, <2>1, <2>2 DEF AccountsInv, ConnectOK
<1>7. \A e \in Deletes : (delete[e].pc # "idle" => delete[e].id \in Ids)'
  BY <1>1, <1>3 DEF AccountsInv
<1>8. OwnRow' /\ StoredFirst'
  BY <1>2 DEF AccountsInv, OwnRow, StoredFirst
<1>9. QED
  BY <1>2, <1>4, <1>5, <1>6, <1>7, <1>8, OauthKept DEF AccountsInv

LEMMA DeleteAccountStep ==
  ASSUME A!AccountsAssumption, AccountsInv, NEW d \in Deletes, A!DeleteAccount(d)
  PROVE  AccountsInv'
<1>0. PICK i : i = delete[d].id
  OBVIOUS
<1>1. /\ delete \in [Deletes -> Deletion] /\ i \in Ids /\ delete[d].pc = "account"
  BY <1>0, AccountsTypes DEF AccountsInv, A!DeleteAccount
<1>2. UNCHANGED <<mail, session, connect, popup, tokens>> /\ (A!Fault \/ UNCHANGED fault)
  BY DEF A!DeleteAccount, A!oauth
<1>3. PICK pc \in {"refused", "done", "failed"} :
        /\ delete' = [delete EXCEPT ![d].pc = pc] /\ (pc = "refused" => i \in mail) /\ (pc = "done" => i \notin mail)
        /\ account' = IF pc = "done" THEN [account EXCEPT ![i] = None] ELSE account
        /\ secret' = IF pc = "done" THEN secret \ {i} ELSE secret
  BY <1>0 DEF A!DeleteAccount, None
<1>4. /\ delete' \in [Deletes -> Deletion]
      /\ \A e \in Deletes : delete'[e].id = delete[e].id
                            /\ delete'[e].pc = IF e = d THEN pc ELSE delete[e].pc
  BY <1>0, <1>1, <1>3 DEF Deletion
<1>5. /\ account' \in [Ids -> Addresses \cup {None}]
      /\ \A j \in Ids : account'[j] = IF j = i /\ pc = "done" THEN None ELSE account[j]
  BY <1>1, <1>3, AccountsTypes DEF AccountsInv
<1>6. A!Rows' = IF pc = "done" THEN A!Rows \ {i} ELSE A!Rows
  BY <1>5 DEF A!Rows, None
<1>7. A!TypeOK'
  BY <1>2, <1>3, <1>4, <1>5, <1>6, AccountsFault DEF AccountsInv, A!TypeOK, Deletion, None
<1>8. A!PasswordKept'
  <2>1. ASSUME NEW j \in A!Rows \ secret, Awaited(j)
        PROVE  Awaited(j)'
    BY <1>2, <2>1 DEF Awaited
  <2>2. ASSUME NEW j \in A!Rows \ secret, Emptied(j), j # i
        PROVE  Emptied(j)'
    <3>1. PICK e \in Deletes : delete[e].id = j /\ (delete[e].pc \in {"account", "failed"} \/ (delete[e].pc = "refused" /\ j \in mail))
      BY <2>2 DEF Emptied
    <3>2. e # d
      BY <1>0, <2>2, <3>1
    <3>3. QED
      BY <1>2, <1>4, <3>1, <3>2 DEF Emptied
  <2>3. pc # "done" => Emptied(i)'
    BY <1>0, <1>2, <1>3, <1>4 DEF Emptied
  <2>4. \A j \in A!Rows' \ secret' : j \in A!Rows \ secret /\ (j = i => pc # "done")
    BY <1>3, <1>6
  <2>5. QED
    BY <2>1, <2>2, <2>3, <2>4, KeptMeans DEF AccountsInv
<1>9. \A c \in Processes : ConnectOK(connect[c])'
  <2>1. ASSUME NEW j, Deleted(j)
        PROVE  Deleted(j)'
    BY <1>3, <1>4, <2>1 DEF Deleted
  <2>2. Deleted(i)'
    BY <1>0, <1>3, <1>4 DEF Deleted
  <2>3. ASSUME NEW c \in Processes
        PROVE  ConnectOK(connect[c])'
    <3>1. CASE connect[c].id = i
      BY <1>2, <1>5, <2>2, <3>1 DEF AccountsInv, ConnectOK
    <3>2. CASE connect[c].id # i
      <4>1. ConnectOK(connect[c]) /\ connect' = connect
        BY <1>2 DEF AccountsInv
      <4>2. connect[c].id \in secret => connect[c].id \in secret' /\ connect[c].id \in Ids
        BY <1>3, <3>2, AccountsTypes DEF AccountsInv
      <4>3. \A j \in Ids \ {i} : account'[j] = account[j]
        BY <1>5
      <4>4. QED
        BY <2>1, <3>2, <4>1, <4>2, <4>3 DEF ConnectOK
    <3>3. QED
      BY <3>1, <3>2
  <2>4. QED
    BY <2>3, Zenon
<1>10. \A e \in Deletes : (delete[e].pc # "idle" => delete[e].id \in Ids)'
  BY <1>0, <1>1, <1>4 DEF AccountsInv
<1>11. OwnRow' /\ StoredFirst'
  BY <1>2, <1>3 DEF AccountsInv, OwnRow, StoredFirst
<1>12. QED
  BY <1>2, <1>7, <1>8, <1>9, <1>10, <1>11, OauthKept DEF AccountsInv

\* A sync reads a password and stores mail; requests and rows stay.
LEMMA SyncStep ==
  ASSUME A!AccountsAssumption, AccountsInv, NEW i \in Ids, A!GetCredential(i) \/ A!StoreMail(i)
  PROVE  AccountsInv'
<1>1. /\ UNCHANGED <<account, secret, connect, delete, popup, tokens, fault>>
      /\ session' \subseteq secret \cup session /\ A!Rows' = A!Rows
      /\ mail \subseteq mail' /\ mail' \subseteq mail \cup (session \cap A!Rows)
  <2>1. CASE A!GetCredential(i)
    BY <2>1 DEF A!GetCredential, A!oauth, A!Rows
  <2>2. CASE A!StoreMail(i)
    BY <2>2 DEF A!StoreMail, A!oauth, A!Rows
  <2>3. QED
    BY <2>1, <2>2
<1>2. A!TypeOK'
  BY <1>1 DEF AccountsInv, A!TypeOK, A!Rows
<1>3. A!PasswordKept'
  <2>1. ASSUME NEW j \in A!Rows \ secret
        PROVE  (Awaited(j) => Awaited(j)') /\ (Emptied(j) => Emptied(j)')
    BY <1>1 DEF Awaited, Emptied
  <2>2. QED
    BY <1>1, <2>1, KeptMeans DEF AccountsInv
<1>4. StoredFirst' /\ OwnRow' /\ \A e \in Deletes : (delete[e].pc # "idle" => delete[e].id \in Ids)'
  BY <1>1 DEF AccountsInv, StoredFirst, OwnRow
<1>5. \A c \in Processes : ConnectOK(connect[c])'
  BY <1>1 DEF AccountsInv, ConnectOK, Deleted
<1>6. QED
  BY <1>1, <1>2, <1>3, <1>4, <1>5, OauthKept DEF AccountsInv

\* The mailboxes do not meet the popups and the tokens.
LEMMA ImapKept ==
  ASSUME AccountsInv, UNCHANGED <<account, secret, mail, session, connect, delete>>
  PROVE  /\ A!Rows' = A!Rows /\ A!PasswordKept' /\ OwnRow' /\ StoredFirst'
         /\ (\A c \in Processes : ConnectOK(connect[c]))'
         /\ (\A d \in Deletes : delete[d].pc # "idle" => delete[d].id \in Ids)'
<1>1. A!Rows' = A!Rows
  BY DEF A!Rows
<1>2. A!PasswordKept'
  <2>1. ASSUME NEW j \in A!Rows \ secret
        PROVE  (Awaited(j) => Awaited(j)') /\ (Emptied(j) => Emptied(j)')
    BY DEF Awaited, Emptied
  <2>2. QED
    BY <1>1, <2>1, KeptMeans DEF AccountsInv
<1>3. QED
  BY <1>1, <1>2 DEF AccountsInv, OwnRow, StoredFirst, ConnectOK, Deleted

\* A popup that moves alone, and is of the same provider and address once it
\* has stored its tokens.
LEMMA PopupMoves ==
  ASSUME A!AccountsAssumption, AccountsInv, NEW p \in Processes, NEW d \in Consent,
         popup' = [popup EXCEPT ![p] = d], ConsentOK(d),
         UNCHANGED <<account, secret, mail, session, connect, delete, fault>>,
         tokens' \in [Providers -> TokenRows],
         Brought'
  PROVE  AccountsInv'
  BY AccountsTypes, ImapKept DEF AccountsInv, ConsentOK, A!TypeOK, Consent, None, TokenRows

\* A popup that has stored tokens keeps its provider and its address.
LEMMA StoredStay ==
  ASSUME A!AccountsAssumption, AccountsInv, NEW p \in Processes, NEW d \in Consent,
         popup' = [popup EXCEPT ![p] = d],
         popup[p].pc \in {"ensure", "connected"} =>
           d.pc \in {"ensure", "connected"} /\ d.provider = popup[p].provider
           /\ d.address = popup[p].address
  PROVE  /\ \A provider : StoredBy(provider) \subseteq StoredBy(provider)'
         /\ \A provider : AddressesOf(StoredBy(provider)) \subseteq AddressesOf(StoredBy(provider))'
         /\ UNCHANGED tokens => Brought'
<1>1. /\ \A provider : StoredBy(provider) \subseteq StoredBy(provider)'
      /\ \A provider : \A q \in StoredBy(provider) : popup'[q].address = popup[q].address
  BY AccountsTypes DEF AccountsInv, StoredBy
<1>2. \A provider : AddressesOf(StoredBy(provider)) \subseteq AddressesOf(StoredBy(provider))'
  BY <1>1 DEF AddressesOf
<1>3. UNCHANGED tokens => Brought'
  BY <1>2 DEF AccountsInv, Brought
<1>4. QED
  BY <1>1, <1>2, <1>3

LEMMA OAuthStartStep ==
  ASSUME A!AccountsAssumption, AccountsInv, NEW p \in Processes, NEW provider \in Providers,
         A!HandleOAuthStart(p, provider)
  PROVE  AccountsInv'
<1>1. /\ popup \in [Processes -> Consent] /\ popup[p].pc = "idle"
      /\ tokens \in [Providers -> TokenRows]
      /\ UNCHANGED <<account, secret, mail, session, connect, delete, tokens, fault>>
  BY AccountsTypes DEF AccountsInv, A!HandleOAuthStart, A!imap
<1>2. PICK d \in Consent : popup' = [popup EXCEPT ![p] = d] /\ d.pc = "consent" /\ d.provider = provider
  <2>1. popup[p] \in Consent
    BY <1>1
  <2>2. /\ [popup[p] EXCEPT !.pc = "consent", !.provider = provider] \in Consent
        /\ [popup[p] EXCEPT !.pc = "consent", !.provider = provider].pc = "consent"
        /\ [popup[p] EXCEPT !.pc = "consent", !.provider = provider].provider = provider
    BY <2>1 DEF Consent
  <2>3. popup' = [popup EXCEPT ![p] = [popup[p] EXCEPT !.pc = "consent", !.provider = provider]]
    BY DEF A!HandleOAuthStart
  <2>4. QED
    BY <2>2, <2>3
<1>3. Brought'
  BY <1>1, <1>2, StoredStay
<1>4. ConsentOK(d)
  BY <1>2 DEF ConsentOK
<1>5. QED
  BY <1>1, <1>2, <1>3, <1>4, PopupMoves

LEMMA OAuthCallbackStep ==
  ASSUME A!AccountsAssumption, AccountsInv, NEW p \in Processes, A!HandleOAuthCallback(p)
  PROVE  AccountsInv'
<1>1. /\ popup \in [Processes -> Consent] /\ popup[p].pc = "consent"
      /\ tokens \in [Providers -> TokenRows]
      /\ UNCHANGED <<account, secret, mail, session, connect, delete, tokens, fault>>
  BY AccountsTypes DEF AccountsInv, A!HandleOAuthCallback, A!imap
<1>2. popup[p] \in Consent /\ ConsentOK(popup[p])
  BY <1>1 DEF AccountsInv
<1>3. PICK d \in Consent : popup' = [popup EXCEPT ![p] = d] /\ ConsentOK(d)
  <2>1. CASE A!SetPopup(p, "closed")
    <3>1. /\ popup' = [popup EXCEPT ![p] = [popup[p] EXCEPT !.pc = "closed"]]
          /\ [popup[p] EXCEPT !.pc = "closed"] \in Consent
      BY <1>2, <2>1 DEF A!SetPopup, Consent
    <3>2. ConsentOK([popup[p] EXCEPT !.pc = "closed"])
      BY <1>1, <1>2 DEF ConsentOK, Consent
    <3>3. QED
      BY <3>1, <3>2
  <2>2. ASSUME NEW a \in Addresses, NEW told \in BOOLEAN,
               popup' = [popup EXCEPT ![p].pc = "tokens", ![p].address = a, ![p].told = told]
        PROVE  \E d \in Consent : popup' = [popup EXCEPT ![p] = d] /\ ConsentOK(d)
    <3> DEFINE d == [popup[p] EXCEPT !.pc = "tokens", !.address = a, !.told = told]
    <3>1. popup' = [popup EXCEPT ![p] = d]
      BY <2>2
    <3>2. d \in Consent /\ d.pc = "tokens" /\ d.address = a /\ d.provider = popup[p].provider
      BY <1>2 DEF Consent
    <3>3. ConsentOK(d)
      BY <1>1, <1>2, <3>2 DEF ConsentOK
    <3>4. QED
      BY <3>1, <3>2, <3>3
  <2>3. QED
    BY <2>1, <2>2 DEF A!HandleOAuthCallback
<1>4. Brought'
  BY <1>1, <1>3, StoredStay
<1>5. QED
  BY <1>1, <1>3, <1>4, PopupMoves

\* Refused or failed: the popup closes, as after a consent denied.
LEMMA StoreTokensFailsStep ==
  ASSUME A!AccountsAssumption, AccountsInv, NEW p \in Processes, A!StoreTokensFails(p)
  PROVE  AccountsInv'
<1> DEFINE d == [popup[p] EXCEPT !.pc = "closed"]
<1>1. /\ popup \in [Processes -> Consent] /\ popup[p].pc = "tokens" /\ tokens \in [Providers -> TokenRows]
      /\ UNCHANGED <<account, secret, mail, session, connect, delete, tokens, fault>>
  BY AccountsTypes DEF AccountsInv, A!StoreTokensFails, A!imap
<1>2. popup[p] \in Consent /\ ConsentOK(popup[p])
  BY <1>1 DEF AccountsInv
<1>3. popup' = [popup EXCEPT ![p] = d]
  BY DEF A!StoreTokensFails, A!SetPopup
<1>4. d \in Consent /\ ConsentOK(d)
  BY <1>1, <1>2 DEF ConsentOK, Consent
<1>5. Brought'
  BY <1>1, <1>3, <1>4, StoredStay
<1>6. QED
  BY <1>1, <1>3, <1>4, <1>5, PopupMoves

LEMMA StoreTokensStep ==
  ASSUME A!AccountsAssumption, AccountsInv, NEW p \in Processes, A!StoreTokens(p)
  PROVE  AccountsInv'
<1>1. /\ popup \in [Processes -> Consent] /\ popup[p].pc = "tokens"
      /\ tokens \in [Providers -> TokenRows]
      /\ UNCHANGED <<account, secret, mail, session, connect, delete, fault>>
      /\ None \notin Addresses
  BY AccountsTypes DEF AccountsInv, A!StoreTokens, A!imap
<1>2. PICK a, provider, old, first :
        /\ a = popup[p].address /\ provider = popup[p].provider /\ old = tokens[provider]
        /\ first \in {a, None}
        /\ tokens' = [tokens EXCEPT ![provider] = <<a, IF old = <<None, None>> THEN first ELSE old[2]>>]
  BY DEF A!StoreTokens, None
<1>3. a \in Addresses /\ provider \in Providers /\ popup[p] \in Consent
  BY <1>1, <1>2 DEF AccountsInv, ConsentOK
<1>4. PICK d \in Consent : /\ popup' = [popup EXCEPT ![p] = d] /\ d.pc \in {"ensure", "connected"}
                           /\ d.provider = provider /\ d.address = a
  <2>1. PICK pc \in {"ensure", "connected"} : popup' = [popup EXCEPT ![p] = [popup[p] EXCEPT !.pc = pc]]
    BY DEF A!StoreTokens, A!SetPopup
  <2>2. [popup[p] EXCEPT !.pc = pc] \in Consent
    BY <1>3 DEF Consent
  <2>3. QED
    BY <1>2, <1>3, <2>1, <2>2 DEF Consent
<1>5. PICK b : /\ tokens' = [tokens EXCEPT ![provider] = <<a, b>>]
               /\ IF old = <<None, None>> THEN b = first ELSE b = old[2]
  BY <1>2
<1>6. /\ \A x : StoredBy(x) \subseteq StoredBy(x)'
      /\ \A x : AddressesOf(StoredBy(x)) \subseteq AddressesOf(StoredBy(x))'
  BY <1>1, <1>4, StoredStay
<1>7. a \in AddressesOf(StoredBy(provider))'
  <2>1. p \in StoredBy(provider)' /\ popup'[p].address = a
    BY <1>1, <1>4 DEF StoredBy
  <2>2. QED
    BY <2>1 DEF AddressesOf
<1>8. b \in (AddressesOf(StoredBy(provider)))' \cup {None} /\ b \in Addresses \cup {None}
  <2>1. CASE old = <<None, None>>
    BY <1>2, <1>3, <1>5, <1>7, <2>1
  <2>2. CASE old # <<None, None>>
    <3>1. old \in AddressesOf(StoredBy(provider)) \X (AddressesOf(StoredBy(provider)) \cup {None})
      BY <1>2, <1>3, <2>2 DEF AccountsInv, Brought
    <3>2. old \in Addresses \X (Addresses \cup {None})
      BY <1>1, <1>2, <1>3, <2>2 DEF TokenRows
    <3>3. QED
      BY <1>5, <1>6, <2>2, <3>1, <3>2
  <2>3. QED
    BY <2>1, <2>2
<1>9. /\ tokens' \in [Providers -> TokenRows]
      /\ \A x \in Providers : tokens'[x] = IF x = provider THEN <<a, b>> ELSE tokens[x]
  BY <1>1, <1>3, <1>5, <1>8 DEF TokenRows
<1>10. Brought'
  <2>1. ASSUME NEW x \in Providers, tokens'[x] # <<None, None>>
        PROVE  tokens'[x] \in AddressesOf(StoredBy(x))' \X (AddressesOf(StoredBy(x))' \cup {None})
    <3>1. CASE x = provider
      BY <1>7, <1>8, <1>9, <3>1
    <3>2. CASE x # provider
      <4>1. tokens[x] \in AddressesOf(StoredBy(x)) \X (AddressesOf(StoredBy(x)) \cup {None})
        BY <1>9, <2>1, <3>2 DEF AccountsInv, Brought
      <4>2. QED
        BY <1>6, <1>9, <3>2, <4>1
    <3>3. QED
      BY <3>1, <3>2
  <2>2. QED
    BY <2>1 DEF Brought
<1>11. ConsentOK(d)
  BY <1>3, <1>4 DEF ConsentOK
<1>12. QED
  BY <1>1, <1>4, <1>9, <1>10, <1>11, PopupMoves

LEMMA EnsureStep ==
  ASSUME A!AccountsAssumption, AccountsInv, NEW p \in Processes, A!EnsureEmailAccount(p)
  PROVE  AccountsInv'
<1>1. /\ popup \in [Processes -> Consent] /\ popup[p].pc = "ensure"
      /\ tokens \in [Providers -> TokenRows]
      /\ UNCHANGED <<account, secret, mail, session, connect, delete, tokens, fault>>
  BY AccountsTypes DEF AccountsInv, A!EnsureEmailAccount, A!imap
<1>2. popup[p] \in Consent /\ ConsentOK(popup[p])
  BY <1>1 DEF AccountsInv
<1>3. PICK d \in Consent : /\ popup' = [popup EXCEPT ![p] = d] /\ d.pc = "connected"
                           /\ d.provider = popup[p].provider /\ d.address = popup[p].address
  <2>1. [popup[p] EXCEPT !.pc = "connected"] \in Consent
    BY <1>2 DEF Consent
  <2>2. popup' = [popup EXCEPT ![p] = [popup[p] EXCEPT !.pc = "connected"]]
    BY DEF A!EnsureEmailAccount, A!SetPopup
  <2>3. QED
    BY <1>2, <2>1, <2>2 DEF Consent
<1>4. ConsentOK(d)
  BY <1>1, <1>2, <1>3 DEF ConsentOK
<1>5. Brought'
  BY <1>1, <1>3, StoredStay
<1>6. QED
  BY <1>1, <1>3, <1>4, <1>5, PopupMoves

LEMMA DisconnectStep ==
  ASSUME A!AccountsAssumption, AccountsInv, NEW provider \in Providers, A!DisconnectProvider(provider)
  PROVE  AccountsInv'
<1>1. /\ popup \in [Processes -> Consent]
      /\ tokens \in [Providers -> TokenRows]
      /\ UNCHANGED <<account, secret, mail, session, connect, delete, popup, fault>>
      /\ tokens' = [tokens EXCEPT ![provider] = <<None, None>>]
  BY AccountsTypes DEF AccountsInv, A!DisconnectProvider, A!imap, None
<1>2. /\ tokens' \in [Providers -> TokenRows]
      /\ \A x \in Providers : tokens'[x] = IF x = provider THEN <<None, None>> ELSE tokens[x]
  BY <1>1 DEF TokenRows
<1>3. Brought'
  BY <1>1, <1>2 DEF AccountsInv, Brought, StoredBy, AddressesOf
<1>4. A!TypeOK' /\ \A p \in Processes : ConsentOK(popup[p])'
  BY <1>1, <1>2, ImapKept DEF AccountsInv, A!TypeOK, ConsentOK, None, TokenRows
<1>5. QED
  BY <1>1, <1>3, <1>4, ImapKept DEF AccountsInv

LEMMA AccountsNext ==
  ASSUME A!AccountsAssumption, AccountsInv, A!Next
  PROVE  AccountsInv'
<1>1. ASSUME NEW c \in Processes, A!InsertAccount(c) \/ A!StoreCredential(c) \/ A!StoreFails(c)
                                  \/ \E a \in Addresses : A!CheckExists(c, a)
      PROVE  AccountsInv'
  BY <1>1, InsertAccountStep, StoreCredentialStep, StoreFailsStep, CheckExistsStep
<1>2. ASSUME NEW d \in Deletes, A!DeleteAccount(d) \/ \E i \in A!Rows : A!DeleteCredential(d, i)
      PROVE  AccountsInv'
  BY <1>2, DeleteAccountStep, DeleteCredentialStep
<1>3. ASSUME NEW i \in Ids, A!GetCredential(i) \/ A!StoreMail(i)
      PROVE  AccountsInv'
  BY <1>3, SyncStep
<1>4. ASSUME NEW p \in Processes, A!HandleOAuthCallback(p) \/ A!StoreTokens(p)
                                  \/ A!StoreTokensFails(p) \/ A!EnsureEmailAccount(p)
      PROVE  AccountsInv'
  BY <1>4, OAuthCallbackStep, StoreTokensStep, StoreTokensFailsStep, EnsureStep
<1>5. ASSUME NEW p \in Processes, NEW provider \in Providers, A!HandleOAuthStart(p, provider)
      PROVE  AccountsInv'
  BY <1>5, OAuthStartStep
<1>6. ASSUME NEW provider \in Providers, A!DisconnectProvider(provider)
      PROVE  AccountsInv'
  BY <1>6, DisconnectStep
<1>7. QED
  BY <1>1, <1>2, <1>3, <1>4, <1>5, <1>6, Zenon DEF A!Next

LEMMA AccountsInit ==
  ASSUME A!AccountsAssumption, A!Init
  PROVE  AccountsInv
<1>1. A!Rows = {}
  BY DEF A!Init, A!Rows
<1>2. A!TypeOK
  BY <1>1 DEF A!Init, A!TypeOK, A!AccountsAssumption
<1>3. A!PasswordKept /\ Brought
  BY <1>1 DEF A!PasswordKept, A!Init, Brought, None
<1>4. /\ \A c \in Processes : connect[c].pc = "idle" /\ connect[c].id = None
      /\ \A d \in Deletes : delete[d].pc = "idle"
      /\ \A p \in Processes : popup[p].pc = "idle"
      /\ secret = {} /\ session = {} /\ mail = {}
  BY DEF A!Init, None
<1>5. QED
  BY <1>2, <1>3, <1>4 DEF AccountsInv, ConnectOK, OwnRow, StoredFirst, ConsentOK

\* Two addresses of one row of tokens were brought by two popups.
LEMMA AccountsInvKeeps ==
  ASSUME A!AccountsAssumption, AccountsInv
  PROVE  A!AccountsKept
<1>1. A!AnsweredStands
  <2>1. ASSUME NEW c \in Processes, connect[c].pc = "done", ~ Deleted(connect[c].id)
        PROVE  connect[c].id \in secret /\ connect[c].address \in A!HandleListAccounts
    BY <2>1, AccountsTypes DEF AccountsInv, ConnectOK, A!HandleListAccounts
  <2>2. QED
    BY <2>1, Zenon DEF A!AnsweredStands, Deleted
<1>2. A!NamedAfterFirst
  <2>1. ASSUME NEW provider \in Providers,
               A!GetTokens(provider).address \notin {A!GetTokens(provider).of, A!NoRow}
        PROVE  A!Cardinality(StoredBy(provider)) > 1
    <3>1. tokens[provider][2] \notin {tokens[provider][1], None}
      BY <2>1 DEF A!GetTokens, None
    <3>2. tokens[provider] # <<None, None>>
      BY <3>1
    <3>12. tokens[provider] \in AddressesOf(StoredBy(provider)) \X (AddressesOf(StoredBy(provider)) \cup {None})
      BY <3>2 DEF AccountsInv, Brought
    <3>3. PICK p, q \in StoredBy(provider) :
            tokens[provider][1] = popup[p].address /\ tokens[provider][2] = popup[q].address
      BY <3>1, <3>12 DEF AddressesOf
    <3>4. p # q
      BY <3>1, <3>3
    <3>5. IsFiniteSet(StoredBy(provider))
      <4>1. IsFiniteSet(Processes)
        BY Zenon DEF A!AccountsAssumption, A!IsFiniteSet, IsFiniteSet
      <4>2. StoredBy(provider) \subseteq Processes
        BY DEF StoredBy
      <4>3. QED
        BY <4>1, <4>2, FS_Subset
    <3>6. Cardinality({p}) = 1 /\ IsFiniteSet({p})
      BY FS_Singleton
    <3>7. Cardinality({p} \cup {q}) = 2
      BY <3>4, <3>6, FS_AddElement
    <3>8. 2 <= Cardinality(StoredBy(provider))
      BY <3>3, <3>5, <3>7, FS_Subset
    <3>9. Cardinality(StoredBy(provider)) \in Nat
      BY <3>5, FS_CardinalityType
    <3>10. A!Cardinality(StoredBy(provider)) = Cardinality(StoredBy(provider))
      BY Zenon DEF A!Cardinality, Cardinality
    <3>11. QED
      BY <3>8, <3>9, <3>10
  <2>2. QED
    BY <2>1, Zenon DEF A!NamedAfterFirst, StoredBy
<1>3. QED
  BY <1>1, <1>2 DEF AccountsInv, A!AccountsKept

\* A mailbox without a password is being connected or deleted, was cut off, or
\* could not be deleted, with an error or for its mail; a mailbox answered as connected is listed
\* and can be used until it is deleted; tokens under another's address were
\* brought by two popups (account_handlers.go:196-269, providers.go:60-67).
THEOREM MailboxesKept ==
  ASSUME A!AccountsAssumption
  PROVE  Spec => []AccountsKept
<1> DEFINE Held == part \in {"accounts", "popups"} => AccountsInv
<1>1. Init => Held
  BY AccountsInit DEF Init
<1>2. Held /\ [Next]_vars => Held'
  <2>1. SUFFICES ASSUME Held, [Next]_vars, part' \in {"accounts", "popups"} PROVE AccountsInv'
    OBVIOUS
  <2>2. CASE Next
    BY <2>1, <2>2, AccountsNext DEF Next, Is
  <2>3. CASE UNCHANGED vars
    <3>1. AccountsInv /\ UNCHANGED <<part, mailboxes, fault>>
      BY <2>1, <2>3 DEF vars
    <3>2. UNCHANGED <<account, secret, mail, session, connect, delete, popup, tokens, fault>>
      BY <3>1 DEF mailboxes
    <3>3. A!TypeOK'
      BY <3>1, <3>2, ImapKept DEF AccountsInv, A!TypeOK
    <3>4. QED
      BY <3>1, <3>2, <3>3, ImapKept, OauthKept DEF AccountsInv
  <2>4. QED
    BY <2>1, <2>2, <2>3
<1>3. Held => AccountsKept
  BY AccountsInvKeeps DEF AccountsKept
<1>4. QED
  BY <1>1, <1>2, <1>3, PTL DEF Spec
-------------------------------------------------------------------------------
(* Connections.                                                            *)

Reconnecting == [pc : {"idle", "dial", "remove", "register", "done", "failed"},
                 account : Mailboxes \cup {I!None}, attempt : 0 .. MaxAttempts,
                 client : Clients \cup {I!None}]
Holding == {"remove", "register"}
Done == {r \in Processes : reconnect[r].pc = "done"}

\* A client in the hands of one reconnect is open, and neither registered nor
\* in the hands of another.
ClientHeld(r) ==
  /\ reconnect[r].client \in open
  /\ \A a \in Mailboxes : connections[a] # reconnect[r].client
  /\ \A o \in Processes \ {r} :
       reconnect[o].pc \in Holding => reconnect[o].client # reconnect[r].client
RegisteredOpen ==
  \A a \in Mailboxes : connections[a] # I!None =>
    connections[a] \in open /\ \A b \in Mailboxes : connections[b] = connections[a] => b = a

\* The open clients that nobody has.
Unclaimed ==
  {x \in open : /\ \A r \in Processes : reconnect[r].pc \in Holding => reconnect[r].client # x
                /\ \A a \in Mailboxes : connections[a] # x}

Reconnected(d) ==
  /\ d.pc # "idle" => d.account \in Mailboxes
  /\ d.pc \in {"idle", "dial"} => d.attempt < MaxAttempts

SocketsInv ==
  /\ I!TypeOK
  /\ RegisteredOpen
  /\ \A r \in Processes : reconnect[r].pc \in Holding => ClientHeld(r)
  /\ \A r \in Processes : Reconnected(reconnect[r])
  /\ IsFiniteSet(I!Registered) /\ Cardinality(I!Registered) <= MaxConns
  /\ IsFiniteSet(Done) /\ IsFiniteSet(Unclaimed) /\ Cardinality(Unclaimed) <= fault + Cardinality(Done)

LEMMA SocketTypes ==
  ASSUME I!ConnectionsAssumption, I!TypeOK
  PROVE  /\ connections \in [Mailboxes -> Clients \cup {I!None}] /\ I!None \notin Clients
         /\ status \in [Mailboxes -> {"connected", "error"}] /\ open \subseteq Clients
         /\ reconnect \in [Processes -> Reconnecting]
         /\ MaxConns \in Nat \ {0} /\ MaxAttempts \in Nat \ {0} /\ fault \in Nat
         /\ I!Registered = {a \in Mailboxes : connections[a] # I!None}
  BY DEF I!TypeOK, I!ConnectionsAssumption, Reconnecting, I!Registered

\* What is counted: registered accounts and unclaimed clients.
LEMMA RegisteredFewer ==
  ASSUME SocketsInv, I!Registered' \subseteq I!Registered, MaxConns \in Nat
  PROVE  IsFiniteSet(I!Registered') /\ Cardinality(I!Registered') <= MaxConns
  BY FS_Subset, FS_CardinalityType DEF SocketsInv

LEMMA RegisteredOneMore ==
  ASSUME SocketsInv, NEW a, I!Registered' = I!Registered \cup {a}, ~I!Full, MaxConns \in Nat
  PROVE  IsFiniteSet(I!Registered') /\ Cardinality(I!Registered') <= MaxConns
<1>1. IsFiniteSet(I!Registered) /\ Cardinality(I!Registered) \in Nat
  BY FS_CardinalityType DEF SocketsInv
<1>2. I!Cardinality(I!Registered) = Cardinality(I!Registered)
  BY Zenon DEF I!Cardinality, Cardinality
<1>3. Cardinality(I!Registered) < MaxConns
  BY <1>1, <1>2 DEF I!Full, I!Count
<1>4. /\ IsFiniteSet(I!Registered \cup {a})
      /\ Cardinality(I!Registered \cup {a}) = Cardinality(I!Registered)
         \/ Cardinality(I!Registered \cup {a}) = Cardinality(I!Registered) + 1
  BY <1>1, FS_AddElement, Zenon
<1>5. QED
  BY <1>1, <1>3, <1>4

\* The bound on the unclaimed clients.
Bounded == IsFiniteSet(Done) /\ IsFiniteSet(Unclaimed) /\ Cardinality(Unclaimed) <= fault + Cardinality(Done)

LEMMA UnclaimedFewer ==
  ASSUME I!ConnectionsAssumption, SocketsInv, Unclaimed' \subseteq Unclaimed, Done' = Done, UNCHANGED fault
  PROVE  Bounded'
<1>1. fault \in Nat
  BY SocketTypes DEF SocketsInv
<1>2. QED
  BY <1>1, FS_Subset, FS_CardinalityType DEF SocketsInv, Bounded

\* One more client may be left unclaimed by the reconnect that registers, and
\* by a call of Register that overwrites an entry.
LEMMA OneMoreUnclaimed ==
  ASSUME SocketsInv, NEW x, Unclaimed' \subseteq Unclaimed \cup {x}
  PROVE  /\ IsFiniteSet(Unclaimed') /\ Cardinality(Unclaimed') <= Cardinality(Unclaimed) + 1
         /\ Cardinality(Unclaimed') \in Nat /\ Cardinality(Unclaimed) \in Nat
<1>1. IsFiniteSet(Unclaimed) /\ Cardinality(Unclaimed) \in Nat
  BY FS_CardinalityType DEF SocketsInv
<1>2. /\ IsFiniteSet(Unclaimed \cup {x})
      /\ Cardinality(Unclaimed \cup {x}) = Cardinality(Unclaimed)
         \/ Cardinality(Unclaimed \cup {x}) = Cardinality(Unclaimed) + 1
  BY <1>1, FS_AddElement, Zenon
<1>3. IsFiniteSet(Unclaimed') /\ Cardinality(Unclaimed') <= Cardinality(Unclaimed \cup {x})
  BY <1>2, FS_Subset
<1>4. Cardinality(Unclaimed') \in Nat
  BY <1>3, FS_CardinalityType
<1>5. QED
  BY <1>1, <1>2, <1>3, <1>4

LEMMA UnclaimedByReconnect ==
  ASSUME I!ConnectionsAssumption, SocketsInv, NEW x, NEW r, Unclaimed' \subseteq Unclaimed \cup {x},
         r \notin Done, Done' = Done \cup {r}, UNCHANGED fault
  PROVE  Bounded'
<1>1. IsFiniteSet(Done) /\ Cardinality(Done) \in Nat /\ Cardinality(Unclaimed) <= fault + Cardinality(Done)
  BY FS_CardinalityType DEF SocketsInv
<1>2. IsFiniteSet(Done') /\ Cardinality(Done') = Cardinality(Done) + 1
  BY <1>1, FS_AddElement
<1>3. fault \in Nat
  BY SocketTypes DEF SocketsInv
<1>4. /\ IsFiniteSet(Unclaimed') /\ Cardinality(Unclaimed') <= Cardinality(Unclaimed) + 1
      /\ Cardinality(Unclaimed') \in Nat /\ Cardinality(Unclaimed) \in Nat
  BY OneMoreUnclaimed
<1>5. Cardinality(Unclaimed') <= fault' + Cardinality(Done')
  BY <1>1, <1>2, <1>3, <1>4
<1>6. QED
  BY <1>2, <1>4, <1>5 DEF Bounded

LEMMA UnclaimedByRegister ==
  ASSUME I!ConnectionsAssumption, SocketsInv, NEW x, Unclaimed' \subseteq Unclaimed \cup {x},
         Done' = Done, fault' = fault + 1
  PROVE  Bounded'
<1>1. IsFiniteSet(Done) /\ Cardinality(Done) \in Nat /\ Cardinality(Unclaimed) <= fault + Cardinality(Done)
  BY FS_CardinalityType DEF SocketsInv
<1>2. fault \in Nat
  BY SocketTypes DEF SocketsInv
<1>3. QED
  BY <1>1, <1>2, OneMoreUnclaimed DEF Bounded

\* A step without a reconnect.
LEMMA RegistryMoves ==
  ASSUME I!ConnectionsAssumption, SocketsInv, I!TypeOK', UNCHANGED reconnect, RegisteredOpen', Bounded',
         \A r \in Processes : reconnect[r].pc \in Holding => ClientHeld(r)',
         IsFiniteSet(I!Registered'), Cardinality(I!Registered') <= MaxConns
  PROVE  SocketsInv'
  BY DEF Bounded, SocketsInv

LEMMA SocketRemoveStep ==
  ASSUME I!ConnectionsAssumption, SocketsInv, NEW a \in Mailboxes, I!Remove(a)
  PROVE  SocketsInv'
<1>1. /\ connections \in [Mailboxes -> Clients \cup {I!None}] /\ connections[a] # I!None
      /\ connections' = [connections EXCEPT ![a] = I!None] /\ open' = open \ {connections[a]}
      /\ UNCHANGED <<status, reconnect, fault>> /\ MaxConns \in Nat /\ open \subseteq Clients
  BY SocketTypes DEF SocketsInv, I!Remove, I!Removed, I!Registered
<1>2. I!TypeOK'
  BY <1>1 DEF SocketsInv, I!TypeOK
<1>3. RegisteredOpen'
  BY <1>1 DEF SocketsInv, RegisteredOpen
<1>4. ASSUME NEW r \in Processes, reconnect[r].pc \in Holding PROVE ClientHeld(r)'
  BY <1>1, <1>4, SocketTypes DEF SocketsInv, ClientHeld
<1>5. I!Registered' \subseteq I!Registered
  BY <1>1 DEF I!Registered
<1>6. Unclaimed' \subseteq Unclaimed /\ Done' = Done
  BY <1>1 DEF Unclaimed, Done
<1>7. Bounded'
  BY <1>1, <1>6, UnclaimedFewer
<1>8. QED
  BY <1>1, <1>2, <1>3, <1>4, <1>5, <1>7, RegisteredFewer, RegistryMoves

LEMMA SocketErrorStep ==
  ASSUME I!ConnectionsAssumption, SocketsInv, NEW a \in Mailboxes, I!SetError(a)
  PROVE  SocketsInv'
<1>1. /\ status' = [status EXCEPT ![a] = "error"] /\ UNCHANGED <<connections, open, reconnect, fault>>
      /\ MaxConns \in Nat
  BY SocketTypes DEF SocketsInv, I!SetError
<1>2. I!TypeOK'
  BY <1>1 DEF SocketsInv, I!TypeOK
<1>3. RegisteredOpen' /\ I!Registered' = I!Registered /\ Unclaimed' = Unclaimed /\ Done' = Done
  BY <1>1 DEF SocketsInv, RegisteredOpen, I!Registered, Unclaimed, Done
<1>4. ASSUME NEW r \in Processes, reconnect[r].pc \in Holding PROVE ClientHeld(r)'
  BY <1>1, <1>4 DEF SocketsInv, ClientHeld
<1>5. Bounded'
  BY <1>1, <1>3, UnclaimedFewer
<1>6. QED
  BY <1>1, <1>2, <1>3, <1>4, <1>5, RegisteredFewer, RegistryMoves

LEMMA SocketRegisterStep ==
  ASSUME I!ConnectionsAssumption, SocketsInv, NEW a \in Mailboxes, NEW c \in Clients, I!Register(a, c)
  PROVE  SocketsInv'
<1>1. /\ connections \in [Mailboxes -> Clients \cup {I!None}] /\ RegisteredOpen
      /\ connections' = [connections EXCEPT ![a] = c] /\ open' = open \cup {c} /\ c \notin open
      /\ status' = [status EXCEPT ![a] = "connected"] /\ UNCHANGED reconnect
      /\ MaxConns \in Nat /\ open \subseteq Clients /\ ~I!Full /\ I!None \notin Clients
  BY SocketTypes DEF SocketsInv, I!Register, I!Put
<1>2. IF a \in I!Registered THEN fault < MaxFaults /\ fault' = fault + 1 ELSE UNCHANGED fault
  BY DEF I!Register
<1>3. I!TypeOK'
  <2>1. fault' \in 0 .. MaxFaults
    BY <1>2 DEF SocketsInv, I!TypeOK, I!ConnectionsAssumption
  <2>2. QED
    BY <1>1, <2>1 DEF SocketsInv, I!TypeOK
<1>4. RegisteredOpen'
  BY <1>1 DEF RegisteredOpen
<1>5. ASSUME NEW r \in Processes, reconnect[r].pc \in Holding PROVE ClientHeld(r)'
  BY <1>1, <1>5 DEF SocketsInv, ClientHeld
<1>6. I!Registered' = I!Registered \cup {a}
  BY <1>1 DEF I!Registered
<1>7. Done' = Done /\ Unclaimed' \subseteq Unclaimed \cup {connections[a]}
  BY <1>1 DEF Done, Unclaimed
<1>8. Bounded'
  <2>1. CASE a \in I!Registered
    BY <1>2, <1>7, <2>1, UnclaimedByRegister
  <2>2. CASE a \notin I!Registered
    <3>1. connections[a] \notin open
      BY <1>1, <2>2 DEF I!Registered
    <3>2. Unclaimed' \subseteq Unclaimed
      BY <1>1, <1>7, <3>1 DEF Unclaimed
    <3>3. QED
      BY <1>2, <1>7, <2>2, <3>2, UnclaimedFewer
  <2>3. QED
    BY <2>1, <2>2
<1>9. QED
  BY <1>1, <1>3, <1>4, <1>5, <1>6, <1>8, RegisteredOneMore, RegistryMoves

LEMMA SocketCloseAllStep ==
  ASSUME I!ConnectionsAssumption, SocketsInv, I!CloseAll
  PROVE  SocketsInv'
<1>1. /\ connections \in [Mailboxes -> Clients \cup {I!None}]
      /\ connections' = [a \in Mailboxes |-> I!None]
      /\ open' = open \ {connections[a] : a \in I!Registered}
      /\ UNCHANGED <<status, reconnect, fault>> /\ MaxConns \in Nat /\ open \subseteq Clients
      /\ I!None \notin Clients
  BY SocketTypes DEF SocketsInv, I!CloseAll
<1>2. I!TypeOK'
  BY <1>1 DEF SocketsInv, I!TypeOK
<1>3. RegisteredOpen'
  BY <1>1 DEF RegisteredOpen
<1>4. ASSUME NEW r \in Processes, reconnect[r].pc \in Holding PROVE ClientHeld(r)'
  BY <1>1, <1>4 DEF SocketsInv, ClientHeld, I!Registered
<1>5. I!Registered' \subseteq I!Registered
  BY <1>1 DEF I!Registered
<1>6. Unclaimed' \subseteq Unclaimed
  <2>1. ASSUME NEW x \in Unclaimed' PROVE x \in Unclaimed
    BY <1>1 DEF Unclaimed, I!Registered
  <2>2. QED
    BY <2>1
<1>7. Done' = Done
  BY <1>1 DEF Done
<1>8. Bounded'
  BY <1>1, <1>6, <1>7, UnclaimedFewer
<1>9. QED
  BY <1>1, <1>2, <1>3, <1>4, <1>5, <1>8, RegisteredFewer, RegistryMoves

\* A reconnect that moves without the registry or a client.
LEMMA ReconnectMoves ==
  ASSUME I!ConnectionsAssumption, SocketsInv, NEW r \in Processes, NEW d \in Reconnecting,
         reconnect' = [reconnect EXCEPT ![r] = d], Reconnected(d),
         d.pc \notin Holding \cup {"done"}, reconnect[r].pc \notin Holding \cup {"done"},
         UNCHANGED <<connections, status, open, fault>>
  PROVE  SocketsInv'
<1>1. \A o \in Processes : reconnect'[o] = IF o = r THEN d ELSE reconnect[o]
  BY SocketTypes DEF SocketsInv
<1>2. I!TypeOK'
  BY SocketTypes DEF SocketsInv, I!TypeOK, Reconnecting
<1>3. RegisteredOpen' /\ I!Registered' = I!Registered
  BY DEF SocketsInv, RegisteredOpen, I!Registered
<1>4. ASSUME NEW o \in Processes, reconnect'[o].pc \in Holding PROVE ClientHeld(o)'
  BY <1>1, <1>4 DEF SocketsInv, ClientHeld
<1>5. Unclaimed' = Unclaimed /\ Done' = Done
  BY <1>1 DEF Unclaimed, Done
<1>6. \A o \in Processes : Reconnected(reconnect'[o])
  BY <1>1 DEF SocketsInv
<1>7. MaxConns \in Nat
  BY DEF I!ConnectionsAssumption
<1>8. QED
  BY <1>2, <1>3, <1>4, <1>5, <1>6, <1>7, RegisteredFewer, UnclaimedFewer DEF SocketsInv, Bounded

LEMMA BeginStep ==
  ASSUME I!ConnectionsAssumption, SocketsInv, NEW r \in Processes, NEW a \in Mailboxes, I!Begin(r, a)
  PROVE  SocketsInv'
<1>1. reconnect[r] \in Reconnecting /\ reconnect[r].pc = "idle" /\ Reconnected(reconnect[r])
  BY SocketTypes DEF SocketsInv, I!Begin
<1>2. PICK d \in Reconnecting : /\ reconnect' = [reconnect EXCEPT ![r] = d] /\ d.pc = "dial"
                                /\ d.account = a /\ d.attempt = reconnect[r].attempt
  <2>1. /\ [reconnect[r] EXCEPT !.pc = "dial", !.account = a] \in Reconnecting
        /\ [reconnect[r] EXCEPT !.pc = "dial", !.account = a].pc = "dial"
        /\ [reconnect[r] EXCEPT !.pc = "dial", !.account = a].account = a
        /\ [reconnect[r] EXCEPT !.pc = "dial", !.account = a].attempt = reconnect[r].attempt
    BY <1>1 DEF Reconnecting
  <2>2. reconnect' = [reconnect EXCEPT ![r] = [reconnect[r] EXCEPT !.pc = "dial", !.account = a]]
    BY DEF I!Begin
  <2>3. QED
    BY <2>1, <2>2
<1>3. Reconnected(d) /\ d.pc \notin Holding \cup {"done"} /\ reconnect[r].pc \notin Holding \cup {"done"}
  BY <1>1, <1>2 DEF Reconnected, Holding
<1>4. QED
  BY <1>2, <1>3, ReconnectMoves DEF I!Begin

LEMMA CancelledStep ==
  ASSUME I!ConnectionsAssumption, SocketsInv, NEW r \in Processes, I!Cancelled(r)
  PROVE  SocketsInv'
<1>1. reconnect[r] \in Reconnecting /\ reconnect[r].pc = "dial" /\ Reconnected(reconnect[r])
  BY SocketTypes DEF SocketsInv, I!Cancelled
<1>2. PICK d \in Reconnecting : /\ reconnect' = [reconnect EXCEPT ![r] = d] /\ d.pc = "failed"
                                /\ d.account = reconnect[r].account
  <2>1. [reconnect[r] EXCEPT !.pc = "failed"] \in Reconnecting
    BY <1>1 DEF Reconnecting
  <2>2. reconnect' = [reconnect EXCEPT ![r] = [reconnect[r] EXCEPT !.pc = "failed"]]
    BY DEF I!Cancelled, I!Goto
  <2>3. QED
    BY <1>1, <2>1, <2>2 DEF Reconnecting
<1>3. Reconnected(d) /\ d.pc \notin Holding \cup {"done"} /\ reconnect[r].pc \notin Holding \cup {"done"}
  BY <1>1, <1>2 DEF Reconnected, Holding
<1>4. QED
  BY <1>2, <1>3, ReconnectMoves DEF I!Cancelled

LEMMA DialFailsStep ==
  ASSUME I!ConnectionsAssumption, SocketsInv, NEW r \in Processes,
         reconnect[r].pc = "dial", UNCHANGED <<connections, status, open, fault>>,
         reconnect' = [reconnect EXCEPT ![r].attempt = @ + 1,
                         ![r].pc = IF reconnect[r].attempt + 1 >= MaxAttempts THEN "failed" ELSE "dial"]
  PROVE  SocketsInv'
<1>1. reconnect[r] \in Reconnecting /\ Reconnected(reconnect[r]) /\ MaxAttempts \in Nat
      /\ reconnect \in [Processes -> Reconnecting]
  BY SocketTypes DEF SocketsInv
<1>2. PICK n : n = reconnect[r].attempt + 1
  OBVIOUS
<1>3. PICK pc : pc = IF n >= MaxAttempts THEN "failed" ELSE "dial"
  OBVIOUS
<1>4. n \in 0 .. MaxAttempts /\ (pc = "dial" => n < MaxAttempts) /\ pc \in {"failed", "dial"}
  BY <1>1, <1>2, <1>3 DEF Reconnected, Reconnecting
<1>5. PICK d \in Reconnecting : /\ reconnect' = [reconnect EXCEPT ![r] = d] /\ d.pc = pc
                                /\ d.account = reconnect[r].account /\ d.attempt = n
  <2>1. /\ [reconnect[r] EXCEPT !.attempt = n, !.pc = pc] \in Reconnecting
        /\ [reconnect[r] EXCEPT !.attempt = n, !.pc = pc].pc = pc
        /\ [reconnect[r] EXCEPT !.attempt = n, !.pc = pc].attempt = n
        /\ [reconnect[r] EXCEPT !.attempt = n, !.pc = pc].account = reconnect[r].account
    BY <1>1, <1>4 DEF Reconnecting
  <2>2. reconnect' = [reconnect EXCEPT ![r] = [reconnect[r] EXCEPT !.attempt = n, !.pc = pc]]
    BY <1>1, <1>2, <1>3
  <2>3. QED
    BY <2>1, <2>2
<1>6. Reconnected(d) /\ d.pc \notin Holding \cup {"done"} /\ reconnect[r].pc \notin Holding \cup {"done"}
  BY <1>1, <1>4, <1>5 DEF Reconnected, Holding
<1>7. QED
  BY <1>5, <1>6, ReconnectMoves

LEMMA DialsStep ==
  ASSUME I!ConnectionsAssumption, SocketsInv, NEW r \in Processes, NEW c \in Clients \ (open \cup I!Held),
         reconnect[r].pc = "dial", open' = open \cup {c}, UNCHANGED <<connections, status, fault>>,
         reconnect' = [reconnect EXCEPT ![r].pc = "remove", ![r].client = c]
  PROVE  SocketsInv'
<1>1. /\ reconnect[r] \in Reconnecting /\ Reconnected(reconnect[r]) /\ MaxConns \in Nat
      /\ reconnect \in [Processes -> Reconnecting] /\ open \subseteq Clients /\ I!None \notin Clients
      /\ connections \in [Mailboxes -> Clients \cup {I!None}]
  BY SocketTypes DEF SocketsInv
<1>2. PICK d \in Reconnecting : /\ reconnect' = [reconnect EXCEPT ![r] = d] /\ d.pc = "remove"
                                /\ d.account = reconnect[r].account /\ d.client = c
  <2>1. /\ [reconnect[r] EXCEPT !.pc = "remove", !.client = c] \in Reconnecting
        /\ [reconnect[r] EXCEPT !.pc = "remove", !.client = c].pc = "remove"
        /\ [reconnect[r] EXCEPT !.pc = "remove", !.client = c].client = c
        /\ [reconnect[r] EXCEPT !.pc = "remove", !.client = c].account = reconnect[r].account
    BY <1>1 DEF Reconnecting
  <2>2. reconnect' = [reconnect EXCEPT ![r] = [reconnect[r] EXCEPT !.pc = "remove", !.client = c]]
    OBVIOUS
  <2>3. QED
    BY <2>1, <2>2
<1>3. \A o \in Processes : reconnect'[o] = IF o = r THEN d ELSE reconnect[o]
  BY <1>1, <1>2
<1>4. I!TypeOK'
  <2>1. reconnect' \in [Processes -> Reconnecting]
    BY <1>1, <1>2
  <2>2. open' \subseteq Clients
    BY <1>1
  <2>3. QED
    BY <1>1, <2>1, <2>2 DEF SocketsInv, I!TypeOK, Reconnecting
<1>5. RegisteredOpen' /\ I!Registered' = I!Registered
  BY DEF SocketsInv, RegisteredOpen, I!Registered
<1>6. \A a \in Mailboxes : connections[a] # c
  BY <1>1 DEF SocketsInv, RegisteredOpen
<1>7. \A o \in Processes : reconnect[o].pc \in Holding => reconnect[o].client # c
  BY DEF I!Held, Holding
<1>8. ASSUME NEW o \in Processes, reconnect'[o].pc \in Holding PROVE ClientHeld(o)'
  <2>1. CASE o = r
    BY <1>2, <1>3, <1>6, <1>7, <2>1 DEF ClientHeld
  <2>2. CASE o # r
    <3>1. ClientHeld(o) /\ reconnect'[o] = reconnect[o]
      BY <1>3, <1>8, <2>2 DEF SocketsInv
    <3>2. QED
      BY <1>2, <1>3, <3>1 DEF ClientHeld
  <2>3. QED
    BY <2>1, <2>2
<1>9. Unclaimed' \subseteq Unclaimed
  <2>1. ASSUME NEW x \in Unclaimed' PROVE x \in Unclaimed
    BY <1>2, <1>3 DEF Holding, Unclaimed
  <2>2. QED
    BY <2>1
<1>10. Done' = Done
  BY <1>2, <1>3 DEF Done
<1>11. \A o \in Processes : Reconnected(reconnect'[o])
  BY <1>1, <1>2, <1>3 DEF SocketsInv, Reconnected
<1>12. QED
  BY <1>1, <1>4, <1>5, <1>8, <1>9, <1>10, <1>11, RegisteredFewer, UnclaimedFewer DEF SocketsInv, Bounded

\* A reconnect that keeps its client while it removes the connection there is.
LEMMA RemoveOldStep ==
  ASSUME I!ConnectionsAssumption, SocketsInv, NEW r \in Processes, I!RemoveOld(r)
  PROVE  SocketsInv'
<1>1. /\ reconnect[r] \in Reconnecting /\ Reconnected(reconnect[r]) /\ MaxConns \in Nat
      /\ reconnect \in [Processes -> Reconnecting] /\ open \subseteq Clients /\ I!None \notin Clients
      /\ connections \in [Mailboxes -> Clients \cup {I!None}]
      /\ reconnect[r].pc = "remove" /\ UNCHANGED <<status, fault>>
  BY SocketTypes DEF SocketsInv, I!RemoveOld
<1>2. PICK d \in Reconnecting : /\ reconnect' = [reconnect EXCEPT ![r] = d] /\ d.pc = "register"
                                /\ d.account = reconnect[r].account /\ d.client = reconnect[r].client
  <2>1. [reconnect[r] EXCEPT !.pc = "register"] \in Reconnecting
    BY <1>1 DEF Reconnecting
  <2>2. reconnect' = [reconnect EXCEPT ![r] = [reconnect[r] EXCEPT !.pc = "register"]]
    BY DEF I!RemoveOld, I!Goto
  <2>3. QED
    BY <1>1, <2>1, <2>2 DEF Reconnecting
<1>3. PICK a : a = reconnect[r].account
  OBVIOUS
<1>4. a \in Mailboxes
  BY <1>1, <1>3 DEF Reconnected
<1>5. /\ connections' = [connections EXCEPT ![a] = I!None]
      /\ open' = open \ {connections[a]}
  <2>1. CASE a \in I!Registered
    BY <1>3, <2>1 DEF I!RemoveOld, I!Removed
  <2>2. CASE a \notin I!Registered
    BY <1>1, <1>3, <1>4, <2>2 DEF I!RemoveOld, I!Registered
  <2>3. QED
    BY <2>1, <2>2
<1>6. \A o \in Processes : /\ reconnect'[o].client = reconnect[o].client
                           /\ reconnect'[o].pc \in Holding <=> reconnect[o].pc \in Holding
                           /\ reconnect'[o].pc = "done" <=> reconnect[o].pc = "done"
  BY <1>1, <1>2 DEF Holding
<1>7. I!TypeOK'
  BY <1>1, <1>2, <1>4, <1>5 DEF SocketsInv, I!TypeOK, Reconnecting
<1>8. RegisteredOpen'
  BY <1>1, <1>4, <1>5 DEF SocketsInv, RegisteredOpen
<1>9. ASSUME NEW o \in Processes, reconnect'[o].pc \in Holding PROVE ClientHeld(o)'
  BY <1>1, <1>4, <1>5, <1>6, <1>9 DEF SocketsInv, ClientHeld
<1>10. I!Registered' \subseteq I!Registered
  BY <1>1, <1>4, <1>5 DEF I!Registered
<1>11. Unclaimed' \subseteq Unclaimed
  BY <1>1, <1>4, <1>5, <1>6 DEF Unclaimed
<1>12. Done' = Done
  BY <1>6 DEF Done
<1>13. \A o \in Processes : Reconnected(reconnect'[o])
  BY <1>1, <1>2, <1>4 DEF SocketsInv, Reconnected
<1>14. QED
  BY <1>1, <1>7, <1>8, <1>9, <1>10, <1>11, <1>12, <1>13, RegisteredFewer, UnclaimedFewer DEF SocketsInv, Bounded

\* A reconnect that is refused closes its client; one that registers it may
\* overwrite that of another.
LEMMA RegisterNewStep ==
  ASSUME I!ConnectionsAssumption, SocketsInv, NEW r \in Processes, I!RegisterNew(r)
  PROVE  SocketsInv'
<1>1. /\ reconnect[r] \in Reconnecting /\ Reconnected(reconnect[r]) /\ MaxConns \in Nat
      /\ reconnect \in [Processes -> Reconnecting] /\ open \subseteq Clients /\ I!None \notin Clients
      /\ connections \in [Mailboxes -> Clients \cup {I!None}]
      /\ reconnect[r].pc = "register" /\ UNCHANGED fault
  BY SocketTypes DEF SocketsInv, I!RegisterNew
<1>2. PICK a, c : a = reconnect[r].account /\ c = reconnect[r].client
  OBVIOUS
<1>3. /\ a \in Mailboxes /\ c \in open /\ c \in Clients /\ \A b \in Mailboxes : connections[b] # c
      /\ \A o \in Processes \ {r} : reconnect[o].pc \in Holding => reconnect[o].client # c
  BY <1>1, <1>2 DEF SocketsInv, Reconnected, ClientHeld, Holding
<1>4. PICK pc : pc = IF I!Full THEN "failed" ELSE "done"
  OBVIOUS
<1>5. PICK d \in Reconnecting : /\ reconnect' = [reconnect EXCEPT ![r] = d] /\ d.pc = pc
                                /\ d.account = a /\ d.client = c
  BY <1>1, <1>2, <1>4 DEF Reconnecting, I!RegisterNew, I!Goto
<1>6. \A o \in Processes : reconnect'[o] = IF o = r THEN d ELSE reconnect[o]
  BY <1>1, <1>5
<1>7. d.pc \notin Holding \cup {"idle", "dial"} /\ (d.pc = "done" <=> ~I!Full)
  BY <1>4, <1>5 DEF Holding
<1>8. reconnect' \in [Processes -> Reconnecting]
  BY <1>1, <1>5
<1>9. \A o \in Processes : Reconnected(reconnect'[o])
  BY <1>3, <1>5, <1>6, <1>7 DEF SocketsInv, Reconnected
<1>10. r \notin Done
  BY <1>1 DEF Done
<1>11. CASE I!Full
  <2>1. open' = open \ {c} /\ UNCHANGED <<connections, status>>
    BY <1>2, <1>11 DEF I!RegisterNew
  <2>2. I!TypeOK'
    BY <1>1, <1>8, <2>1 DEF SocketsInv, I!TypeOK, Reconnecting
  <2>3. RegisteredOpen' /\ I!Registered' = I!Registered
    BY <1>3, <2>1 DEF SocketsInv, RegisteredOpen, I!Registered
  <2>4. ASSUME NEW o \in Processes, reconnect'[o].pc \in Holding PROVE ClientHeld(o)'
    BY <1>3, <1>6, <1>7, <2>1, <2>4 DEF SocketsInv, ClientHeld
  <2>5. Unclaimed' \subseteq Unclaimed
    <3>1. ASSUME NEW x \in Unclaimed' PROVE x \in Unclaimed
      BY <1>2, <1>6, <2>1 DEF Unclaimed
    <3>2. QED
      BY <3>1
  <2>6. Done' = Done
    BY <1>6, <1>7, <1>10, <1>11 DEF Done
  <2>7. QED
    BY <1>1, <1>9, <2>2, <2>3, <2>4, <2>5, <2>6, RegisteredFewer, UnclaimedFewer DEF SocketsInv, Bounded
<1>12. CASE ~I!Full
  <2>1. /\ connections' = [connections EXCEPT ![a] = c] /\ UNCHANGED open
        /\ status' = [status EXCEPT ![a] = "connected"]
    BY <1>2, <1>12 DEF I!RegisterNew, I!Put
  <2>2. I!TypeOK'
    BY <1>1, <1>3, <1>8, <2>1 DEF SocketsInv, I!TypeOK, Reconnecting
  <2>3. \A b \in Mailboxes : connections'[b] = IF b = a THEN c ELSE connections[b]
    BY <1>1, <2>1
  <2>4. RegisteredOpen'
    BY <1>3, <2>1, <2>3 DEF SocketsInv, RegisteredOpen
  <2>5. I!Registered' = I!Registered \cup {a}
    BY <1>1, <1>3, <2>3 DEF I!Registered
  <2>6. ASSUME NEW o \in Processes, reconnect'[o].pc \in Holding PROVE ClientHeld(o)'
    <3>1. o # r /\ ClientHeld(o) /\ reconnect'[o] = reconnect[o]
      BY <1>6, <1>7, <2>6 DEF SocketsInv
    <3>2. reconnect[o].client # c /\ reconnect[o].pc \in Holding
      BY <1>3, <2>6, <3>1
    <3>3. QED
      BY <1>6, <1>7, <2>1, <2>3, <3>1, <3>2 DEF ClientHeld
  <2>7. Unclaimed' \subseteq Unclaimed \cup {connections[a]}
    <3>1. ASSUME NEW x \in Unclaimed', x # connections[a] PROVE x \in Unclaimed
      BY <1>2, <1>3, <1>6, <2>1, <2>3, <3>1 DEF Unclaimed
    <3>2. QED
      BY <3>1
  <2>8. Done' = Done \cup {r}
    BY <1>6, <1>7, <1>12 DEF Done
  <2>9. /\ IsFiniteSet(I!Registered') /\ Cardinality(I!Registered') <= MaxConns
    BY <1>1, <1>12, <2>5, RegisteredOneMore
  <2>10. Bounded'
    BY <1>1, <1>10, <2>7, <2>8, UnclaimedByReconnect
  <2>11. QED
    BY <1>9, <2>2, <2>4, <2>6, <2>9, <2>10 DEF SocketsInv, Bounded
<1>13. QED
  BY <1>11, <1>12

LEMMA SocketsNext ==
  ASSUME I!ConnectionsAssumption, SocketsInv, I!Next
  PROVE  SocketsInv'
<1>1. ASSUME NEW a \in Mailboxes, I!Remove(a) \/ I!SetError(a) \/ \E c \in Clients : I!Register(a, c)
      PROVE  SocketsInv'
  BY <1>1, SocketRemoveStep, SocketErrorStep, SocketRegisterStep
<1>2. ASSUME NEW r \in Processes, I!Dial(r) PROVE SocketsInv'
  BY <1>2, DialsStep, DialFailsStep, Zenon DEF I!Dial
<1>3. ASSUME NEW r \in Processes, I!Cancelled(r) \/ I!RemoveOld(r) \/ I!RegisterNew(r)
                                  \/ \E a \in Mailboxes : I!Begin(r, a)
      PROVE  SocketsInv'
  BY <1>3, CancelledStep, RemoveOldStep, RegisterNewStep, BeginStep
<1>4. QED
  BY <1>1, <1>2, <1>3, SocketCloseAllStep, Zenon DEF I!Next

LEMMA SocketsInit ==
  ASSUME I!ConnectionsAssumption, I!Init
  PROVE  SocketsInv
<1>1. /\ connections = [a \in Mailboxes |-> I!None] /\ status = [a \in Mailboxes |-> "connected"]
      /\ open = {} /\ fault = 0 /\ MaxFaults \in Nat /\ MaxConns \in Nat \ {0} /\ MaxAttempts \in Nat \ {0}
      /\ reconnect = [r \in Processes |-> [pc |-> "idle", account |-> I!None, attempt |-> 0, client |-> I!None]]
  BY DEF I!Init, I!ConnectionsAssumption
<1>2. [pc |-> "idle", account |-> I!None, attempt |-> 0, client |-> I!None] \in Reconnecting
  BY <1>1 DEF Reconnecting
<1>3. I!TypeOK
  BY <1>1, <1>2 DEF I!TypeOK, Reconnecting
<1>4. I!Registered = {} /\ Done = {} /\ Unclaimed = {}
  BY <1>1 DEF I!Registered, Done, Unclaimed
<1>5. IsFiniteSet({}) /\ Cardinality({}) = 0
  BY FS_EmptySet
<1>6. \A r \in Processes : reconnect[r].pc \notin Holding /\ Reconnected(reconnect[r])
  <2>1. \A r \in Processes : reconnect[r].pc = "idle" /\ reconnect[r].attempt = 0
    BY <1>1
  <2>2. 0 < MaxAttempts
    BY <1>1
  <2>3. QED
    BY <2>1, <2>2 DEF Holding, Reconnected
<1>7. RegisteredOpen
  BY <1>1 DEF RegisteredOpen
<1>8. QED
  BY <1>1, <1>3, <1>4, <1>5, <1>6, <1>7 DEF SocketsInv

LEMMA SocketsInvHolds ==
  ASSUME I!ConnectionsAssumption, SocketsInv
  PROVE  I!ConnectionsHeld
<1>1. \A a, b \in I!Registered : connections[a] \in open /\ (connections[a] = connections[b] => a = b)
  BY DEF SocketsInv, RegisteredOpen, I!Registered
<1>2. I!Lost = Unclaimed
  <2>1. I!None \notin open /\ I!Registered = {a \in Mailboxes : connections[a] # I!None}
    BY SocketTypes DEF SocketsInv
  <2>2. ASSUME NEW x PROVE x \in I!Lost <=> x \in Unclaimed
    BY <2>1 DEF I!Lost, I!Held, Unclaimed, Holding
  <2>3. QED
    BY <2>2
<1>3. I!Cardinality(I!Registered) = Cardinality(I!Registered)
  BY Zenon DEF I!Cardinality, Cardinality
<1>4. I!Cardinality(Unclaimed) = Cardinality(Unclaimed)
  BY Zenon DEF I!Cardinality, Cardinality
<1>5. I!Cardinality(Done) = Cardinality(Done)
  BY Zenon DEF I!Cardinality, Cardinality
<1>6. I!OneConnection
  BY <1>1, <1>2, <1>3, <1>4, <1>5 DEF SocketsInv, I!OneConnection, I!Count, Done
<1>7. QED
  BY <1>6 DEF SocketsInv, I!ConnectionsHeld

LEMMA SocketsStutter ==
  ASSUME SocketsInv, UNCHANGED I!vars
  PROVE  SocketsInv'
  BY DEF SocketsInv, I!vars, I!TypeOK, RegisteredOpen, ClientHeld, Reconnected, Done, Unclaimed,
         I!Registered
-------------------------------------------------------------------------------
(* Watchers.                                                               *)

Watching == [pc : {"idle", "search", "fetch", "messages", "stopped"}, last : Nat,
             batch : SUBSET W!Messages, skipped : SUBSET W!Messages, failed : SUBSET W!Messages]
Listed == [pc : {"idle", "messages", "done"}, left : SUBSET W!Messages,
           listed : Nat, synced : Nat, failed : Nat]
Handed == [last : Nat, handed : SUBSET W!Messages]

MailThere ==
  /\ W!There = 1 .. W!Last /\ W!Last \in Nat /\ W!Last <= MaxUid
  /\ \A m \in W!There : arrived[m] \in Nat
  /\ stored \subseteq W!Uids \X W!There /\ queued \subseteq W!There
  /\ hour \in 0 .. MailDays /\ fault \in 0 .. MailFaults
  /\ exists \in BOOLEAN /\ cursor \in BOOLEAN

\* Of the last day nothing between the watermark and a message of the batch is
\* missing from it, but what failed and, once fetched, what the fetch left out.
LeftOut(d) == d.failed \cup (IF d.pc = "messages" THEN d.skipped ELSE {})
BatchWhole(d) ==
  d.pc \in {"fetch", "messages"} =>
    \A b \in d.batch : /\ d.last < b
                       /\ \A m \in W!Recent : d.last < m /\ m < b => m \in d.batch \cup LeftOut(d)
WatchOK(d) ==
  /\ d \in Watching /\ d.last <= W!Last /\ d.batch \cup d.skipped \subseteq W!There
  /\ W!Push => d.pc = "stopped"
  /\ BatchWhole(d)

GmailOK(d) ==
  /\ d \in Listed /\ d.left \subseteq W!There
  /\ d.pc = "messages" => W!Push /\ d.synced + d.failed + Cardinality(d.left) = d.listed
  /\ d.pc = "done" => d.synced + d.failed = d.listed

HistoryOK(d) ==
  /\ d \in Handed /\ d.last <= W!Last /\ d.handed \subseteq W!There
  /\ \A m \in 1 .. d.last : m \in d.handed

\* A watcher stores a message under its own uid, the list of Gmail one at most.
RowsOfOneKind ==
  /\ W!Push => (\A x, y \in stored : x = y) /\ \A x \in stored : x[1] = 0
  /\ ~W!Push => \A x \in stored : x[1] = x[2]

Unqueued == {m \in W!There : W!Stored(m)} \ queued
QueuedFirst ==
  ~W!Push => (\A m \in queued : W!Stored(m)) /\ Cardinality(Unqueued) <= fault

WatchInv ==
  /\ MailThere /\ WatchOK(watch) /\ GmailOK(gmail) /\ HistoryOK(history)
  /\ RowsOfOneKind /\ QueuedFirst

LEMMA WatchSizes ==
  ASSUME W!WatchAssumption
  PROVE  /\ MaxUid \in Nat /\ MailWindow \in Nat /\ MailDays \in Nat /\ MailFaults \in Nat
         /\ W!Messages = 1 .. MaxUid
  BY DEF W!WatchAssumption, W!Messages

LEMMA SameCardinality ==
  ASSUME NEW S
  PROVE  W!Cardinality(S) = Cardinality(S)
  BY Zenon DEF W!Cardinality, Cardinality

\* The sets of messages are finite.
LEMMA MessagesFinite ==
  ASSUME MailThere, NEW S, S \subseteq W!There
  PROVE  IsFiniteSet(S) /\ Cardinality(S) \in Nat
<1>1. IsFiniteSet(W!There)
  BY FS_Interval DEF MailThere
<1>2. IsFiniteSet(S)
  BY <1>1, FS_Subset
<1>3. QED
  BY <1>2, FS_CardinalityType

\* A set of messages has a first and a last one.
LEMMA FirstOf ==
  ASSUME NEW T \in SUBSET Nat, T # {}
  PROVE  W!Min(T) \in T /\ \A o \in T : W!Min(T) <= o
<1> DEFINE Before == OpToRel(<, Nat)
<1>1. IsWellFoundedOn(Before, Nat)
  BY NatLessThanWellFounded
<1>2. \A x, y \in Nat : y < x => <<y, x>> \in Before
  BY DEF OpToRel
<1> HIDE DEF Before
<1>3. PICK x \in T : \A y \in T : ~ (<<y, x>> \in Before)
  BY <1>1, WFMin
<1>4. ASSUME NEW y \in T PROVE x =< y
  <2>1. x \in Nat /\ y \in Nat
    OBVIOUS
  <2>2. ~ (y < x)
    BY <1>2, <1>3, <2>1, Zenon
  <2>3. QED
    BY <2>1, <2>2
<1>5. QED
  BY <1>4 DEF W!Min

LEMMA LastOf ==
  ASSUME NEW n \in Nat, NEW T \in SUBSET (1 .. n), T # {}
  PROVE  W!Max(T) \in T /\ \A o \in T : o <= W!Max(T)
<1> DEFINE M1 == {n - k : k \in T}
<1>1. M1 \in SUBSET Nat /\ M1 # {}
  <2>1. \A k \in 1 .. n : n - k \in Nat
    OBVIOUS
  <2>2. \A k \in T : k \in 1 .. n
    OBVIOUS
  <2>3. \A k \in T : n - k \in Nat
    BY <2>1, <2>2, Zenon
  <2>4. M1 \subseteq Nat
    BY <2>3, Zenon
  <2>5. M1 # {}
    BY Zenon
  <2>6. QED
    BY <2>4, <2>5
<1>2. \A k \in T : n - k \in M1
  OBVIOUS
<1>3. \A y \in M1 : \E k \in T : y = n - k
  OBVIOUS
<1> HIDE DEF M1
<1>4. W!Min(M1) \in M1 /\ \A y \in M1 : W!Min(M1) <= y
  BY <1>1, FirstOf
<1>5. PICK k \in T : W!Min(M1) = n - k
  BY <1>3, <1>4
<1>6. ASSUME NEW o \in T PROVE k >= o
  BY <1>2, <1>4, <1>5
<1>7. QED
  BY <1>6 DEF W!Max

\* What of the invariant a step leaves alone, while messages may arrive and
\* days pass.
LEMMA WatchStays ==
  ASSUME MailThere, WatchOK(watch), UNCHANGED <<watch, strategy>>,
         W!Last' \in Nat, W!There' = 1 .. W!Last', W!Last <= W!Last',
         \A m \in W!Recent' : m \in W!Recent \/ m \notin W!There
  PROVE  WatchOK(watch)'
<1>1. /\ W!There = 1 .. W!Last /\ W!Last \in Nat /\ W!There \subseteq W!There' /\ watch \in Watching
      /\ W!Recent' \subseteq W!There' /\ watch.last \in Nat
  BY DEF MailThere, W!Recent, WatchOK, Watching
<1>2. BatchWhole(watch)'
  <2>1. SUFFICES ASSUME watch.pc \in {"fetch", "messages"}, NEW b \in watch.batch
                 PROVE  /\ watch.last < b
                        /\ \A m \in W!Recent' : watch.last < m /\ m < b =>
                             m \in watch.batch \cup LeftOut(watch)
    BY DEF BatchWhole, LeftOut
  <2>2. /\ watch.last < b /\ b \in W!There
        /\ \A m \in W!Recent : watch.last < m /\ m < b => m \in watch.batch \cup LeftOut(watch)
    BY <2>1 DEF WatchOK, BatchWhole
  <2>3. ASSUME NEW m \in W!Recent', watch.last < m, m < b
        PROVE  m \in watch.batch \cup LeftOut(watch)
    BY <1>1, <2>2, <2>3
  <2>4. QED
    BY <2>2, <2>3
<1>3. /\ watch' \in Watching /\ watch'.last <= W!Last'
      /\ watch'.batch \cup watch'.skipped \subseteq W!There'
  BY <1>1 DEF WatchOK, Watching
<1>4. W!Push' => watch'.pc = "stopped"
  BY DEF WatchOK, W!Push
<1>5. QED
  BY <1>2, <1>3, <1>4 DEF WatchOK, Watching, BatchWhole, LeftOut, W!Messages

LEMMA GmailStays ==
  ASSUME GmailOK(gmail), UNCHANGED <<gmail, strategy>>, W!There \subseteq W!There'
  PROVE  GmailOK(gmail)'
  BY DEF GmailOK, Listed, W!Messages, W!Push

LEMMA HistoryStays ==
  ASSUME MailThere, HistoryOK(history), UNCHANGED history, W!There \subseteq W!There',
         W!Last' \in Nat, W!Last <= W!Last'
  PROVE  HistoryOK(history)'
  BY DEF HistoryOK, Handed, MailThere, W!Messages

LEMMA RowsStay ==
  ASSUME RowsOfOneKind, UNCHANGED <<stored, strategy>>
  PROVE  RowsOfOneKind'
  BY DEF RowsOfOneKind, W!Push

LEMMA QueueStays ==
  ASSUME MailThere, QueuedFirst, UNCHANGED <<stored, queued, strategy>>,
         W!There \subseteq W!There', fault' \in Nat, fault <= fault'
  PROVE  QueuedFirst'
<1>1. /\ \A m : W!Stored(m)' <=> W!Stored(m)
      /\ \A m : W!Stored(m) => m \in W!There
      /\ W!Push' <=> W!Push
  BY DEF W!Stored, W!Uids, W!Push, MailThere
<1>2. Unqueued' = Unqueued
  BY <1>1 DEF Unqueued
<1>3. Cardinality(Unqueued) \in Nat /\ fault \in Nat
  BY MessagesFinite DEF Unqueued, MailThere
<1>4. QED
  BY <1>1, <1>2, <1>3 DEF QueuedFirst

\* The mail of an action that neither receives nor stores any.
LEMMA MailStays ==
  ASSUME W!WatchAssumption, MailThere, UNCHANGED <<arrived, stored, queued>>,
         hour' = hour \/ hour' \in 0 .. MailDays, UNCHANGED fault \/ W!Fault,
         exists' \in BOOLEAN, cursor' \in BOOLEAN
  PROVE  /\ MailThere' /\ fault' \in Nat /\ fault <= fault'
         /\ W!There' = W!There /\ W!Last' = W!Last
  BY WatchSizes DEF W!There, W!Last, MailThere, W!Fault, W!Uids

\* A step of the watcher that stores nothing.
LEMMA WatcherMoves ==
  ASSUME W!WatchAssumption, WatchInv,
         UNCHANGED <<strategy, arrived, stored, queued, gmail, cursor, history, hour>>,
         UNCHANGED fault \/ W!Fault, exists' \in BOOLEAN, WatchOK(watch')
  PROVE  WatchInv'
<1>1. MailThere /\ cursor' \in BOOLEAN
  BY DEF WatchInv, MailThere
<1>2. /\ MailThere' /\ fault' \in Nat /\ fault <= fault'
      /\ W!There' = W!There /\ W!Last' = W!Last
  BY <1>1, MailStays
<1>3. WatchOK(watch)'
  BY <1>2 DEF W!Recent, WatchOK, Watching, BatchWhole, LeftOut, W!Messages, W!Push
<1>4. W!Last' \in Nat /\ W!Last <= W!Last'
  BY <1>1, <1>2 DEF MailThere
<1>5. QED
  BY <1>1, <1>2, <1>3, <1>4, GmailStays, HistoryStays, RowsStay, QueueStays DEF WatchInv

LEMMA MailArriveStep ==
  ASSUME W!WatchAssumption, WatchInv, W!Arrive, UNCHANGED strategy
  PROVE  WatchInv'
<1>1. /\ MailThere /\ W!There = 1 .. W!Last /\ W!Last \in Nat /\ W!Last < MaxUid
      /\ arrived' = [m \in 1 .. W!Last + 1 |-> IF m \in W!There THEN arrived[m] ELSE hour]
      /\ exists' \in BOOLEAN /\ MaxUid \in Nat /\ hour \in Nat /\ fault \in Nat
      /\ UNCHANGED <<stored, queued, watch, gmail, cursor, history, hour, fault>>
  BY WatchSizes DEF WatchInv, MailThere, W!Arrive
<1>2. W!There' = 1 .. W!Last + 1
  BY <1>1 DEF W!There
<1>3. W!Last' = W!Last + 1
  BY <1>1, <1>2, FS_Interval, SameCardinality DEF W!Last
<1>4. /\ W!There' = 1 .. W!Last' /\ W!Last' \in Nat /\ W!Last <= W!Last' /\ W!Last' <= MaxUid
      /\ W!There \subseteq W!There'
  BY <1>1, <1>2, <1>3
<1>5. \A m \in W!There' : arrived'[m] \in Nat
  BY <1>1, <1>2 DEF MailThere
<1>6. MailThere'
  BY <1>1, <1>4, <1>5 DEF MailThere, W!Uids
<1>7. \A m \in W!Recent' : m \in W!Recent \/ m \notin W!There
  BY <1>1, <1>2 DEF W!Recent
<1>8. QED
  BY <1>1, <1>4, <1>6, <1>7, WatchStays, GmailStays, HistoryStays, RowsStay, QueueStays DEF WatchInv

LEMMA NextDayStep ==
  ASSUME W!WatchAssumption, WatchInv, W!NextDay, UNCHANGED strategy
  PROVE  WatchInv'
<1>1. /\ MailThere /\ hour' = hour + 1 /\ hour \in Nat /\ hour' \in 0 .. MailDays
      /\ UNCHANGED <<arrived, stored, queued, watch, gmail, cursor, history, exists, fault>>
      /\ exists' \in BOOLEAN /\ cursor' \in BOOLEAN
  BY WatchSizes DEF WatchInv, MailThere, W!NextDay, W!mail
<1>2. /\ MailThere' /\ fault' \in Nat /\ fault <= fault'
      /\ W!There' = W!There /\ W!Last' = W!Last
  BY <1>1, MailStays
<1>3. \A m \in W!Recent' : m \in W!Recent \/ m \notin W!There
  BY <1>1, <1>2 DEF W!Recent, MailThere
<1>4. W!Last' \in Nat /\ W!Last <= W!Last' /\ W!There' = 1 .. W!Last'
  BY <1>1, <1>2 DEF MailThere
<1>5. QED
  BY <1>1, <1>2, <1>3, <1>4, WatchStays, GmailStays, HistoryStays, RowsStay, QueueStays DEF WatchInv

LEMMA RunStep ==
  ASSUME W!WatchAssumption, WatchInv, W!Run, UNCHANGED strategy
  PROVE  WatchInv'
<1>1. watch \in Watching /\ ~W!Push /\ WatchOK(watch) /\ MailThere
  BY DEF WatchInv, WatchOK, W!Run
<1>2. PICK d : d = [watch EXCEPT !.pc = "idle", !.last = 0]
  OBVIOUS
<1>3. /\ d \in Watching /\ d.pc = "idle" /\ d.last = 0 /\ d.batch = watch.batch
      /\ d.skipped = watch.skipped
  BY <1>1, <1>2 DEF Watching
<1>4. WatchOK(d)
  BY <1>1, <1>3 DEF WatchOK, BatchWhole, MailThere
<1>5. QED
  BY <1>2, <1>4, WatcherMoves DEF W!Run, W!Still

LEMMA StopStep ==
  ASSUME W!WatchAssumption, WatchInv, W!Stop, UNCHANGED strategy
  PROVE  WatchInv'
<1>1. watch \in Watching /\ WatchOK(watch)
  BY DEF WatchInv, WatchOK
<1>2. PICK d : d = [watch EXCEPT !.pc = "stopped", !.batch = {}]
  OBVIOUS
<1>3. /\ d \in Watching /\ d.pc = "stopped" /\ d.last = watch.last /\ d.batch = {}
      /\ d.skipped = watch.skipped
  BY <1>1, <1>2 DEF Watching
<1>4. WatchOK(d)
  BY <1>1, <1>3 DEF WatchOK, BatchWhole
<1>5. QED
  BY <1>2, <1>4, WatcherMoves DEF W!Stop, W!Still

LEMMA WakeStep ==
  ASSUME W!WatchAssumption, WatchInv, W!Wake, UNCHANGED strategy
  PROVE  WatchInv'
<1>1. watch \in Watching /\ WatchOK(watch) /\ ~W!Push
  BY DEF WatchInv, WatchOK, W!Wake
<1>2. PICK d : d = [watch EXCEPT !.pc = "search"]
  OBVIOUS
<1>3. /\ d \in Watching /\ d.pc = "search" /\ d.last = watch.last /\ d.batch = watch.batch
      /\ d.skipped = watch.skipped
  BY <1>1, <1>2 DEF Watching
<1>4. WatchOK(d)
  BY <1>1, <1>3 DEF WatchOK, BatchWhole
<1>5. QED
  BY <1>2, <1>4, WatcherMoves DEF W!Wake, W!Still

\* What a search finds is all there is of the last day above the watermark.
LEMMA SearchStep ==
  ASSUME W!WatchAssumption, WatchInv, W!SearchSince, UNCHANGED strategy
  PROVE  WatchInv'
<1>1. watch \in Watching /\ WatchOK(watch) /\ ~W!Push /\ MailThere /\ exists' \in BOOLEAN
  BY DEF WatchInv, WatchOK, W!SearchSince, MailThere
<1>2. CASE W!Fault /\ watch' = [watch EXCEPT !.pc = "idle"]
  <2>1. PICK d : d = [watch EXCEPT !.pc = "idle"]
    OBVIOUS
  <2>2. /\ d \in Watching /\ d.pc = "idle" /\ d.last = watch.last /\ d.batch = watch.batch
        /\ d.skipped = watch.skipped
    BY <1>1, <2>1 DEF Watching
  <2>3. WatchOK(d)
    BY <1>1, <2>2 DEF WatchOK, BatchWhole
  <2>4. QED
    BY <1>1, <1>2, <2>1, <2>3, WatcherMoves DEF W!SearchSince, W!Still
<1>3. ASSUME NEW new, new = {m \in W!Recent : m > watch.last}, UNCHANGED fault,
             watch' = [watch EXCEPT !.pc = IF new = {} THEN "idle" ELSE "fetch", !.batch = new]
      PROVE  WatchInv'
  <2>1. PICK pc : pc = IF new = {} THEN "idle" ELSE "fetch"
    OBVIOUS
  <2>2. PICK d : d = [watch EXCEPT !.pc = pc, !.batch = new]
    OBVIOUS
  <2>3. new \subseteq W!There /\ W!There \subseteq W!Messages /\ watch.last \in Nat
    BY <1>1, <1>3, WatchSizes DEF W!Recent, MailThere, Watching
  <2>4. pc \in {"idle", "fetch"}
    BY <2>1
  <2>5. /\ d \in Watching /\ d.pc = pc /\ d.last = watch.last /\ d.batch = new
        /\ d.skipped = watch.skipped
    BY <1>1, <2>2, <2>3, <2>4 DEF Watching
  <2>6. \A b \in new : watch.last < b
    BY <1>1, <1>3, <2>3 DEF MailThere
  <2>7. \A m \in W!Recent : watch.last < m => m \in new
    BY <1>1, <1>3, <2>3 DEF MailThere, W!Recent
  <2>8. WatchOK(d)
    BY <1>1, <2>3, <2>5, <2>6, <2>7 DEF WatchOK, BatchWhole
  <2>9. watch' = d
    BY <1>3, <2>1, <2>2
  <2>10. QED
    BY <1>1, <1>3, <2>8, <2>9, WatcherMoves DEF W!SearchSince, W!Still
<1>4. QED
  BY <1>2, <1>3, Zenon DEF W!SearchSince

\* What a fetch leaves out is skipped, and the rest of the batch it has.
LEMMA FetchStep ==
  ASSUME W!WatchAssumption, WatchInv, W!FetchMessages, UNCHANGED strategy
  PROVE  WatchInv'
<1>1. /\ watch \in Watching /\ WatchOK(watch) /\ ~W!Push /\ MailThere /\ exists' \in BOOLEAN
      /\ watch.pc = "fetch" /\ watch.batch \subseteq W!There
  BY DEF WatchInv, WatchOK, W!FetchMessages, MailThere
<1>2. PICK got \in SUBSET watch.batch :
         /\ IF got = watch.batch THEN UNCHANGED fault ELSE W!Fault
         /\ watch' = [watch EXCEPT !.pc = "messages", !.batch = got, !.skipped = watch.batch \ got]
  BY Zenon DEF W!FetchMessages
<1>3. PICK skipped : skipped = watch.batch \ got
  OBVIOUS
<1>4. PICK d : d = [watch EXCEPT !.pc = "messages", !.batch = got, !.skipped = skipped]
  OBVIOUS
<1>5. got \in SUBSET W!Messages /\ skipped \in SUBSET W!Messages
  BY <1>1, <1>3 DEF Watching
<1>6. /\ d \in Watching /\ d.pc = "messages" /\ d.last = watch.last /\ d.batch = got
      /\ d.skipped = skipped /\ d.failed = watch.failed
  BY <1>1, <1>4, <1>5 DEF Watching
<1>7. BatchWhole(d)
  <2>1. SUFFICES ASSUME NEW b \in got
                 PROVE  /\ watch.last < b
                        /\ \A k \in W!Recent : watch.last < k /\ k < b =>
                             k \in got \cup watch.failed \cup skipped
    BY <1>6 DEF BatchWhole, LeftOut
  <2>2. /\ watch.last < b
        /\ \A k \in W!Recent : watch.last < k /\ k < b => k \in watch.batch \cup watch.failed
    BY <1>1 DEF WatchOK, BatchWhole, LeftOut
  <2>3. QED
    BY <1>3, <2>2
<1>8. WatchOK(d)
  BY <1>1, <1>3, <1>6, <1>7 DEF WatchOK
<1>9. watch' = d
  BY <1>2, <1>3, <1>4
<1>10. UNCHANGED fault \/ W!Fault
  BY <1>2
<1>11. QED
  BY <1>1, <1>8, <1>9, <1>10, WatcherMoves DEF W!FetchMessages, W!Still

LEMMA ProcessingStep ==
  ASSUME W!WatchAssumption, WatchInv, W!Processing, UNCHANGED strategy
  PROVE  WatchInv'
<1>1. watch \in Watching /\ WatchOK(watch) /\ ~W!Push /\ exists' \in BOOLEAN
  BY DEF WatchInv, WatchOK, W!Processing, MailThere
<1>2. PICK d : d = [watch EXCEPT !.pc = "idle"]
  OBVIOUS
<1>3. /\ d \in Watching /\ d.pc = "idle" /\ d.last = watch.last /\ d.batch = watch.batch
      /\ d.skipped = watch.skipped
  BY <1>1, <1>2 DEF Watching
<1>4. WatchOK(d)
  BY <1>1, <1>3 DEF WatchOK, BatchWhole
<1>5. QED
  BY <1>1, <1>2, <1>4, WatcherMoves DEF W!Processing, W!Still

\* Of a batch the first is processed, and is passed if it does not fail.
LEMMA ProcessedLeaves ==
  ASSUME W!WatchAssumption, WatchInv, watch.pc = "messages", watch.batch # {},
         NEW k, k = W!NextMessage, NEW l, NEW f, W!Processed(l, f),
         (l = k /\ f = {}) \/ (l = watch.last /\ f = {k})
  PROVE  /\ k \in watch.batch /\ k \in W!There /\ k \in Nat /\ watch.last < k
         /\ \A o \in watch.batch : k <= o
         /\ WatchOK(watch') /\ watch'.last = l
<1>1. /\ watch \in Watching /\ WatchOK(watch) /\ MailThere /\ watch.batch \subseteq W!There
      /\ W!There \subseteq Nat /\ W!Recent \subseteq W!There /\ W!There = 1 .. W!Last /\ W!Last \in Nat
      /\ W!There \subseteq W!Messages
  BY WatchSizes DEF WatchInv, WatchOK, MailThere, W!Recent
<1>2. k \in watch.batch /\ \A o \in watch.batch : k <= o
  BY <1>1, FirstOf DEF W!NextMessage
<1>3. k \in W!There /\ k \in Nat /\ watch.last < k /\ watch.last \in Nat /\ k <= W!Last
  BY <1>1, <1>2 DEF WatchOK, BatchWhole, Watching
<1>4. PICK left, lost : left = watch.batch \ {k} /\ lost = watch.failed \cup f
  OBVIOUS
<1>5. PICK d : d = [watch EXCEPT !.batch = left, !.last = l, !.failed = lost]
  OBVIOUS
<1>6. watch' = d
  BY <1>4, <1>5 DEF W!Processed
<1>7. left \subseteq W!There /\ lost \subseteq W!Messages /\ l \in Nat /\ l <= W!Last
  BY <1>1, <1>2, <1>3, <1>4 DEF Watching, WatchOK
<1>8. /\ d \in Watching /\ d.pc = "messages" /\ d.batch = left /\ d.last = l /\ d.failed = lost
      /\ d.skipped = watch.skipped
  BY <1>1, <1>5, <1>7 DEF Watching
<1>9. BatchWhole(d)
  <2>1. SUFFICES ASSUME NEW b \in left
                 PROVE  /\ l < b
                        /\ \A m \in W!Recent : l < m /\ m < b => m \in left \cup lost \cup watch.skipped
    BY <1>8 DEF BatchWhole, LeftOut
  <2>2. /\ b \in watch.batch /\ watch.last < b /\ b \in Nat /\ k < b
        /\ \A m \in W!Recent : watch.last < m /\ m < b => m \in watch.batch \cup LeftOut(watch)
    BY <1>1, <1>2, <1>3, <1>4 DEF WatchOK, BatchWhole
  <2>3. l < b
    BY <2>2
  <2>4. ASSUME NEW m \in W!Recent, l < m, m < b PROVE m \in left \cup lost \cup watch.skipped
    <3>1. m \in Nat
      BY <1>1
    <3>2. watch.last < m
      BY <1>3, <2>4, <3>1
    <3>3. m \in watch.batch \cup watch.failed \cup watch.skipped
      BY <2>2, <2>4, <3>2 DEF LeftOut
    <3>4. CASE m = k
      <4>1. l # k
        BY <1>3, <2>4, <3>4
      <4>2. QED
        BY <1>4, <3>4, <4>1
    <3>5. CASE m # k
      BY <1>4, <3>3, <3>5
    <3>6. QED
      BY <3>4, <3>5
  <2>5. QED
    BY <2>3, <2>4
<1>10. W!Push => d.pc = "stopped"
  BY <1>1 DEF WatchOK
<1>11. WatchOK(d)
  BY <1>1, <1>7, <1>8, <1>9, <1>10 DEF WatchOK
<1>12. QED
  BY <1>2, <1>3, <1>6, <1>8, <1>11

\* What is stored is enqueued, or one more fault is counted.
LEMMA StoresStep ==
  ASSUME W!WatchAssumption, WatchInv, ~W!Push, NEW k \in W!There, WatchOK(watch'),
         W!StoreEmail(k, k), W!Still, UNCHANGED <<strategy, exists>>,
         \/ UNCHANGED fault /\ queued' = IF stored' = stored THEN queued ELSE queued \cup {k}
         \/ W!Fault /\ UNCHANGED queued
  PROVE  WatchInv'
<1>1. /\ MailThere /\ UNCHANGED <<arrived, gmail, cursor, history, hour, strategy, exists>>
      /\ W!There = 1 .. W!Last /\ W!Last \in Nat /\ W!Last <= MaxUid /\ k \in W!Uids
      /\ fault \in Nat
  BY WatchSizes DEF WatchInv, MailThere, W!Still, W!Uids
<1>2. W!There' = W!There /\ W!Last' = W!Last /\ W!Recent' = W!Recent
  BY <1>1 DEF W!There, W!Last, W!Recent
<1>3. fault' \in 0 .. MailFaults /\ fault <= fault' /\ fault' \in Nat
  BY <1>1, WatchSizes DEF MailThere, W!Fault
<1>4. stored' = stored \/ stored' = stored \cup {<<k, k>>}
  BY DEF W!StoreEmail
<1>5. MailThere'
  <2>1. stored' \subseteq W!Uids \X W!There
    BY <1>1, <1>4 DEF MailThere
  <2>2. queued' \subseteq W!There
    BY <1>1 DEF MailThere
  <2>3. QED
    BY <1>1, <1>2, <1>3, <2>1, <2>2 DEF MailThere, W!Uids
<1>6. WatchOK(watch)'
  BY <1>1, <1>2 DEF WatchOK, Watching, BatchWhole, LeftOut, W!Messages, W!Push
<1>7. RowsOfOneKind'
  BY <1>1, <1>4 DEF WatchInv, RowsOfOneKind, W!Push
<1>8. QueuedFirst'
  <2>1. CASE stored' = stored
    BY <1>1, <1>2, <1>3, <2>1, QueueStays DEF WatchInv
  <2>2. CASE stored' # stored
    <3>1. stored' = stored \cup {<<k, k>>}
      BY <1>4, <2>2
    <3>2. \A m : W!Stored(m)' <=> (W!Stored(m) \/ m = k)
      BY <1>1, <3>1 DEF W!Stored, W!Uids
    <3>3. /\ IsFiniteSet(Unqueued) /\ Cardinality(Unqueued) \in Nat /\ Cardinality(Unqueued) <= fault
          /\ \A m \in queued : W!Stored(m)
      BY <1>1, MessagesFinite DEF WatchInv, QueuedFirst, Unqueued
    <3>4. ~W!Push' /\ \A m \in queued' : W!Stored(m)'
      BY <1>1, <3>2, <3>3 DEF W!Push
    <3>5. CASE UNCHANGED fault /\ queued' = queued \cup {k}
      <4>1. Unqueued' \subseteq Unqueued
        BY <1>2, <3>2, <3>5 DEF Unqueued
      <4>2. Cardinality(Unqueued') <= Cardinality(Unqueued) /\ IsFiniteSet(Unqueued')
        BY <3>3, <4>1, FS_Subset
      <4>3. Cardinality(Unqueued') \in Nat
        BY <4>2, FS_CardinalityType
      <4>4. QED
        BY <1>1, <3>3, <3>4, <3>5, <4>2, <4>3 DEF QueuedFirst
    <3>6. CASE W!Fault /\ UNCHANGED queued
      <4>1. Unqueued' \subseteq Unqueued \cup {k}
        BY <1>2, <3>2, <3>6 DEF Unqueued
      <4>2. /\ IsFiniteSet(Unqueued \cup {k})
            /\ Cardinality(Unqueued \cup {k}) = Cardinality(Unqueued)
               \/ Cardinality(Unqueued \cup {k}) = Cardinality(Unqueued) + 1
        BY <3>3, FS_AddElement, Zenon
      <4>3. Cardinality(Unqueued') <= Cardinality(Unqueued \cup {k}) /\ IsFiniteSet(Unqueued')
        BY <4>1, <4>2, FS_Subset
      <4>4. Cardinality(Unqueued') \in Nat
        BY <4>3, FS_CardinalityType
      <4>5. fault' = fault + 1
        BY <3>6 DEF W!Fault
      <4>6. Cardinality(Unqueued') <= fault'
        BY <1>1, <3>3, <4>2, <4>3, <4>4, <4>5
      <4>7. QED
        BY <3>4, <4>6 DEF QueuedFirst
    <3>7. QED
      BY <2>2, <3>5, <3>6
  <2>3. QED
    BY <2>1, <2>2
<1>9. GmailOK(gmail)' /\ HistoryOK(history)'
  BY <1>1, <1>2, GmailStays, HistoryStays DEF WatchInv
<1>10. QED
  BY <1>5, <1>6, <1>7, <1>8, <1>9 DEF WatchInv

\* What a step passes over.
Passes == \A m \in W!There : watch.last < m /\ m <= watch'.last =>
            m \in NoId \cup watch.failed \cup watch.skipped \/ W!Stored(m)' \/ m \notin W!Recent

LEMMA ProcessMessageStep ==
  ASSUME W!WatchAssumption, WatchInv, W!ProcessMessage, UNCHANGED strategy
  PROVE  WatchInv' /\ Passes
<1>1. /\ watch.pc = "messages" /\ watch.batch # {} /\ ~W!Push /\ MailThere /\ exists' \in BOOLEAN
      /\ W!Still /\ UNCHANGED exists /\ watch.last \in Nat
  BY DEF WatchInv, WatchOK, MailThere, W!ProcessMessage, Watching
<1>2. PICK k : k = W!NextMessage
  OBVIOUS
<1>3. CASE W!Fails(k) /\ W!Processed(watch.last, {k}) /\ UNCHANGED <<stored, queued>>
  <2>1. WatchOK(watch') /\ watch'.last = watch.last
    BY <1>1, <1>2, <1>3, ProcessedLeaves
  <2>2. UNCHANGED fault \/ W!Fault
    BY <1>3 DEF W!Fails
  <2>3. WatchInv'
    BY <1>1, <1>3, <2>1, <2>2, WatcherMoves DEF W!Still
  <2>4. Passes
    BY <1>1, <2>1 DEF Passes, MailThere
  <2>5. QED
    BY <2>3, <2>4
<1>4. CASE /\ W!Processed(k, {})
           /\ IF k \in NoId THEN UNCHANGED <<stored, queued, fault>>
              ELSE /\ W!StoreEmail(k, k)
                   /\ \/ UNCHANGED fault /\ queued' = IF stored' = stored THEN queued ELSE queued \cup {k}
                      \/ W!Fault /\ UNCHANGED queued
  <2>1. /\ k \in watch.batch /\ k \in W!There /\ k \in Nat /\ watch.last < k
        /\ \A o \in watch.batch : k <= o
        /\ WatchOK(watch') /\ watch'.last = k
    BY <1>1, <1>2, <1>4, ProcessedLeaves
  <2>2. WatchInv'
    <3>1. CASE k \in NoId
      BY <1>1, <1>4, <2>1, <3>1, WatcherMoves DEF W!Still
    <3>2. CASE k \notin NoId
      BY <1>1, <1>4, <2>1, <3>2, StoresStep
    <3>3. QED
      BY <3>1, <3>2
  <2>3. k \in NoId \/ W!Stored(k)'
    <3>1. SUFFICES ASSUME k \notin NoId PROVE W!Stored(k)'
      OBVIOUS
    <3>2. k \in W!Uids' /\ W!There \subseteq W!Messages
      BY <1>1, <2>1, WatchSizes DEF W!Uids, MailThere
    <3>3. CASE \E o \in W!Messages : <<k, o>> \in stored
      <4>1. PICK o : <<k, o>> \in stored /\ stored' = stored
        BY <1>4, <3>1, <3>3 DEF W!StoreEmail
      <4>2. o = k
        BY <1>1, <4>1 DEF WatchInv, RowsOfOneKind
      <4>3. QED
        BY <3>2, <4>1, <4>2 DEF W!Stored
    <3>4. CASE ~ \E o \in W!Messages : <<k, o>> \in stored
      BY <1>4, <3>1, <3>2, <3>4 DEF W!StoreEmail, W!Stored
    <3>5. QED
      BY <3>3, <3>4
  <2>4. Passes
    <3>1. SUFFICES ASSUME NEW m \in W!Recent, watch.last < m, m <= k, m # k
                   PROVE  m \in watch.failed \cup watch.skipped
      BY <2>1, <2>3 DEF Passes
    <3>2. m \in Nat /\ m < k
      BY <1>1, <2>1, <3>1 DEF W!Recent, MailThere
    <3>3. m \in watch.batch \cup LeftOut(watch)
      BY <1>1, <2>1, <3>1, <3>2 DEF WatchInv, WatchOK, BatchWhole
    <3>4. m \notin watch.batch
      BY <2>1, <3>2
    <3>5. QED
      BY <1>1, <3>3, <3>4 DEF LeftOut
  <2>5. QED
    BY <2>2, <2>4
<1>5. QED
  BY <1>2, <1>3, <1>4, Zenon DEF W!ProcessMessage

\* A step that leaves the watcher and the rows alone.
LEMMA OthersMove ==
  ASSUME W!WatchAssumption, WatchInv,
         UNCHANGED <<strategy, arrived, stored, queued, watch, exists, hour>>,
         UNCHANGED fault \/ W!Fault, cursor' \in BOOLEAN, GmailOK(gmail'), HistoryOK(history')
  PROVE  WatchInv'
<1>1. MailThere /\ exists' \in BOOLEAN
  BY DEF WatchInv, MailThere
<1>2. /\ MailThere' /\ fault' \in Nat /\ fault <= fault'
      /\ W!There' = W!There /\ W!Last' = W!Last
  BY <1>1, MailStays
<1>3. W!Last' \in Nat /\ W!Last <= W!Last' /\ W!There' = 1 .. W!Last' /\ W!Recent' = W!Recent
  BY <1>1, <1>2 DEF MailThere, W!Recent
<1>4. WatchOK(watch)' /\ RowsOfOneKind' /\ QueuedFirst'
  BY <1>1, <1>2, <1>3, WatchStays, RowsStay, QueueStays DEF WatchInv
<1>5. GmailOK(gmail)' /\ HistoryOK(history)'
  BY <1>2 DEF GmailOK, HistoryOK, Listed, Handed, W!Messages, W!Push
<1>6. QED
  BY <1>2, <1>4, <1>5 DEF WatchInv

LEMMA ListStep ==
  ASSUME W!WatchAssumption, WatchInv, W!ListMessages, UNCHANGED strategy
  PROVE  WatchInv'
<1>1. /\ MailThere /\ cursor \in BOOLEAN /\ W!Push /\ UNCHANGED <<stored, fault>>
      /\ UNCHANGED <<arrived, queued, watch, exists, history, hour>> /\ HistoryOK(history')
  BY DEF WatchInv, MailThere, W!ListMessages, W!Idle
<1>2. PICK there : there = W!Listed
  OBVIOUS
<1>3. PICK none : none = W!NoSync("done")
  OBVIOUS
<1>4. /\ none \in Listed /\ GmailOK(none)
      /\ none.left = {} /\ none.synced = 0 /\ none.failed = 0
  BY <1>3 DEF Listed, GmailOK, W!NoSync
<1>5. CASE gmail' = none /\ cursor' \in BOOLEAN
  BY <1>1, <1>4, <1>5, OthersMove
<1>6. CASE /\ gmail' = [W!NoSync("messages") EXCEPT !.left = there, !.listed = W!Cardinality(there)]
           /\ UNCHANGED cursor
  <2>1. there \subseteq W!There /\ W!There \subseteq W!Messages
    BY <1>1, <1>2, WatchSizes DEF MailThere, W!Listed
  <2>2. PICK n : n = W!Cardinality(there)
    OBVIOUS
  <2>3. n \in Nat /\ n = Cardinality(there)
    BY <1>1, <2>1, <2>2, MessagesFinite, SameCardinality
  <2>4. PICK d : d = [W!NoSync("messages") EXCEPT !.left = there, !.listed = n]
    OBVIOUS
  <2>5. /\ d \in Listed /\ d.pc = "messages" /\ d.left = there /\ d.listed = n
        /\ d.synced = 0 /\ d.failed = 0
    BY <2>1, <2>3, <2>4 DEF Listed, W!NoSync
  <2>6. GmailOK(d)
    BY <1>1, <2>1, <2>3, <2>5 DEF GmailOK
  <2>7. gmail' = d
    BY <1>6, <2>2, <2>4
  <2>8. QED
    BY <1>1, <1>6, <2>6, <2>7, OthersMove
<1>7. QED
  BY <1>1, <1>2, <1>3, <1>5, <1>6, Zenon DEF W!ListMessages

LEMMA SyncFailsStep ==
  ASSUME W!WatchAssumption, WatchInv, W!SyncFails, UNCHANGED strategy
  PROVE  WatchInv'
<1>1. /\ cursor \in BOOLEAN /\ W!Fault /\ UNCHANGED stored /\ gmail' = W!NoSync("idle")
      /\ UNCHANGED <<arrived, queued, watch, exists, history, hour>> /\ HistoryOK(history')
  BY DEF WatchInv, MailThere, W!SyncFails, W!Idle
<1>2. cursor' \in BOOLEAN
  BY <1>1 DEF W!SyncFails
<1>3. GmailOK(gmail')
  BY <1>1 DEF GmailOK, Listed, W!NoSync
<1>4. QED
  BY <1>1, <1>2, <1>3, OthersMove

\* The row of an account that is pushed is its first message.
LEMMA GmailStores ==
  ASSUME W!WatchAssumption, WatchInv, W!Push, NEW k \in W!There,
         UNCHANGED stored \/ W!StoreEmail(0, k),
         UNCHANGED <<strategy, arrived, queued, watch, exists, history, hour, cursor, fault>>,
         GmailOK(gmail')
  PROVE  WatchInv'
<1>1. MailThere /\ 0 \in W!Uids
  BY WatchSizes DEF WatchInv, W!Uids
<1>2. W!There' = W!There /\ W!Last' = W!Last /\ W!Recent' = W!Recent
  BY DEF W!There, W!Last, W!Recent
<1>3. stored' = stored \/ (stored = {} /\ stored' = {<<0, k>>})
  <2>1. CASE W!StoreEmail(0, k) /\ stored' # stored
    <3>1. stored' = stored \cup {<<0, k>>} /\ ~ \E o \in W!Messages : <<0, o>> \in stored
      BY <2>1 DEF W!StoreEmail
    <3>2. ASSUME NEW x \in stored PROVE FALSE
      BY <1>1, <3>1, WatchSizes DEF WatchInv, RowsOfOneKind, MailThere
    <3>3. QED
      BY <3>1, <3>2
  <2>2. QED
    BY <2>1
<1>4. stored' \subseteq W!Uids \X W!There
  BY <1>1, <1>3 DEF MailThere
<1>5. MailThere'
  BY <1>1, <1>2, <1>4 DEF MailThere, W!Uids
<1>6. RowsOfOneKind'
  BY <1>3 DEF WatchInv, RowsOfOneKind, W!Push
<1>7. QueuedFirst'
  BY DEF QueuedFirst, W!Push
<1>8. /\ W!Last' \in Nat /\ W!Last <= W!Last' /\ W!There' = 1 .. W!Last'
  BY <1>1, <1>2 DEF MailThere
<1>9. WatchOK(watch)' /\ HistoryOK(history)'
  BY <1>1, <1>2, <1>8, WatchStays, HistoryStays DEF WatchInv
<1>10. GmailOK(gmail)'
  BY <1>2 DEF GmailOK, Listed, W!Messages, W!Push
<1>11. QED
  BY <1>5, <1>6, <1>7, <1>9, <1>10 DEF WatchInv

LEMMA ProcessGmailStep ==
  ASSUME W!WatchAssumption, WatchInv, W!ProcessGmailMessage, UNCHANGED strategy
  PROVE  WatchInv'
<1>1. /\ MailThere /\ W!Push /\ gmail \in Listed /\ gmail.left \subseteq W!There /\ gmail.left # {}
      /\ gmail.synced + gmail.failed + Cardinality(gmail.left) = gmail.listed /\ gmail.pc = "messages"
      /\ UNCHANGED <<arrived, queued, watch, exists, history, hour, cursor>> /\ HistoryOK(history')
      /\ cursor' \in BOOLEAN
  BY DEF WatchInv, GmailOK, MailThere, W!ProcessGmailMessage, W!Idle
<1>2. PICK k : k = W!Max(gmail.left)
  OBVIOUS
<1>3. k \in gmail.left /\ k \in W!There
  BY <1>1, <1>2, LastOf DEF MailThere
<1>4. PICK left : left = gmail.left \ {k}
  OBVIOUS
<1>5. /\ left \subseteq W!There /\ Cardinality(left) = Cardinality(gmail.left) - 1
      /\ Cardinality(left) \in Nat /\ Cardinality(gmail.left) \in Nat
  BY <1>1, <1>3, <1>4, MessagesFinite, FS_RemoveElement
<1>6. PICK rest : rest = [gmail EXCEPT !.left = left]
  OBVIOUS
<1>7. /\ rest \in Listed /\ rest.pc = "messages" /\ rest.left = left /\ rest.synced = gmail.synced
      /\ rest.failed = gmail.failed /\ rest.listed = gmail.listed
  BY <1>1, <1>4, <1>6 DEF Listed
<1>8. CASE /\ W!Fails(k) /\ UNCHANGED stored
           /\ gmail' = [rest EXCEPT !.failed = @ + 1]
  <2>1. PICK d : d = [rest EXCEPT !.failed = @ + 1]
    OBVIOUS
  <2>2. /\ d \in Listed /\ d.pc = "messages" /\ d.left = left /\ d.synced = gmail.synced
        /\ d.failed = gmail.failed + 1 /\ d.listed = gmail.listed
    BY <1>7, <2>1 DEF Listed
  <2>3. d.synced + d.failed + Cardinality(left) = d.listed
    BY <1>1, <1>5, <2>2 DEF Listed
  <2>4. GmailOK(d)
    BY <1>1, <1>5, <2>2, <2>3 DEF GmailOK
  <2>5. UNCHANGED fault \/ W!Fault
    BY <1>8 DEF W!Fails
  <2>6. QED
    BY <1>1, <1>8, <2>1, <2>4, <2>5, OthersMove
<1>9. CASE /\ gmail' = [rest EXCEPT !.synced = @ + 1] /\ UNCHANGED fault
           /\ UNCHANGED stored \/ W!StoreEmail(0, k)
  <2>1. PICK d : d = [rest EXCEPT !.synced = @ + 1]
    OBVIOUS
  <2>2. /\ d \in Listed /\ d.pc = "messages" /\ d.left = left /\ d.synced = gmail.synced + 1
        /\ d.failed = gmail.failed /\ d.listed = gmail.listed
    BY <1>7, <2>1 DEF Listed
  <2>3. d.synced + d.failed + Cardinality(left) = d.listed
    BY <1>1, <1>5, <2>2 DEF Listed
  <2>4. GmailOK(d)
    BY <1>1, <1>5, <2>2, <2>3 DEF GmailOK
  <2>5. QED
    BY <1>1, <1>3, <1>9, <2>1, <2>4, GmailStores
<1>10. QED
  BY <1>2, <1>4, <1>6, <1>8, <1>9, Zenon DEF W!ProcessGmailMessage

LEMMA CompletedStep ==
  ASSUME W!WatchAssumption, WatchInv, W!MarkCompleted, UNCHANGED strategy
  PROVE  WatchInv'
<1>1. /\ MailThere /\ gmail \in Listed /\ gmail.left = {} /\ GmailOK(gmail) /\ gmail.pc = "messages"
      /\ UNCHANGED <<arrived, queued, watch, exists, history, hour, cursor, stored, fault>>
      /\ HistoryOK(history') /\ cursor' \in BOOLEAN /\ Cardinality(gmail.left) = 0
  BY FS_EmptySet DEF WatchInv, GmailOK, MailThere, W!MarkCompleted, W!Idle
<1>2. PICK d : d = [gmail EXCEPT !.pc = "done"]
  OBVIOUS
<1>3. /\ d \in Listed /\ d.pc = "done" /\ d.left = {} /\ d.synced = gmail.synced
      /\ d.failed = gmail.failed /\ d.listed = gmail.listed
  BY <1>1, <1>2 DEF Listed
<1>4. d.synced + d.failed = d.listed
  BY <1>1, <1>3 DEF GmailOK, Listed
<1>5. GmailOK(d)
  BY <1>3, <1>4 DEF GmailOK
<1>6. QED
  BY <1>1, <1>2, <1>5, OthersMove DEF W!MarkCompleted

\* The history moves to the end only when every page since was handed on.
LEMMA IncrementalStep ==
  ASSUME W!WatchAssumption, WatchInv, W!SyncIncremental, UNCHANGED strategy
  PROVE  WatchInv'
<1>1. /\ MailThere /\ history \in Handed /\ HistoryOK(history)
      /\ UNCHANGED <<arrived, stored, queued, watch, exists, gmail, hour, cursor>>
      /\ GmailOK(gmail') /\ cursor' \in BOOLEAN
      /\ W!Last \in Nat /\ W!There = 1 .. W!Last /\ W!There \subseteq W!Messages
  BY WatchSizes DEF WatchInv, HistoryOK, MailThere, W!SyncIncremental, W!mail
<1>2. PICK new : new = {m \in W!There : m > history.last}
  OBVIOUS
<1>3. PICK page \in 1 .. W!Last + 1 :
         \E last \in {0, history.last, W!Last} :
           /\ IF last = W!Last THEN {m \in new : m < page} = new /\ UNCHANGED fault ELSE W!Fault
           /\ history' = [last |-> last, handed |-> history.handed \cup {m \in new : m < page}]
  BY <1>2, Zenon DEF W!SyncIncremental
<1>4. PICK seen : seen = {m \in new : m < page}
  OBVIOUS
<1>5. PICK last \in {0, history.last, W!Last} :
         /\ IF last = W!Last THEN seen = new /\ UNCHANGED fault ELSE W!Fault
         /\ history' = [last |-> last, handed |-> history.handed \cup seen]
  BY <1>3, <1>4, Zenon
<1>6. PICK handed : handed = history.handed \cup seen
  OBVIOUS
<1>7. PICK d : d = [last |-> last, handed |-> handed]
  OBVIOUS
<1>8. /\ history.last \in Nat /\ history.last <= W!Last /\ history.handed \subseteq W!There
      /\ seen \subseteq W!There /\ \A m \in W!There : m \in history.handed \cup new
  BY <1>1, <1>2, <1>4 DEF HistoryOK, Handed
<1>9. last \in Nat /\ last <= W!Last /\ handed \subseteq W!There
  <2>1. last = 0 \/ last = history.last \/ last = W!Last
    BY <1>5, Zenon
  <2>2. W!Last \in Nat /\ 0 <= W!Last
    BY <1>1
  <2>3. last \in Nat /\ last <= W!Last
    BY <1>8, <2>1, <2>2
  <2>4. handed \subseteq W!There
    BY <1>6, <1>8, Zenon
  <2>5. QED
    BY <2>3, <2>4
<1>10. handed \in SUBSET W!Messages
  BY <1>1, <1>9
<1>11. d \in Handed /\ d.last = last /\ d.handed = handed
  BY <1>7, <1>9, <1>10 DEF Handed
<1>12. \A m \in 1 .. last : m \in handed
  <2>1. CASE last = W!Last
    BY <1>1, <1>5, <1>6, <1>8, <2>1
  <2>2. CASE last # W!Last
    BY <1>1, <1>5, <1>6, <2>2 DEF HistoryOK
  <2>3. QED
    BY <2>1, <2>2
<1>13. HistoryOK(d)
  BY <1>9, <1>11, <1>12 DEF HistoryOK
<1>14. history' = d
  BY <1>5, <1>6, <1>7
<1>15. UNCHANGED fault \/ W!Fault
  BY <1>5
<1>16. QED
  BY <1>1, <1>13, <1>14, <1>15, OthersMove

\* A step that does not move the watermark passes nothing.
LEMMA NothingPassed ==
  ASSUME W!WatchAssumption, WatchInv, UNCHANGED watch \/ watch'.last = watch.last \/ watch'.last = 0
  PROVE  Passes
<1>1. watch.last \in Nat /\ W!There \subseteq Nat
  BY DEF WatchInv, WatchOK, Watching, MailThere
<1>2. watch'.last = watch.last \/ watch'.last = 0
  OBVIOUS
<1>3. ASSUME NEW m \in W!There, watch.last < m, m <= watch'.last PROVE FALSE
  BY <1>1, <1>2, <1>3
<1>4. QED
  BY <1>3 DEF Passes

LEMMA WatchNext ==
  ASSUME W!WatchAssumption, WatchInv, W!Next
  PROVE  WatchInv' /\ Passes
<1>1. UNCHANGED strategy /\ watch \in Watching
  BY DEF W!Next, WatchInv, WatchOK
<1>2. CASE W!Arrive
  BY <1>1, <1>2, MailArriveStep, NothingPassed DEF W!Arrive
<1>3. CASE W!NextDay
  BY <1>1, <1>3, NextDayStep, NothingPassed DEF W!NextDay
<1>4. CASE W!Run
  BY <1>1, <1>4, RunStep, NothingPassed DEF W!Run, Watching
<1>5. CASE W!Stop
  BY <1>1, <1>5, StopStep, NothingPassed DEF W!Stop, Watching
<1>6. CASE W!Wake
  BY <1>1, <1>6, WakeStep, NothingPassed DEF W!Wake, Watching
<1>7. CASE W!SearchSince
  BY <1>1, <1>7, SearchStep, NothingPassed DEF W!SearchSince, Watching
<1>8. CASE W!FetchMessages
  BY <1>1, <1>8, FetchStep, NothingPassed DEF W!FetchMessages, Watching
<1>9. CASE W!Processing
  BY <1>1, <1>9, ProcessingStep, NothingPassed DEF W!Processing, Watching
<1>10. CASE W!ListMessages \/ W!SyncFails \/ W!ProcessGmailMessage \/ W!MarkCompleted \/ W!SyncIncremental
  <2>1. UNCHANGED watch
    BY <1>10 DEF W!ListMessages, W!SyncFails, W!ProcessGmailMessage, W!MarkCompleted, W!SyncIncremental, W!Idle
  <2>2. QED
    BY <1>1, <1>10, <2>1, ListStep, SyncFailsStep, ProcessGmailStep, CompletedStep, IncrementalStep, NothingPassed
<1>11. QED
  BY <1>1, <1>2, <1>3, <1>4, <1>5, <1>6, <1>7, <1>8, <1>9, <1>10, ProcessMessageStep, Zenon DEF W!Next

LEMMA WatchInit ==
  ASSUME W!WatchAssumption, W!Init
  PROVE  WatchInv
<1>1. /\ arrived = <<>> /\ stored = {} /\ queued = {} /\ hour = 0 /\ fault = 0
      /\ watch = [pc |-> "stopped", last |-> 0, batch |-> {}, skipped |-> {}, failed |-> {}]
      /\ gmail = [pc |-> "idle", left |-> {}, listed |-> 0, synced |-> 0, failed |-> 0]
      /\ history = [last |-> 0, handed |-> {}]
      /\ exists = FALSE /\ cursor = FALSE
  BY DEF W!Init
<1>2. W!There = {}
  BY <1>1 DEF W!There
<1>3. W!Last = 0
  BY <1>2, FS_EmptySet, SameCardinality DEF W!Last
<1>4. MailThere
  <2>1. W!There = 1 .. W!Last /\ W!Last \in Nat /\ W!Last <= MaxUid
    BY <1>2, <1>3, WatchSizes
  <2>2. hour \in 0 .. MailDays /\ fault \in 0 .. MailFaults
    BY <1>1, WatchSizes
  <2>3. QED
    BY <1>1, <1>2, <2>1, <2>2, Zenon DEF MailThere
<1>5. watch \in Watching /\ gmail \in Listed /\ history \in Handed
  BY <1>1 DEF Watching, Listed, Handed
<1>6. WatchOK(watch) /\ GmailOK(gmail) /\ HistoryOK(history)
  BY <1>1, <1>3, <1>5 DEF WatchOK, BatchWhole, GmailOK, HistoryOK
<1>7. RowsOfOneKind
  BY <1>1 DEF RowsOfOneKind
<1>8. QueuedFirst
  <2>1. Unqueued = {}
    BY <1>2 DEF Unqueued
  <2>2. QED
    BY <1>1, <2>1, FS_EmptySet DEF QueuedFirst
<1>9. QED
  BY <1>4, <1>6, <1>7, <1>8 DEF WatchInv

LEMMA WatchInvHolds ==
  ASSUME W!WatchAssumption, WatchInv
  PROVE  W!MailSeen
<1>1. MailThere /\ watch \in Watching /\ gmail \in Listed /\ history \in Handed
  BY DEF WatchInv, WatchOK, GmailOK, HistoryOK
<1>2. W!TypeOK
  BY <1>1 DEF WatchInv, W!TypeOK, MailThere, WatchOK, GmailOK, HistoryOK, Watching, Listed, Handed
<1>3. W!QueuedOnce
  BY SameCardinality DEF WatchInv, QueuedFirst, W!QueuedOnce, Unqueued
<1>4. W!Push => W!Cardinality(stored) <= 1
  <2>1. SUFFICES ASSUME W!Push PROVE Cardinality(stored) <= 1
    BY SameCardinality
  <2>2. CASE stored = {}
    BY <2>2, FS_EmptySet
  <2>3. CASE stored # {}
    <3>1. PICK x \in stored : TRUE
      BY <2>3
    <3>2. stored = {x}
      BY <2>1, <3>1 DEF WatchInv, RowsOfOneKind
    <3>3. Cardinality({x}) = 1
      BY FS_Singleton, Zenon
    <3>4. QED
      BY <3>2, <3>3
  <2>4. QED
    BY <2>2, <2>3
<1>5. W!GmailCounted
  BY <1>4 DEF WatchInv, GmailOK, HistoryOK, W!GmailCounted
<1>6. QED
  BY <1>2, <1>3, <1>5 DEF W!MailSeen

LEMMA WatchStutter ==
  ASSUME WatchInv, UNCHANGED W!vars
  PROVE  WatchInv'
<1>1. /\ UNCHANGED <<strategy, arrived, stored, queued, watch, exists, gmail, cursor, history>>
      /\ UNCHANGED <<hour, fault>>
  BY DEF W!vars
<1>2. MailThere' /\ W!There' = W!There /\ W!Last' = W!Last /\ W!Recent' = W!Recent
  BY <1>1 DEF WatchInv, MailThere, W!There, W!Last, W!Recent, W!Uids
<1>3. W!Last' \in Nat /\ W!Last <= W!Last' /\ W!There' = 1 .. W!Last' /\ fault' \in Nat /\ fault <= fault'
  BY <1>1, <1>2 DEF WatchInv, MailThere
<1>4. QED
  BY <1>1, <1>2, <1>3, WatchStays, GmailStays, HistoryStays, RowsStay, QueueStays DEF WatchInv

\* The watermark passes no message of the last day that could be stored but what
\* the fetch that moves it left out, what is stored was enqueued but for a fault
\* each, Gmail's list counts every message, and no more connections are lost than
\* a Register overwrote or a reconnect put another in the place of (MailWatch,
\* ImapConnections; idle.go:147-196, manager.go:97-111, reconnect.go:46).
THEOREM MailIsSeen ==
  ASSUME W!WatchAssumption, I!ConnectionsAssumption
  PROVE  Spec => MailSeen
<1> DEFINE Held ==
      /\ part = "watchers" => WatchInv
      /\ part = "sockets" => SocketsInv
      /\ part # "watchers" => W!There = {}
<1>1. Init => Held
  <2>1. ASSUME Init PROVE Held
    <3>1. W!Init /\ I!Init
      BY <2>1 DEF Init
    <3>2. WatchInv /\ SocketsInv
      BY <3>1, WatchInit, SocketsInit
    <3>3. W!There = {}
      BY <3>1 DEF W!Init, W!There
    <3>4. QED
      BY <3>2, <3>3
  <2>2. QED
    BY <2>1
<1>2. Held /\ [Next]_vars => Held' /\ (UNCHANGED W!vars \/ Passes)
  <2>1. SUFFICES ASSUME Held, [Next]_vars
                 PROVE  Held' /\ (UNCHANGED W!vars \/ Passes)
    OBVIOUS
  <2>2. CASE part = "watchers" /\ Next
    BY <2>1, <2>2, WatchNext DEF Next, Is
  <2>3. CASE part = "sockets" /\ Next
    <3>1. SocketsInv /\ I!Next /\ UNCHANGED part /\ UNCHANGED watchers
      BY <2>1, <2>3 DEF Next, Is
    <3>2. SocketsInv'
      BY <3>1, SocketsNext
    <3>3. W!There' = {} /\ Passes
      BY <2>1, <2>3, <3>1 DEF watchers, W!There, Passes
    <3>4. QED
      BY <2>3, <3>1, <3>2, <3>3
  <2>4. CASE part \notin {"watchers", "sockets"} /\ Next
    BY <2>1, <2>4 DEF Next, Is, watchers, W!There, Passes
  <2>5. CASE UNCHANGED vars
    <3>1. UNCHANGED <<part, hour, fault, watchers, sockets>>
      BY <2>5 DEF vars
    <3>2. UNCHANGED W!vars /\ UNCHANGED I!vars
      BY <3>1 DEF watchers, sockets, W!vars, I!vars
    <3>3. W!There' = W!There
      BY <3>2 DEF W!vars, W!There
    <3>4. WatchInv => WatchInv'
      BY <3>2, WatchStutter
    <3>5. SocketsInv => SocketsInv'
      BY <3>2, SocketsStutter
    <3>6. QED
      BY <2>1, <3>1, <3>2, <3>3, <3>4, <3>5
  <2>6. QED
    BY <2>1, <2>2, <2>3, <2>4, <2>5
<1>3. Held => /\ part = "watchers" => W!MailSeen
              /\ part = "sockets" => I!ConnectionsHeld
  BY WatchInvHolds, SocketsInvHolds
<1> HIDE DEF Held
<1>4. Held /\ [Next]_vars => Held' /\ [\A m \in W!There : watch.last < m /\ m <= watch'.last =>
          m \in NoId \cup watch.failed \cup watch.skipped \/ W!Stored(m)' \/ m \notin W!Recent]_(W!vars)
  BY <1>2, Zenon DEF Passes
<1>5. QED
  BY <1>1, <1>3, <1>4, PTL DEF Spec, MailSeen, W!NonePassed
-------------------------------------------------------------------------------
(* Memory.                                                                 *)

Prompt == [pc : {"idle", "briefs", "patterns", "done", "none"}, rules : SUBSET Rules,
           briefs : SUBSET Briefs, patterns : SUBSET Categories]
Brief == [row : {TRUE}, expires : 0 .. MemoryTime + 1, match : BOOLEAN]

MemoryInv ==
  /\ rule \in [Rules -> M!Rows \cup {M!NoRow}]
  /\ brief \in [Briefs -> Brief \cup {M!NoRow}] /\ patterns \subseteq Categories
  /\ inject \in [Prompts -> Prompt] /\ writer \in [{} -> {"idle", "insert"}]
  /\ hour \in 0 .. MemoryTime /\ fault \in 0 .. MemoryErrors

LEMMA MemoryInvHolds ==
  ASSUME MemoryInv
  PROVE  M!MemoryKept
<1>1. \A i \in Prompts : /\ inject[i].pc \in {"idle", "briefs", "patterns", "done", "none"}
                          /\ inject[i].rules \subseteq Rules /\ inject[i].briefs \subseteq Briefs
  BY DEF MemoryInv, Prompt
<1>2. M!TypeOK
  BY <1>1, Zenon DEF MemoryInv, M!TypeOK, Brief
<1>3. M!RulesWithinLimit
  BY DEF M!RulesWithinLimit
<1>4. QED
  BY <1>2, <1>3 DEF M!MemoryKept

LEMMA MemoryInit ==
  ASSUME M!MemoryAssumption, M!Init
  PROVE  MemoryInv
  BY DEF M!Nothing, Prompt, M!MemoryAssumption, M!Init, MemoryInv

\* What a rule or a brief becomes.
LEMMA RuleRows ==
  ASSUME NEW r \in M!Rows, NEW scope \in Scopes, NEW filter \in BOOLEAN, NEW active \in BOOLEAN
  PROVE  /\ [r EXCEPT !.scope = scope, !.filter = filter, !.active = active,
                      !.counted = @ /\ (active => r.active)] \in M!Rows
         /\ r.row = TRUE
  BY Zenon DEF M!Rows

LEMMA NoRules ==
  /\ M!NoRow.row = FALSE
  /\ \A r \in M!Rows : r.row = TRUE /\ r.counted \in BOOLEAN /\ r.active \in BOOLEAN
  /\ \A scope \in Scopes, filter, counted \in BOOLEAN :
       [row |-> TRUE, scope |-> scope, filter |-> filter, active |-> TRUE, counted |-> counted] \in M!Rows
  BY DEF M!NoRow, M!Rows

LEMMA MemoryRules ==
  ASSUME MemoryInv, UNCHANGED <<brief, patterns, inject, writer, hour, fault>>,
         \/ \E r \in Rules, s \in Scopes, f \in BOOLEAN : M!HandleCreateUserRule(r, s, f)
         \/ \E r \in Rules, s \in Scopes, f, a \in BOOLEAN : M!HandleUpdateUserRule(r, s, f, a)
         \/ \E r \in Rules : M!HandleDeleteUserRule(r)
  PROVE  MemoryInv'
<1>1. rule \in [Rules -> M!Rows \cup {M!NoRow}]
  BY DEF MemoryInv
<1>2. rule' \in [Rules -> M!Rows \cup {M!NoRow}]
  <2>1. ASSUME NEW r \in Rules, NEW s \in Scopes, NEW f \in BOOLEAN, M!HandleCreateUserRule(r, s, f)
        PROVE  rule' \in [Rules -> M!Rows \cup {M!NoRow}]
    BY <1>1, <2>1, NoRules DEF M!HandleCreateUserRule, M!Insert
  <2>2. ASSUME NEW r \in Rules, NEW s \in Scopes, NEW f \in BOOLEAN, NEW a \in BOOLEAN,
               M!HandleUpdateUserRule(r, s, f, a)
        PROVE  rule' \in [Rules -> M!Rows \cup {M!NoRow}]
    <3>1. rule[r] \in M!Rows
      BY <1>1, <2>2, NoRules DEF M!HandleUpdateUserRule
    <3>2. PICK d : d = [rule[r] EXCEPT !.scope = s, !.filter = f, !.active = a,
                                       !.counted = @ /\ (a => rule[r].active)]
      OBVIOUS
    <3>3. d \in M!Rows
      BY <3>1, <3>2, RuleRows
    <3>4. rule' = [rule EXCEPT ![r] = d]
      BY <2>2, <3>2 DEF M!HandleUpdateUserRule
    <3>5. QED
      BY <1>1, <3>3, <3>4
  <2>3. ASSUME NEW r \in Rules, M!HandleDeleteUserRule(r)
        PROVE  rule' \in [Rules -> M!Rows \cup {M!NoRow}]
    BY <1>1, <2>3 DEF M!HandleDeleteUserRule
  <2>4. QED
    BY <2>1, <2>2, <2>3
<1>3. QED
  BY <1>2 DEF MemoryInv

\* Why a prompt loses its memory, and how many rules it gets.
PromptKept ==
  \A i \in Prompts :
       /\ inject'[i].pc = "none" /\ inject[i].pc # "none" /\ fault' = fault
            => \E r \in M!HandleListUserRules : rule[r].active /\ ~rule[r].filter
       /\ inject[i].pc = "idle" /\ inject'[i].pc = "briefs"
            => M!Cardinality(inject'[i].rules) >= M!Fitting(M!Applicable)

LEMMA MemoryInject ==
  ASSUME M!MemoryAssumption, MemoryInv, NEW i \in Prompts,
         M!GetActive(i) \/ M!MatchBriefs(i) \/ M!GetConfident(i) \/ M!Fails(i)
  PROVE  MemoryInv' /\ PromptKept
<1>1. /\ inject \in [Prompts -> Prompt] /\ inject[i] \in Prompt /\ MemoryErrors \in Nat
      /\ UNCHANGED <<rule, brief, patterns, writer, hour>> /\ patterns \subseteq Categories
  BY DEF MemoryInv, M!MemoryAssumption, M!GetActive, M!MatchBriefs, M!GetConfident, M!Fails
<1>2. M!Nothing \in Prompt /\ M!Nothing.pc = "none"
  BY DEF M!Nothing, Prompt
<1>3. fault' \in 0 .. MemoryErrors
  <2>1. fault \in 0 .. MemoryErrors
    BY DEF MemoryInv
  <2>2. fault' = fault \/ (fault < MemoryErrors /\ fault' = fault + 1)
    BY Zenon DEF M!GetActive, M!MatchBriefs, M!GetConfident, M!Fails
  <2>3. QED
    BY <1>1, <2>1, <2>2
<1>4. ASSUME NEW d \in Prompt, M!Set(i, d) PROVE MemoryInv' /\ \A o \in Prompts : inject'[o] = IF o = i THEN d ELSE inject[o]
  BY <1>1, <1>3, <1>4 DEF M!Set, MemoryInv
<1>5. CASE M!Fails(i)
  BY <1>1, <1>2, <1>4, <1>5 DEF M!Fails, MemoryInv, PromptKept
<1>6. CASE M!GetActive(i) /\ M!ScanFails
  <2>1. MemoryInv' /\ \A o \in Prompts : inject'[o] = IF o = i THEN M!Nothing ELSE inject[o]
    BY <1>2, <1>4, <1>6 DEF M!GetActive
  <2>2. \E r \in M!HandleListUserRules : rule[r].active /\ ~rule[r].filter
    BY <1>6 DEF M!ScanFails, M!Applicable, M!Active
  <2>3. QED
    BY <1>2, <2>1, <2>2 DEF PromptKept
<1>7. CASE M!GetActive(i) /\ ~M!ScanFails
  <2>1. PICK s \in M!Formatted(M!Applicable) : M!Set(i, [M!Nothing EXCEPT !.pc = "briefs", !.rules = s])
    BY Zenon, <1>7 DEF M!GetActive
  <2>2. s \subseteq Rules /\ M!Cardinality(s) = M!Fitting(M!Applicable)
    BY <2>1 DEF M!Formatted, M!Applicable, M!Active, M!HandleListUserRules
  <2>3. PICK d : d = [M!Nothing EXCEPT !.pc = "briefs", !.rules = s]
    OBVIOUS
  <2>4. d \in Prompt /\ d.pc = "briefs" /\ d.rules = s
    BY <1>2, <2>2, <2>3 DEF Prompt
  <2>5. MemoryInv' /\ \A o \in Prompts : inject'[o] = IF o = i THEN d ELSE inject[o]
    BY <1>4, <2>1, <2>3, <2>4
  <2>6. M!Cardinality(s) \in Nat
    <3>1. IsFiniteSet(Rules)
      BY Zenon DEF M!MemoryAssumption, M!IsFiniteSet, IsFiniteSet
    <3>2. IsFiniteSet(s)
      BY <2>2, <3>1, FS_Subset
    <3>3. M!Cardinality(s) = Cardinality(s)
      BY Zenon DEF M!Cardinality, Cardinality
    <3>4. QED
      BY <3>2, <3>3, FS_CardinalityType
  <2>7. QED
    BY <2>2, <2>4, <2>5, <2>6 DEF PromptKept
<1>8. CASE M!MatchBriefs(i)
  <2>1. PICK d : d = [inject[i] EXCEPT !.pc = "patterns", !.briefs = M!Match]
    OBVIOUS
  <2>2. M!Match \subseteq Briefs
    BY DEF M!Match, M!HandleListContextBriefs
  <2>3. d \in Prompt /\ d.pc = "patterns"
    BY <1>1, <2>1, <2>2 DEF Prompt
  <2>4. MemoryInv' /\ \A o \in Prompts : inject'[o] = IF o = i THEN d ELSE inject[o]
    BY <1>4, <1>8, <2>1, <2>3 DEF M!MatchBriefs
  <2>5. QED
    BY <2>3, <2>4 DEF PromptKept
<1>9. CASE M!GetConfident(i)
  <2>1. PICK d : d = [inject[i] EXCEPT !.pc = "done", !.patterns = patterns]
    OBVIOUS
  <2>2. d \in Prompt /\ d.pc = "done"
    BY <1>1, <2>1 DEF Prompt
  <2>3. MemoryInv' /\ \A o \in Prompts : inject'[o] = IF o = i THEN d ELSE inject[o]
    BY <1>4, <1>9, <2>1, <2>2 DEF M!GetConfident
  <2>4. QED
    BY <2>2, <2>3 DEF PromptKept
<1>10. QED
  BY <1>5, <1>6, <1>7, <1>8, <1>9

LEMMA PromptsUntouched ==
  ASSUME UNCHANGED inject
  PROVE  PromptKept
  BY DEF PromptKept

LEMMA MemoryNext ==
  ASSUME M!MemoryAssumption, MemoryInv, M!Next
  PROVE  MemoryInv' /\ PromptKept
<1>1. ASSUME \/ \E r \in Rules, s \in Scopes, f \in BOOLEAN : M!HandleCreateUserRule(r, s, f)
             \/ \E r \in Rules, s \in Scopes, f, a \in BOOLEAN : M!HandleUpdateUserRule(r, s, f, a)
             \/ \E r \in Rules : M!HandleDeleteUserRule(r)
      PROVE  MemoryInv' /\ PromptKept
  BY <1>1, MemoryRules, PromptsUntouched DEF M!HandleCreateUserRule, M!HandleUpdateUserRule,
     M!HandleDeleteUserRule
<1>2. ASSUME NEW b \in Briefs,
             \/ M!HandleDeleteContextBrief(b)
             \/ \E t \in 0 .. MemoryTime + 1, m \in BOOLEAN : M!HandleCreateContextBrief(b, t, m)
      PROVE  MemoryInv' /\ PromptKept
  <2>1. UNCHANGED <<rule, patterns, inject, writer, hour, fault>>
    BY <1>2 DEF M!HandleDeleteContextBrief, M!HandleCreateContextBrief
  <2>2. PICK d \in Brief \cup {M!NoRow} : brief' = [brief EXCEPT ![b] = d]
    BY <1>2 DEF M!HandleDeleteContextBrief, M!HandleCreateContextBrief, Brief
  <2>3. QED
    BY <2>1, <2>2, PromptsUntouched DEF MemoryInv
<1>3. ASSUME M!HandleGeneratePatterns \/ \E c \in Categories : M!Upsert(c)
      PROVE  MemoryInv' /\ PromptKept
  BY <1>3, PromptsUntouched DEF M!HandleGeneratePatterns, M!Upsert, M!Derived, MemoryInv
<1>4. ASSUME M!Tick PROVE MemoryInv' /\ PromptKept
  BY <1>4, PromptsUntouched DEF M!Tick, MemoryInv, M!MemoryAssumption
<1>5. QED
  BY <1>1, <1>2, <1>3, <1>4, MemoryInject, Zenon DEF M!Next
-------------------------------------------------------------------------------
(* Rules within their limit.                                               *)

Counted == {r \in Q!Active : rule[r].counted}
Counting == {w \in Processes : writer[w] = "insert"}

\* Who has counted is counted with the rules.
RulesInv ==
  /\ Q!TypeOK
  /\ RuleLimit > 0 => Cardinality(Counted) + Cardinality(Counting)
                        <= RuleLimit + Cardinality(Processes) - 1

LEMMA RulesFinite ==
  ASSUME Q!MemoryAssumption
  PROVE  /\ IsFiniteSet(ManyRules) /\ IsFiniteSet(Processes) /\ Cardinality(Processes) \in Nat
         /\ RuleLimit \in Nat
         /\ IsFiniteSet(Counted) /\ Cardinality(Counted) \in Nat
         /\ IsFiniteSet(Counting) /\ Cardinality(Counting) \in Nat
         /\ Cardinality(Counting) <= Cardinality(Processes)
         /\ IsFiniteSet(Q!Active) /\ Cardinality(Q!Active) \in Nat
         /\ Cardinality(Counted) <= Cardinality(Q!Active)
<1>1. IsFiniteSet(ManyRules) /\ IsFiniteSet(Processes)
  BY Zenon DEF Q!MemoryAssumption, Q!IsFiniteSet, IsFiniteSet
<1>2. RuleLimit \in Nat
  BY DEF Q!MemoryAssumption
<1>3. Q!Active \subseteq ManyRules /\ Counted \subseteq Q!Active /\ Counting \subseteq Processes
  BY DEF Q!Active, Q!HandleListUserRules, Counted, Counting
<1>4. IsFiniteSet(Q!Active) /\ IsFiniteSet(Counting) /\ Cardinality(Counting) <= Cardinality(Processes)
  BY <1>1, <1>3, FS_Subset
<1>5. IsFiniteSet(Counted) /\ Cardinality(Counted) <= Cardinality(Q!Active)
  BY <1>3, <1>4, FS_Subset
<1>6. QED
  BY <1>1, <1>2, <1>4, <1>5, FS_CardinalityType

LEMMA QCardinality ==
  ASSUME NEW S
  PROVE  Q!Cardinality(S) = Cardinality(S)
  BY Zenon DEF Q!Cardinality, Cardinality

LEMMA RulesInvHolds ==
  ASSUME Q!MemoryAssumption, RulesInv
  PROVE  Q!MemoryKept
  BY RulesFinite, QCardinality DEF RulesInv, Q!RulesWithinLimit, Counted, Q!MemoryKept

LEMMA RulesInit ==
  ASSUME Q!MemoryAssumption, Q!Init
  PROVE  RulesInv
<1>1. Q!NoRow.row = FALSE /\ rule = [r \in ManyRules |-> Q!NoRow]
  BY DEF Q!NoRow, Q!Init
<1>2. Counted = {} /\ Counting = {}
  BY <1>1 DEF Counted, Counting, Q!Active, Q!HandleListUserRules, Q!Init
<1>3. Cardinality({}) = 0
  BY FS_EmptySet
<1>4. Q!Nothing = [pc |-> "none", rules |-> {}, briefs |-> {}, patterns |-> {}]
  BY DEF Q!Nothing
<1>5. \A i \in Prompts : inject[i] = [pc |-> "idle", rules |-> {}, briefs |-> {}, patterns |-> {}]
  BY <1>4 DEF Q!Init
<1>6. Q!TypeOK
  BY <1>1, <1>5 DEF Q!Init, Q!TypeOK
<1>7. QED
  BY <1>2, <1>3, <1>6, RulesFinite DEF RulesInv

\* Fewer rules, or as many, with the same calls.
LEMMA CountedFewer ==
  ASSUME Q!MemoryAssumption, RulesInv, Counted' \subseteq Counted, Counting' = Counting
  PROVE  RuleLimit > 0 => Cardinality(Counted') + Cardinality(Counting')
                            <= RuleLimit + Cardinality(Processes) - 1
  BY RulesFinite, FS_Subset, FS_CardinalityType DEF RulesInv

LEMMA NoLimitedRules ==
  /\ Q!NoRow.row = FALSE
  /\ \A r \in Q!Rows : r.row = TRUE /\ r.counted \in BOOLEAN /\ r.active \in BOOLEAN
  /\ \A scope \in RuleScopes, filter, counted \in BOOLEAN :
       /\ [row |-> TRUE, scope |-> scope, filter |-> filter, active |-> TRUE, counted |-> counted] \in Q!Rows
       /\ [row |-> TRUE, scope |-> scope, filter |-> filter, active |-> TRUE, counted |-> counted].counted = counted
  BY DEF Q!NoRow, Q!Rows

LEMMA UpdatedRule ==
  ASSUME NEW r \in Q!Rows, NEW scope \in RuleScopes, NEW filter \in BOOLEAN, NEW active \in BOOLEAN,
         NEW c \in BOOLEAN,
         c => r.counted /\ (active => r.active)
  PROVE  /\ [r EXCEPT !.scope = scope, !.filter = filter, !.active = active, !.counted = c] \in Q!Rows
         /\ [r EXCEPT !.scope = scope, !.filter = filter, !.active = active, !.counted = c].active
            /\ [r EXCEPT !.scope = scope, !.filter = filter, !.active = active, !.counted = c].counted
            => r.active /\ r.counted
  BY DEF Q!Rows

LEMMA RulesTimeless ==
  ASSUME Q!TypeOK PROVE hour \in 0 .. 0 /\ fault \in 0 .. 0
  BY DEF Q!TypeOK

LEMMA RulesNext ==
  ASSUME Q!MemoryAssumption, RulesInv, Q!Next, UNCHANGED <<brief, patterns, inject>>
  PROVE  RulesInv'
<1>1. /\ rule \in [ManyRules -> Q!Rows \cup {Q!NoRow}] /\ writer \in [Processes -> {"idle", "insert"}]
      /\ Q!TypeOK
  BY DEF RulesInv, Q!TypeOK
<1>2. ASSUME NEW r \in ManyRules, NEW d \in Q!Rows \cup {Q!NoRow}, rule' = [rule EXCEPT ![r] = d]
      PROVE  /\ rule' \in [ManyRules -> Q!Rows \cup {Q!NoRow}]
             /\ \A o \in ManyRules : rule'[o] = IF o = r THEN d ELSE rule[o]
  BY <1>1, <1>2
<1>3. ASSUME rule' \in [ManyRules -> Q!Rows \cup {Q!NoRow}], writer' \in [Processes -> {"idle", "insert"}],
             UNCHANGED <<hour, fault>>
      PROVE  Q!TypeOK'
  BY <1>1, <1>3 DEF Q!TypeOK
<1>4. ASSUME NEW r \in ManyRules, NEW s \in RuleScopes, NEW f \in BOOLEAN, Q!HandleCreateUserRule(r, s, f)
      PROVE  RulesInv'
  <2>1. PICK d \in Q!Rows : d.counted = FALSE /\ rule' = [rule EXCEPT ![r] = d] /\ ~rule[r].row
    BY <1>4, NoLimitedRules DEF Q!HandleCreateUserRule, Q!Insert
  <2>2. Counted' \subseteq Counted
    BY <1>2, <2>1 DEF Counted, Q!Active, Q!HandleListUserRules
  <2>3. UNCHANGED <<writer, hour, fault>>
    BY <1>4 DEF Q!HandleCreateUserRule
  <2>4. Counting' = Counting
    BY <2>3 DEF Counting
  <2>5. QED
    BY <1>1, <1>2, <1>3, <2>1, <2>2, <2>3, <2>4, CountedFewer DEF RulesInv
<1>5. ASSUME NEW r \in ManyRules, NEW s \in RuleScopes, NEW f \in BOOLEAN, NEW a \in BOOLEAN,
             Q!HandleUpdateUserRule(r, s, f, a)
      PROVE  RulesInv'
  <2>1. rule[r] \in Q!Rows
    BY <1>1, <1>5, NoLimitedRules DEF Q!HandleUpdateUserRule
  <2>2. PICK d \in Q!Rows : /\ rule' = [rule EXCEPT ![r] = d]
                            /\ d.active /\ d.counted => rule[r].active /\ rule[r].counted
    <3>1. PICK c \in BOOLEAN : c = (rule[r].counted /\ (a => rule[r].active))
      OBVIOUS
    <3>2. PICK d : d = [rule[r] EXCEPT !.scope = s, !.filter = f, !.active = a, !.counted = c]
      OBVIOUS
    <3>3. d \in Q!Rows /\ (d.active /\ d.counted => rule[r].active /\ rule[r].counted)
      BY <1>5, <2>1, <3>1, <3>2, UpdatedRule, Zenon
    <3>4. rule' = [rule EXCEPT ![r] = d]
      BY <1>5, <3>1, <3>2 DEF Q!HandleUpdateUserRule
    <3>5. QED
      BY <3>3, <3>4
  <2>3. Counted' \subseteq Counted
    BY <1>2, <2>1, <2>2, NoLimitedRules DEF Counted, Q!Active, Q!HandleListUserRules
  <2>4. UNCHANGED <<writer, hour, fault>>
    BY <1>5 DEF Q!HandleUpdateUserRule
  <2>5. Counting' = Counting
    BY <2>4 DEF Counting
  <2>6. QED
    BY <1>1, <1>2, <1>3, <2>2, <2>3, <2>4, <2>5, CountedFewer DEF RulesInv
<1>6. ASSUME NEW r \in ManyRules, Q!HandleDeleteUserRule(r)
      PROVE  RulesInv'
  <2>1. rule' = [rule EXCEPT ![r] = Q!NoRow] /\ UNCHANGED <<writer, hour, fault>>
    BY <1>6 DEF Q!HandleDeleteUserRule
  <2>2. Counted' \subseteq Counted /\ Counting' = Counting
    BY <1>2, <2>1, NoLimitedRules DEF Counted, Q!Active, Q!HandleListUserRules, Counting
  <2>3. QED
    BY <1>1, <1>2, <1>3, <2>1, <2>2, CountedFewer DEF RulesInv
<1>7. ASSUME NEW w \in Processes, Q!Count(w)
      PROVE  RulesInv'
  <2>1. /\ UNCHANGED <<rule, hour, fault>> /\ writer' = [writer EXCEPT ![w] = "insert"]
        /\ RuleLimit = 0 \/ Cardinality(Q!Active) < RuleLimit
    BY <1>7, QCardinality DEF Q!Count
  <2>2. Q!TypeOK'
    BY <1>1, <1>3, <2>1
  <2>3. Counted' = Counted
    BY <2>1 DEF Counted, Q!Active, Q!HandleListUserRules
  <2>4. Counting' \subseteq Processes
    BY DEF Counting
  <2>5. Cardinality(Counting') <= Cardinality(Processes) /\ IsFiniteSet(Counting')
    BY <2>4, RulesFinite, FS_Subset
  <2>6. Cardinality(Counting') \in Nat
    BY <2>5, FS_CardinalityType
  <2>7. QED
    BY <2>1, <2>2, <2>3, <2>5, <2>6, RulesFinite DEF RulesInv
<1>8. ASSUME NEW w \in Processes, NEW r \in ManyRules, NEW s \in RuleScopes, Q!Create(w, r, s)
      PROVE  RulesInv'
  <2>1. PICK d \in Q!Rows : rule' = [rule EXCEPT ![r] = d]
    BY <1>8, NoLimitedRules DEF Q!Create, Q!Insert
  <2>2. writer[w] = "insert" /\ writer' = [writer EXCEPT ![w] = "idle"] /\ UNCHANGED <<hour, fault>>
    BY <1>8 DEF Q!Create
  <2>3. Q!TypeOK'
    BY <1>1, <1>2, <1>3, <2>1, <2>2
  <2>4. Counted' \subseteq Counted \cup {r}
    BY <1>2, <2>1 DEF Counted, Q!Active, Q!HandleListUserRules
  <2>5. Counting' = Counting \ {w} /\ w \in Counting
    BY <1>1, <2>2 DEF Counting
  <2>6. Cardinality(Counting') = Cardinality(Counting) - 1
    BY <2>5, RulesFinite, FS_RemoveElement
  <2>7. /\ IsFiniteSet(Counted \cup {r})
        /\ Cardinality(Counted \cup {r}) = Cardinality(Counted)
           \/ Cardinality(Counted \cup {r}) = Cardinality(Counted) + 1
    BY RulesFinite, FS_AddElement, Zenon
  <2>8. Cardinality(Counted') <= Cardinality(Counted \cup {r}) /\ IsFiniteSet(Counted')
    BY <2>4, <2>7, FS_Subset
  <2>9. Cardinality(Counted') \in Nat
    BY <2>8, FS_CardinalityType
  <2>10. QED
    BY <2>3, <2>6, <2>7, <2>8, <2>9, RulesFinite DEF RulesInv
<1>9. ASSUME \/ \E b \in Briefs : \/ Q!HandleDeleteContextBrief(b)
                                  \/ \E t \in 0 .. 0 + 1, m \in BOOLEAN : Q!HandleCreateContextBrief(b, t, m)
             \/ Q!HandleGeneratePatterns \/ \E c \in {} : Q!Upsert(c)
             \/ \E i \in Prompts : Q!GetActive(i) \/ Q!MatchBriefs(i) \/ Q!GetConfident(i) \/ Q!Fails(i)
             \/ Q!Tick
      PROVE  RulesInv'
  <2>1. UNCHANGED <<rule, writer>>
    BY <1>9, Zenon DEF Q!HandleDeleteContextBrief, Q!HandleCreateContextBrief, Q!HandleGeneratePatterns, Q!Upsert,
                Q!GetActive, Q!MatchBriefs, Q!GetConfident, Q!Fails, Q!Tick
  <2>2. hour' \in 0 .. 0 /\ fault' \in 0 .. 0
    <3>1. hour = 0 /\ fault = 0
      <4>1. hour \in 0 .. 0 /\ fault \in 0 .. 0
        BY <1>1, RulesTimeless, Zenon
      <4>2. QED
        BY <4>1
    <3>2. hour' = hour \/ hour < 0
      BY <1>9, Zenon DEF Q!HandleDeleteContextBrief, Q!HandleCreateContextBrief, Q!HandleGeneratePatterns,
                  Q!Upsert, Q!GetActive, Q!MatchBriefs, Q!GetConfident, Q!Fails, Q!Tick
    <3>3. fault' = fault \/ fault < 0
      BY <1>9, Zenon DEF Q!HandleDeleteContextBrief, Q!HandleCreateContextBrief, Q!HandleGeneratePatterns,
                  Q!Upsert, Q!GetActive, Q!MatchBriefs, Q!GetConfident, Q!Fails, Q!Tick
    <3>4. QED
      BY <3>1, <3>2, <3>3
  <2>3. Q!TypeOK' /\ Counted' = Counted /\ Counting' = Counting
    BY <1>1, <2>1, <2>2 DEF Q!TypeOK, Counted, Counting, Q!Active, Q!HandleListUserRules
  <2>4. QED
    BY <2>3, Zenon DEF RulesInv
<1>10. QED
  BY <1>4, <1>5, <1>6, <1>7, <1>8, <1>9, Zenon DEF Q!Next
-------------------------------------------------------------------------------
(* Learning.                                                               *)

\* Every list of examples is a sequence of at most ExampleCap kinds, and every
\* such sequence is one.
LEMMA ListIsSequence ==
  ASSUME G!LearningAssumption, NEW e \in G!Lists
  PROVE  /\ e \in Seq(G!Kinds) /\ Len(e) \in Nat /\ Len(e) <= ExampleCap
         /\ \A k \in 1 .. Len(e) : e[k] \in G!Kinds
<1>1. ExampleCap \in Nat
  BY DEF G!LearningAssumption
<1>2. PICK n \in 0 .. ExampleCap : e \in [1 .. n -> G!Kinds]
  BY DEF G!Lists
<1>3. n \in Nat /\ n <= ExampleCap
  BY <1>1, <1>2
<1>4. e \in Seq(G!Kinds)
  BY <1>2, <1>3, SeqDef
<1>5. Len(e) \in Nat /\ DOMAIN e = 1 .. Len(e) /\ e \in [1 .. Len(e) -> G!Kinds]
  BY <1>4, LenProperties
<1>6. DOMAIN e = 1 .. n
  BY <1>2
<1>7. Len(e) = n
  <2>1. \A k \in Nat : (1 <= k /\ k <= n) <=> (1 <= k /\ k <= Len(e))
    BY <1>3, <1>5, <1>6
  <2>2. n <= Len(e)
    <3>1. CASE n = 0
      BY <1>5, <3>1
    <3>2. CASE n # 0
      BY <1>3, <1>5, <2>1, <3>2
    <3>3. QED
      BY <3>1, <3>2
  <2>3. Len(e) <= n
    <3>1. CASE Len(e) = 0
      BY <1>3, <3>1
    <3>2. CASE Len(e) # 0
      BY <1>3, <1>5, <2>1, <3>2
    <3>3. QED
      BY <3>1, <3>2
  <2>4. Len(e) \in Nat
    BY <1>5
  <2>5. QED
    BY <1>3, <2>2, <2>3, <2>4
<1>8. QED
  BY <1>3, <1>4, <1>5, <1>7

LEMMA SequenceIsList ==
  ASSUME G!LearningAssumption, NEW e \in Seq(G!Kinds), Len(e) <= ExampleCap
  PROVE  e \in G!Lists
  BY LenProperties DEF G!LearningAssumption, G!Lists

\* Neither the missing row nor a null is a list.
LEMMA MarksAreNoLists ==
  ASSUME G!LearningAssumption
  PROVE  /\ G!None \notin G!Lists /\ G!Null \notin G!Lists /\ G!Absent \notin G!Lists
         /\ G!None # G!Null /\ G!None # G!Absent /\ G!Null # G!Absent
<1>1. /\ Len(G!None) = 1 /\ G!None[1] = "none"
      /\ Len(G!Null) = 1 /\ G!Null[1] = "null"
      /\ Len(G!Absent) = 1 /\ G!Absent[1] = "absent"
  BY DEF G!None, G!Null, G!Absent
<1>2. "none" \notin G!Kinds /\ "null" \notin G!Kinds /\ "absent" \notin G!Kinds
  BY DEF G!Kinds
<1>3. G!None \notin G!Lists
  <2>1. ASSUME G!None \in G!Lists PROVE FALSE
    BY <1>1, <1>2, <2>1, ListIsSequence
  <2>2. QED
    BY <2>1
<1>4. G!Null \notin G!Lists
  <2>1. ASSUME G!Null \in G!Lists PROVE FALSE
    BY <1>1, <1>2, <2>1, ListIsSequence
  <2>2. QED
    BY <2>1
<1>5. G!Absent \notin G!Lists
  <2>1. ASSUME G!Absent \in G!Lists PROVE FALSE
    BY <1>1, <1>2, <2>1, ListIsSequence
  <2>2. QED
    BY <2>1
<1>6. G!None # G!Null /\ G!None # G!Absent /\ G!Null # G!Absent
  BY <1>1
<1>7. QED
  BY <1>3, <1>4, <1>5, <1>6

\* What a value has for elements is a list.
LEMMA ElementsAreLists ==
  ASSUME G!LearningAssumption, NEW old \in G!Lists \cup {G!Absent}
  PROVE  G!Elements(old) \in G!Lists
<1>1. CASE old = G!Absent
  <2>1. <<>> \in Seq(G!Kinds) /\ Len(<<>>) = 0
    BY EmptySeq
  <2>2. Len(<<>>) <= ExampleCap
    BY <2>1 DEF G!LearningAssumption
  <2>3. <<>> \in G!Lists
    BY <2>1, <2>2, SequenceIsList, Zenon
  <2>4. QED
    BY <1>1, <2>3 DEF G!Elements
<1>2. CASE old # G!Absent
  BY <1>2 DEF G!Elements
<1>3. QED
  BY <1>1, <1>2

\* A quick update keeps the examples there are, the oldest first.
LEMMA MergedKeepsOldest ==
  ASSUME G!LearningAssumption, NEW old \in G!Lists \cup {G!Absent}, NEW new \in G!Lists
  PROVE  /\ G!Merged(old, new) \in G!Lists \cup {G!Absent}
         /\ G!KeepsOldest(G!Elements(old), G!Elements(G!Merged(old, new)))
<1>1. ExampleCap \in Nat
  BY DEF G!LearningAssumption
<1>. DEFINE base == G!Elements(old)
<1>0. base = G!Elements(old) /\ base \in G!Lists
  BY ElementsAreLists
<1>. HIDE DEF base
<1>2. /\ base \in Seq(G!Kinds) /\ Len(base) \in Nat /\ Len(base) <= ExampleCap
      /\ new \in Seq(G!Kinds) /\ Len(new) \in Nat
  BY <1>0, ListIsSequence
<1>3. old # G!None /\ old # G!Null /\ new # G!Null
  BY MarksAreNoLists
<1>. DEFINE all == base \o new
            cut == IF Len(all) < ExampleCap THEN Len(all) ELSE ExampleCap
            list == SubSeq(all, 1, cut)
<1>4. /\ all \in Seq(G!Kinds) /\ Len(all) = Len(base) + Len(new)
      /\ \A k \in 1 .. Len(base) + Len(new) : all[k] = IF k <= Len(base) THEN base[k] ELSE new[k - Len(base)]
  BY <1>2, ConcatProperties
<1>5. G!Merged(old, new) = IF all = <<>> THEN G!Absent ELSE list
  BY <1>0, <1>3 DEF G!Merged
<1>6. cut = IF Len(all) < ExampleCap THEN Len(all) ELSE ExampleCap
  OBVIOUS
<1>7. list = SubSeq(all, 1, cut)
  OBVIOUS
<1>. HIDE DEF all, cut, list
<1>8. cut \in Nat /\ cut <= Len(all) /\ cut <= ExampleCap /\ Len(base) <= cut
  BY <1>1, <1>2, <1>4, <1>6
<1>9. \A k \in 1 .. cut : all[k] \in G!Kinds
  BY <1>2, <1>4, <1>8, ElementOfSeq
<1>10. /\ list \in Seq(G!Kinds) /\ Len(list) = IF 1 <= cut THEN cut - 1 + 1 ELSE 0
       /\ \A k \in 1 .. cut - 1 + 1 : list[k] = all[1 + k - 1]
  BY <1>7, <1>8, <1>9, SubSeqProperties
<1>11. /\ Len(list) = cut /\ \A k \in 1 .. Len(base) : list[k] = base[k]
  <2>1. Len(list) = cut
    BY <1>8, <1>10
  <2>2. ASSUME NEW k \in 1 .. Len(base) PROVE list[k] = base[k]
    <3>1. k \in Nat /\ 1 <= k /\ k <= cut /\ k \in 1 .. Len(base) + Len(new)
      BY <1>2, <1>8
    <3>2. list[k] = all[1 + k - 1] /\ 1 + k - 1 = k
      BY <1>8, <1>10, <3>1
    <3>3. all[k] = base[k]
      BY <1>2, <1>4, <3>1
    <3>4. QED
      BY <3>2, <3>3
  <2>3. QED
    BY <2>1, <2>2
<1>12. list \in G!Lists
  BY <1>8, <1>10, <1>11, SequenceIsList
<1>14. SubSeq(list, 1, Len(base)) = base
  BY <1>2, <1>11, ElementOfSeq, SubSeqProperties, SeqEqual
<1>15. G!KeepsOldest(base, list)
  BY <1>8, <1>11, <1>14 DEF G!KeepsOldest
<1>16. CASE all = <<>>
  <2>1. Len(all) = 0
    BY <1>16
  <2>2. Len(base) = 0
    BY <1>2, <1>4, <2>1
  <2>3. base = <<>>
    BY <1>2, <2>2, EmptySeq
  <2>4. SubSeq(<<>>, 1, 0) = <<>> /\ Len(<<>>) = 0
    OBVIOUS
  <2>5. G!KeepsOldest(base, <<>>)
    BY <2>2, <2>3, <2>4 DEF G!KeepsOldest
  <2>6. QED
    BY <1>0, <1>5, <1>16, <2>5 DEF G!Elements
<1>17. CASE all # <<>>
  <2>1. list # G!Absent
    BY <1>12, MarksAreNoLists
  <2>2. QED
    BY <1>0, <1>5, <1>12, <1>15, <1>17, <2>1 DEF G!Elements
<1>18. QED
  BY <1>16, <1>17

LEMMA LearnInit ==
  ASSUME G!LearningAssumption, G!Init
  PROVE  G!TypeOK
  BY DEF G!LearningAssumption, G!Init, G!TypeOK

\* What may become of the examples in a step.
OldestKept ==
  examples' # examples =>
    \/ examples = G!None
    \/ \E l \in Processes : learner[l] = "weekly" /\ learner'[l] = "idle"
    \/ /\ {G!None, G!Null} \cap {examples, examples'} = {}
       /\ G!KeepsOldest(G!Elements(examples), G!Elements(examples'))

LEMMA LearnNext ==
  ASSUME G!LearningAssumption, G!TypeOK, G!Next
  PROVE  G!TypeOK' /\ OldestKept
<1>1. /\ LearningDays \in Nat /\ MaxSignals \in Nat
      /\ signals \in [0 .. LearningDays -> 0 .. MaxSignals] /\ hour \in 0 .. LearningDays
      /\ examples \in G!Lists \cup {G!None, G!Null, G!Absent} /\ learner \in [Processes -> G!Kinds \cup {"idle"}]
  BY DEF G!LearningAssumption, G!TypeOK
<1>2. CASE G!RecordSignal
  BY <1>1, <1>2 DEF G!RecordSignal, G!TypeOK, OldestKept
<1>3. CASE G!Tick
  BY <1>1, <1>3 DEF G!Tick, G!TypeOK, OldestKept
<1>4. ASSUME NEW l \in Processes,
             G!RunIfNeeded(l) \/ G!RunWeeklySynthesis(l) \/ G!CallFails(l)
      PROVE  G!TypeOK' /\ OldestKept
  <2>1. PICK k \in G!Kinds \cup {"idle"} : learner' = [learner EXCEPT ![l] = k]
    BY <1>4 DEF G!RunIfNeeded, G!RunWeeklySynthesis, G!CallFails, G!Asked, G!Kinds
  <2>2. UNCHANGED <<signals, examples, hour>>
    BY <1>4 DEF G!RunIfNeeded, G!RunWeeklySynthesis, G!CallFails, G!Asked
  <2>3. learner' \in [Processes -> G!Kinds \cup {"idle"}]
    BY <1>1, <2>1
  <2>4. QED
    BY <1>1, <2>2, <2>3 DEF G!TypeOK, OldestKept
<1>5. ASSUME NEW l \in Processes, G!AppendExamples(l)
      PROVE  G!TypeOK' /\ OldestKept
  <2>1. PICK new \in G!Answers("quick") : G!Stored(l, G!Merged(examples, new))
    BY <1>5 DEF G!AppendExamples
  <2>2. /\ examples' = G!Merged(examples, new) /\ learner' = [learner EXCEPT ![l] = "idle"]
        /\ UNCHANGED <<signals, hour>>
    BY <2>1 DEF G!Stored
  <2>3. new \in G!Lists \cup {G!Null}
    BY <2>1 DEF G!Answers
  <2>4. learner' \in [Processes -> G!Kinds \cup {"idle"}]
    BY <1>1, <2>2
  <2>5. /\ examples' \in G!Lists \cup {G!None, G!Null, G!Absent}
        /\ \/ examples' = examples \/ examples = G!None
           \/ /\ {G!None, G!Null} \cap {examples, examples'} = {}
              /\ G!KeepsOldest(G!Elements(examples), G!Elements(examples'))
    <3>1. CASE examples = G!None
      BY <2>2, <2>3, <3>1 DEF G!Merged
    <3>2. CASE examples # G!None /\ G!Null \in {examples, new}
      BY <1>1, <2>2, <3>2 DEF G!Merged
    <3>3. CASE examples # G!None /\ G!Null \notin {examples, new}
      BY <1>1, <2>2, <2>3, <3>3, MergedKeepsOldest, MarksAreNoLists
    <3>4. QED
      BY <3>1, <3>2, <3>3
  <2>6. QED
    BY <1>1, <2>2, <2>4, <2>5 DEF G!TypeOK, OldestKept
<1>6. ASSUME NEW l \in Processes, G!StoreConfig(l)
      PROVE  G!TypeOK' /\ OldestKept
  <2>1. PICK new \in G!Answers("weekly") : G!Stored(l, new)
    BY <1>6 DEF G!StoreConfig
  <2>2. /\ examples' = new /\ learner' = [learner EXCEPT ![l] = "idle"] /\ learner[l] = "weekly"
        /\ UNCHANGED <<signals, hour>>
    BY <1>6, <2>1 DEF G!Stored, G!StoreConfig
  <2>3. new \in G!Lists \cup {G!Null}
    BY <2>1 DEF G!Answers
  <2>4. learner' \in [Processes -> G!Kinds \cup {"idle"}] /\ learner'[l] = "idle"
    BY <1>1, <2>2
  <2>5. QED
    BY <1>1, <2>2, <2>3, <2>4 DEF G!TypeOK, OldestKept
<1>7. QED
  BY <1>2, <1>3, <1>4, <1>5, <1>6, Zenon DEF G!Next

LEMMA MemoryStutter ==
  ASSUME UNCHANGED <<rule, brief, patterns, inject, writer, hour, fault>>
  PROVE  /\ MemoryInv => MemoryInv'
         /\ RulesInv => RulesInv'
  BY DEF MemoryInv, Q!TypeOK, Counted, Counting, Q!Active, Q!HandleListUserRules, RulesInv

LEMMA LearnStutter ==
  ASSUME UNCHANGED <<signals, examples, learner>>
  PROVE  /\ OldestKept
         /\ hour' = hour /\ G!TypeOK => G!TypeOK'
  BY DEF OldestKept, G!TypeOK

\* The rules pass their limit by one per other call that has counted at most, a
\* prompt that loses its memory with no error has a rule without a filter
\* behind it, the budget of a prompt is used, and only the weekly synthesis takes
\* examples away or ends a JSON null, SQL's NULL standing for no examples (UserMemory, Learning; rules.go:69, injector.go:29,
\* quick_update.go:93).
THEOREM MemoryIsKept ==
  ASSUME M!MemoryAssumption, Q!MemoryAssumption, G!LearningAssumption
  PROVE  Spec => MemoryKept
<1> DEFINE Kept ==
      /\ part = "memory" => MemoryInv
      /\ part = "rules" => RulesInv
      /\ part = "learning" => G!TypeOK
<1>1. Init => Kept
  <2>1. ASSUME Init PROVE Kept
    BY <2>1, MemoryInit, RulesInit, LearnInit DEF Init
  <2>2. QED
    BY <2>1
<1>2. Kept /\ [Next]_vars => Kept' /\ PromptKept /\ OldestKept
  <2>1. SUFFICES ASSUME Kept, [Next]_vars
                 PROVE  Kept' /\ PromptKept /\ OldestKept
    OBVIOUS
  <2>2. CASE part = "memory" /\ Next
    BY <2>1, <2>2, MemoryNext, LearnStutter DEF Next, Is, learning
  <2>3. CASE part = "rules" /\ Next
    <3>1. /\ RulesInv /\ Q!Next /\ UNCHANGED part
          /\ UNCHANGED learning /\ UNCHANGED <<brief, patterns, inject>>
      BY <2>1, <2>3 DEF Next, Is
    <3>2. RulesInv'
      BY <3>1, RulesNext
    <3>3. PromptKept /\ OldestKept
      BY <3>1, PromptsUntouched, LearnStutter DEF learning
    <3>4. QED
      BY <2>3, <3>1, <3>2, <3>3
  <2>4. CASE part = "learning" /\ Next
    BY <2>1, <2>4, LearnNext, PromptsUntouched DEF Next, Is, memory
  <2>5. CASE part \notin {"memory", "rules", "learning"} /\ Next
    BY <2>5, PromptsUntouched, LearnStutter DEF Next, Is, memory, learning
  <2>6. CASE UNCHANGED vars
    <3>1. UNCHANGED <<part, hour, fault, memory, learning>>
      BY <2>6 DEF vars
    <3>2. UNCHANGED <<rule, brief, patterns, inject, writer>> /\ UNCHANGED <<signals, examples, learner>>
      BY <3>1 DEF memory, learning
    <3>3. /\ MemoryInv => MemoryInv'
          /\ RulesInv => RulesInv'
      BY <3>1, <3>2, MemoryStutter
    <3>4. OldestKept /\ (G!TypeOK => G!TypeOK')
      BY <3>1, <3>2, LearnStutter
    <3>5. PromptKept
      BY <3>2, PromptsUntouched
    <3>6. QED
      BY <2>1, <3>1, <3>3, <3>4, <3>5
  <2>7. QED
    BY <2>1, <2>2, <2>3, <2>4, <2>5, <2>6
<1>3. Kept => /\ part = "memory" => M!MemoryKept
              /\ part = "rules" => Q!MemoryKept
              /\ part = "learning" => G!TypeOK
  BY MemoryInvHolds, RulesInvHolds
<1> HIDE DEF Kept
<1>4. (Kept /\ [Next]_vars) =>
        (Kept' /\ [\A i \in Prompts :
           /\ inject'[i].pc = "none" /\ inject[i].pc # "none" /\ fault' = fault
                => \E r \in M!HandleListUserRules : rule[r].active /\ ~rule[r].filter
           /\ inject[i].pc = "idle" /\ inject'[i].pc = "briefs"
                => M!Cardinality(inject'[i].rules) >= M!Fitting(M!Applicable)]_(M!vars)
         /\ [examples' # examples =>
           \/ examples = G!None
           \/ \E l \in Processes : learner[l] = "weekly" /\ learner'[l] = "idle"
           \/ /\ {G!None, G!Null} \cap {examples, examples'} = {}
              /\ G!KeepsOldest(G!Elements(examples), G!Elements(examples'))]_(G!vars))
  BY <1>2, Zenon DEF PromptKept, OldestKept
<1>5. QED
  BY <1>1, <1>3, <1>4, PTL DEF Spec, MemoryKept, M!LostOnlyByNull, G!OldestStay
-------------------------------------------------------------------------------
(* What is counted of processes when one of them moves.                     *)

One(b) == IF b THEN 1 ELSE 0

LEMMA CountMoves ==
  ASSUME NEW S, IsFiniteSet(S), NEW X \in SUBSET S, NEW Y \in SUBSET S, NEW r \in S,
         X \ {r} = Y \ {r}
  PROVE  /\ Cardinality(X) \in Nat /\ Cardinality(Y) \in Nat /\ Cardinality(S) \in Nat
         /\ Cardinality(X) <= Cardinality(S) /\ Cardinality(Y) <= Cardinality(S)
         /\ Cardinality(Y) + One(r \in X) = Cardinality(X) + One(r \in Y)
  BY FS_Subset, FS_CardinalityType, FS_RemoveElement DEF One
-------------------------------------------------------------------------------
(* The limits of the plan.                                                  *)

PlanRequest ==
  [pc : {"idle", "fill", "seen", "decide", "count", "premium", "call", "allowed", "refused"},
   gate : {H!None, "feature", "plan", "accounts", "tokens", "quota"},
   feature : H!Features \cup {H!None},
   saw : H!Plans, read : Nat, limit : Nat, upgrade : SUBSET H!Plans]

\* What a request may still add to what is counted, while the plan stays.
AddsAccount(q) == q.gate = "accounts" /\ q.pc = "allowed"
AddsTokens(q) ==
  q.gate = "tokens" /\ q.pc \in {"decide", "allowed"} /\ q.read + TokensEach <= TokenLimit[plan]
AddsQuota(q) == q.gate = "quota" /\ q.pc = "count"
AddsPremium(q) == q.gate = "quota" /\ q.pc = "call"

\* Only a request that compares tokens has read any, under a plan with a limit;
\* only one that is refused is told a plan, above its own and with what it lacks.
AskedOK(q) ==
  /\ q.pc = "decide" => q.gate = "tokens" /\ TokenLimit[q.saw] > 0
  /\ q.pc # "refused" => q.upgrade = {}
  /\ q.pc = "refused" =>
       /\ q.gate = "feature" => ~H!HasFeature(q.saw, q.feature)
       /\ \A p \in q.upgrade : p > q.saw /\ (q.gate = "feature" => H!HasFeature(p, q.feature))
       /\ q.gate = "tokens" /\ q.limit = 0 => moves > 0
  /\ moves = 0 /\ q.pc \notin {"idle", "allowed"} => q.saw = plan

\* While the plan stays and no store fails, what has passed a limit is of the
\* requests that may no longer add to it.
WithinPlan ==
  /\ AccountLimit[plan] > 0 =>
       accounts + Cardinality({r \in Processes : AddsAccount(request[r])})
         < AccountLimit[plan] + Cardinality(Processes)
  /\ TokenLimit[plan] > 0 =>
       /\ used + TokensEach * Cardinality({r \in Processes : AddsTokens(request[r])})
            <= TokenLimit[plan] + TokensEach * (Cardinality(Processes) - 1)
       /\ \A r \in Processes :
            request[r].gate = "tokens" /\ request[r].pc = "allowed" => AddsTokens(request[r])
       /\ quota.tokens + TokensEach * Cardinality({r \in Processes : AddsQuota(request[r])})
            < TokenLimit[plan] + TokensEach * Cardinality(Processes)
  /\ PremiumLimit[plan] > 0 =>
       quota.premium + Cardinality({r \in Processes : AddsPremium(request[r])})
         < PremiumLimit[plan] + Cardinality(Processes)

PlansInv ==
  /\ H!TypeOK /\ (moves = 0 => planCache \subseteq {plan})
  /\ \A r \in Processes : AskedOK(request[r])
  /\ moves = 0 /\ fault = 0 => WithinPlan

LEMMA PlanTypes ==
  ASSUME H!LimitsAssumption, H!TypeOK
  PROVE  /\ request \in [Processes -> PlanRequest]
         /\ plan \in H!Plans /\ planCache \in {{}} \cup {{p} : p \in H!Plans}
         /\ used \in Nat /\ accounts \in Nat /\ quota \in [tokens : Nat, premium : Nat]
         /\ AccountLimit[plan] \in Nat /\ TokenLimit[plan] \in Nat /\ PremiumLimit[plan] \in Nat
         /\ \A p \in H!Plans : p \in Nat /\ TokenLimit[p] \in Nat /\ AccountLimit[p] \in Nat
         /\ TokensEach \in Nat \ {0} /\ moves \in Nat /\ fault \in 0 .. MaxFaults /\ MaxFaults \in Nat
         /\ TopPlan \in Nat /\ IsFiniteSet(Processes) /\ Cardinality(Processes) \in Nat
<1>1. /\ plan \in H!Plans /\ planCache \in {{}} \cup {{p} : p \in H!Plans}
      /\ used \in Nat /\ accounts \in Nat /\ quota \in [tokens : Nat, premium : Nat]
      /\ fault \in 0 .. MaxFaults /\ moves \in 0 .. MaxChanges
  BY DEF H!TypeOK
<1>2. request \in [Processes -> PlanRequest]
  BY DEF H!TypeOK, PlanRequest
<1>3. /\ {AccountLimit, TokenLimit, PremiumLimit} \subseteq [H!Plans -> Nat]
      /\ TokensEach \in Nat \ {0} /\ {TopPlan, MaxUse, LimitDays, MaxChanges, MaxFaults} \subseteq Nat
  BY DEF H!LimitsAssumption
<1>4. IsFiniteSet(Processes)
  BY Zenon DEF H!LimitsAssumption, H!IsFiniteSet, IsFiniteSet
<1>5. Cardinality(Processes) \in Nat
  BY <1>4, FS_CardinalityType
<1>6. \A p \in H!Plans : p \in Nat
  BY <1>3 DEF H!Plans
<1>7. moves \in Nat /\ TopPlan \in Nat /\ MaxFaults \in Nat
  BY <1>1, <1>3
<1>8. /\ AccountLimit[plan] \in Nat /\ TokenLimit[plan] \in Nat /\ PremiumLimit[plan] \in Nat
      /\ \A p \in H!Plans : TokenLimit[p] \in Nat /\ AccountLimit[p] \in Nat
  BY <1>1, <1>3
<1>9. QED
  BY <1>1, <1>2, <1>3, <1>4, <1>5, <1>6, <1>7, <1>8

\* What a request that moves alone, as q, adds to what is counted is no more than
\* it could add before, or it has looked just now.
PaysAccount(r, q) ==
  AccountLimit[plan] > 0 =>
    \/ accounts' + One(AddsAccount(q)) <= accounts + One(AddsAccount(request[r]))
    \/ accounts' < AccountLimit[plan]
PaysTokens(r, q) ==
  TokenLimit[plan] > 0 =>
    /\ \/ used' + TokensEach * One(AddsTokens(q)) <= used + TokensEach * One(AddsTokens(request[r]))
       \/ used' + TokensEach <= TokenLimit[plan]
    /\ q.gate = "tokens" /\ q.pc = "allowed" => AddsTokens(q)
PaysQuota(r, q) ==
  TokenLimit[plan] > 0 =>
    \/ quota'.tokens + TokensEach * One(AddsQuota(q))
         <= quota.tokens + TokensEach * One(AddsQuota(request[r]))
    \/ quota'.tokens < TokenLimit[plan]
PaysPremium(r, q) ==
  PremiumLimit[plan] > 0 =>
    \/ quota'.premium + One(AddsPremium(q)) <= quota.premium + One(AddsPremium(request[r]))
    \/ quota'.premium < PremiumLimit[plan]
Pays(r, q) == PaysAccount(r, q) /\ PaysTokens(r, q) /\ PaysQuota(r, q) /\ PaysPremium(r, q)

LEMMA Weighed ==
  ASSUME NEW n \in Nat, NEW m \in Nat, NEW a \in Nat, NEW c \in Nat, NEW d \in Nat, NEW s \in Nat,
         NEW x \in {0, 1}, NEW y \in {0, 1}, d + x = c + y, d <= s,
         n + a * c <= m, NEW k \in Nat, k + a * y <= n + a * x
  PROVE  k + a * d <= m
<1>1. a * (d + x) = a * d + a * x
  OBVIOUS
<1>2. a * (c + y) = a * c + a * y
  OBVIOUS
<1>3. PICK ad \in Nat, ac \in Nat, ax \in Nat, ay \in Nat : ad = a * d /\ ac = a * c /\ ax = a * x /\ ay = a * y
  OBVIOUS
<1>4. ad + ax = ac + ay
  BY <1>1, <1>2, <1>3
<1>5. QED
  BY <1>3, <1>4

LEMMA AllWeighed ==
  ASSUME NEW a \in Nat, NEW d \in Nat, NEW s \in Nat, d <= s
  PROVE  a * d \in Nat /\ a * s \in Nat /\ a * d <= a * s /\ a * (s - 1) = a * s - a
<1>1. PICK k \in Nat : s = d + k
  OBVIOUS
<1>2. a * s = a * d + a * k /\ a * k \in Nat /\ a * d \in Nat
  BY <1>1
<1>3. a * (s - 1) = a * s - a
  OBVIOUS
<1>4. QED
  BY <1>2, <1>3

\* The request that moves is the only one whose part in a count changes.
LEMMA PlanCountMoves ==
  ASSUME H!LimitsAssumption, H!TypeOK, NEW r \in Processes, NEW q \in PlanRequest,
         request' = [request EXCEPT ![r] = q]
  PROVE  /\ \A o \in Processes : request'[o] = IF o = r THEN q ELSE request[o]
         /\ Cardinality({o \in Processes : AddsAccount(request'[o])}) + One(AddsAccount(request[r]))
              = Cardinality({o \in Processes : AddsAccount(request[o])}) + One(AddsAccount(q))
         /\ Cardinality({o \in Processes : AddsTokens(request'[o])}) + One(AddsTokens(request[r]))
              = Cardinality({o \in Processes : AddsTokens(request[o])}) + One(AddsTokens(q))
         /\ Cardinality({o \in Processes : AddsQuota(request'[o])}) + One(AddsQuota(request[r]))
              = Cardinality({o \in Processes : AddsQuota(request[o])}) + One(AddsQuota(q))
         /\ Cardinality({o \in Processes : AddsPremium(request'[o])}) + One(AddsPremium(request[r]))
              = Cardinality({o \in Processes : AddsPremium(request[o])}) + One(AddsPremium(q))
<1>1. /\ request \in [Processes -> PlanRequest] /\ IsFiniteSet(Processes)
      /\ Cardinality(Processes) \in Nat
  BY PlanTypes
<1>2. \A o \in Processes : request'[o] = IF o = r THEN q ELSE request[o]
  BY <1>1
<1>3. Cardinality({o \in Processes : AddsAccount(request'[o])}) + One(AddsAccount(request[r]))
        = Cardinality({o \in Processes : AddsAccount(request[o])}) + One(AddsAccount(q))
  <2> DEFINE X == {o \in Processes : AddsAccount(request[o])}
             Y == {o \in Processes : AddsAccount(request'[o])}
  <2>1. X \ {r} = Y \ {r} /\ (r \in X <=> AddsAccount(request[r])) /\ (r \in Y <=> AddsAccount(q))
    BY <1>2
  <2>2. X \in SUBSET Processes /\ Y \in SUBSET Processes
    OBVIOUS
  <2> HIDE DEF X, Y
  <2>3. Cardinality(Y) + One(r \in X) = Cardinality(X) + One(r \in Y)
    BY <1>1, <2>1, <2>2, CountMoves
  <2>4. One(r \in X) = One(AddsAccount(request[r])) /\ One(r \in Y) = One(AddsAccount(q))
    BY <2>1 DEF One
  <2>5. QED
    BY <2>3, <2>4 DEF X, Y
<1>4. Cardinality({o \in Processes : AddsTokens(request'[o])}) + One(AddsTokens(request[r]))
        = Cardinality({o \in Processes : AddsTokens(request[o])}) + One(AddsTokens(q))
  <2> DEFINE X == {o \in Processes : AddsTokens(request[o])}
             Y == {o \in Processes : AddsTokens(request'[o])}
  <2>1. X \ {r} = Y \ {r} /\ (r \in X <=> AddsTokens(request[r])) /\ (r \in Y <=> AddsTokens(q))
    BY <1>2
  <2>2. X \in SUBSET Processes /\ Y \in SUBSET Processes
    OBVIOUS
  <2> HIDE DEF X, Y
  <2>3. Cardinality(Y) + One(r \in X) = Cardinality(X) + One(r \in Y)
    BY <1>1, <2>1, <2>2, CountMoves
  <2>4. One(r \in X) = One(AddsTokens(request[r])) /\ One(r \in Y) = One(AddsTokens(q))
    BY <2>1 DEF One
  <2>5. QED
    BY <2>3, <2>4 DEF X, Y
<1>5. Cardinality({o \in Processes : AddsQuota(request'[o])}) + One(AddsQuota(request[r]))
        = Cardinality({o \in Processes : AddsQuota(request[o])}) + One(AddsQuota(q))
  <2> DEFINE X == {o \in Processes : AddsQuota(request[o])}
             Y == {o \in Processes : AddsQuota(request'[o])}
  <2>1. X \ {r} = Y \ {r} /\ (r \in X <=> AddsQuota(request[r])) /\ (r \in Y <=> AddsQuota(q))
    BY <1>2
  <2>2. X \in SUBSET Processes /\ Y \in SUBSET Processes
    OBVIOUS
  <2> HIDE DEF X, Y
  <2>3. Cardinality(Y) + One(r \in X) = Cardinality(X) + One(r \in Y)
    BY <1>1, <2>1, <2>2, CountMoves
  <2>4. One(r \in X) = One(AddsQuota(request[r])) /\ One(r \in Y) = One(AddsQuota(q))
    BY <2>1 DEF One
  <2>5. QED
    BY <2>3, <2>4 DEF X, Y
<1>6. Cardinality({o \in Processes : AddsPremium(request'[o])}) + One(AddsPremium(request[r]))
        = Cardinality({o \in Processes : AddsPremium(request[o])}) + One(AddsPremium(q))
  <2> DEFINE X == {o \in Processes : AddsPremium(request[o])}
             Y == {o \in Processes : AddsPremium(request'[o])}
  <2>1. X \ {r} = Y \ {r} /\ (r \in X <=> AddsPremium(request[r])) /\ (r \in Y <=> AddsPremium(q))
    BY <1>2
  <2>2. X \in SUBSET Processes /\ Y \in SUBSET Processes
    OBVIOUS
  <2> HIDE DEF X, Y
  <2>3. Cardinality(Y) + One(r \in X) = Cardinality(X) + One(r \in Y)
    BY <1>1, <2>1, <2>2, CountMoves
  <2>4. One(r \in X) = One(AddsPremium(request[r])) /\ One(r \in Y) = One(AddsPremium(q))
    BY <2>1 DEF One
  <2>5. QED
    BY <2>3, <2>4 DEF X, Y
<1>7. QED
  BY <1>2, <1>3, <1>4, <1>5, <1>6

LEMMA PlanFew ==
  ASSUME H!LimitsAssumption
  PROVE  /\ Cardinality({o \in Processes : AddsAccount(request[o])}) \in 0 .. Cardinality(Processes)
         /\ Cardinality({o \in Processes : AddsTokens(request[o])}) \in 0 .. Cardinality(Processes)
         /\ Cardinality({o \in Processes : AddsQuota(request[o])}) \in 0 .. Cardinality(Processes)
         /\ Cardinality({o \in Processes : AddsPremium(request[o])}) \in 0 .. Cardinality(Processes)
         /\ Cardinality({o \in Processes : AddsAccount(request'[o])}) \in 0 .. Cardinality(Processes)
         /\ Cardinality({o \in Processes : AddsTokens(request'[o])}) \in 0 .. Cardinality(Processes)
         /\ Cardinality({o \in Processes : AddsQuota(request'[o])}) \in 0 .. Cardinality(Processes)
         /\ Cardinality({o \in Processes : AddsPremium(request'[o])}) \in 0 .. Cardinality(Processes)
         /\ Cardinality(Processes) \in Nat
<1>1. IsFiniteSet(Processes)
  BY Zenon DEF H!LimitsAssumption, H!IsFiniteSet, IsFiniteSet
<1>2. \A X \in SUBSET Processes : Cardinality(X) \in 0 .. Cardinality(Processes)
  <2>1. TAKE X \in SUBSET Processes
  <2>2. IsFiniteSet(X) /\ Cardinality(X) <= Cardinality(Processes)
    BY <1>1, FS_Subset
  <2>3. Cardinality(X) \in Nat /\ Cardinality(Processes) \in Nat
    BY <1>1, <2>2, FS_CardinalityType
  <2>4. QED
    BY <2>2, <2>3
<1>3. Cardinality(Processes) \in Nat
  BY <1>1, FS_CardinalityType
<1>4. QED
  BY <1>2, <1>3

LEMMA PaysKeeps ==
  ASSUME H!LimitsAssumption, H!TypeOK, WithinPlan, NEW r \in Processes, NEW q \in PlanRequest,
         request' = [request EXCEPT ![r] = q], plan' = plan,
         used' \in Nat, accounts' \in Nat, quota' \in [tokens : Nat, premium : Nat], Pays(r, q)
  PROVE  WithinPlan'
<1> DEFINE procs == Cardinality(Processes)
           acc == Cardinality({o \in Processes : AddsAccount(request[o])})
           acc1 == Cardinality({o \in Processes : AddsAccount(request'[o])})
           tok == Cardinality({o \in Processes : AddsTokens(request[o])})
           tok1 == Cardinality({o \in Processes : AddsTokens(request'[o])})
           quo == Cardinality({o \in Processes : AddsQuota(request[o])})
           quo1 == Cardinality({o \in Processes : AddsQuota(request'[o])})
           prem == Cardinality({o \in Processes : AddsPremium(request[o])})
           prem1 == Cardinality({o \in Processes : AddsPremium(request'[o])})
<1>1. /\ acc1 + One(AddsAccount(request[r])) = acc + One(AddsAccount(q))
      /\ tok1 + One(AddsTokens(request[r])) = tok + One(AddsTokens(q))
      /\ quo1 + One(AddsQuota(request[r])) = quo + One(AddsQuota(q))
      /\ prem1 + One(AddsPremium(request[r])) = prem + One(AddsPremium(q))
  BY PlanCountMoves
<1>2. /\ {acc, acc1, tok, tok1, quo, quo1, prem, prem1} \subseteq 0 .. procs /\ procs \in Nat
  BY PlanFew
<1>3. \A b : One(b) \in {0, 1}
  BY DEF One
<1>4. /\ AccountLimit[plan] \in Nat /\ TokenLimit[plan] \in Nat /\ PremiumLimit[plan] \in Nat
      /\ TokensEach \in Nat \ {0} /\ used \in Nat /\ accounts \in Nat
      /\ quota \in [tokens : Nat, premium : Nat]
  BY PlanTypes
<1>5. /\ (AccountLimit[plan] > 0 => accounts + acc < AccountLimit[plan] + procs)
      /\ (TokenLimit[plan] > 0 =>
            /\ used + TokensEach * tok <= TokenLimit[plan] + TokensEach * (procs - 1)
            /\ \A o \in Processes :
                 (request[o].gate = "tokens" /\ request[o].pc = "allowed") => AddsTokens(request[o])
            /\ quota.tokens + TokensEach * quo < TokenLimit[plan] + TokensEach * procs)
      /\ (PremiumLimit[plan] > 0 => quota.premium + prem < PremiumLimit[plan] + procs)
  BY DEF WithinPlan
<1> HIDE DEF procs, acc, acc1, tok, tok1, quo, quo1, prem, prem1
<1>6. AccountLimit[plan] > 0 => accounts' + acc1 < AccountLimit[plan] + procs
  BY <1>1, <1>2, <1>3, <1>4, <1>5 DEF Pays, PaysAccount, PaysTokens, PaysQuota, PaysPremium
<1>7. PremiumLimit[plan] > 0 => quota'.premium + prem1 < PremiumLimit[plan] + procs
  BY <1>1, <1>2, <1>3, <1>4, <1>5 DEF Pays, PaysAccount, PaysTokens, PaysQuota, PaysPremium
<1>8. ASSUME TokenLimit[plan] > 0
      PROVE  used' + TokensEach * tok1 <= TokenLimit[plan] + TokensEach * (procs - 1)
  <2>1. CASE used' + TokensEach <= TokenLimit[plan]
    BY <1>2, <1>4, <2>1, AllWeighed
  <2>2. CASE used' + TokensEach * One(AddsTokens(q)) <= used + TokensEach * One(AddsTokens(request[r]))
    <3>1. PICK n \in Nat : n = TokenLimit[plan] + TokensEach * (procs - 1)
      BY <1>2, <1>4, <1>5, <1>8, AllWeighed
    <3>2. used + TokensEach * tok <= n
      BY <1>5, <1>8, <3>1
    <3>3. used' + TokensEach * tok1 <= n
      BY <1>1, <1>2, <1>3, <1>4, <2>2, <3>2, Weighed
    <3>4. QED
      BY <3>1, <3>3
  <2>3. QED
    BY <1>8, <2>1, <2>2 DEF Pays, PaysAccount, PaysTokens, PaysQuota, PaysPremium
<1>9. ASSUME TokenLimit[plan] > 0
      PROVE  quota'.tokens + TokensEach * quo1 < TokenLimit[plan] + TokensEach * procs
  <2>1. /\ TokensEach * quo1 \in Nat /\ TokensEach * quo \in Nat /\ TokensEach * procs \in Nat
        /\ TokensEach * quo1 <= TokensEach * procs
    BY <1>2, <1>4, AllWeighed
  <2>2. CASE quota'.tokens < TokenLimit[plan]
    BY <1>4, <2>1, <2>2
  <2>3. CASE quota'.tokens + TokensEach * One(AddsQuota(q))
               <= quota.tokens + TokensEach * One(AddsQuota(request[r]))
    <3>1. PICK n \in Nat : n = TokenLimit[plan] + TokensEach * procs - 1
      BY <1>4, <1>9, <2>1
    <3>2. quota.tokens + TokensEach * quo <= n
      BY <1>4, <1>5, <1>9, <2>1, <3>1
    <3>3. quota'.tokens + TokensEach * quo1 <= n
      BY <1>1, <1>2, <1>3, <1>4, <2>3, <3>2, Weighed
    <3>4. QED
      BY <1>4, <2>1, <3>1, <3>3
  <2>4. QED
    BY <1>9, <2>2, <2>3 DEF Pays, PaysAccount, PaysTokens, PaysQuota, PaysPremium
<1>10. ASSUME TokenLimit[plan] > 0, NEW o \in Processes, request'[o].gate = "tokens", request'[o].pc = "allowed"
       PROVE  AddsTokens(request'[o])
  <2>1. request'[o] = IF o = r THEN q ELSE request[o]
    BY PlanCountMoves
  <2>2. QED
    BY <1>5, <1>10, <2>1 DEF Pays, PaysAccount, PaysTokens, PaysQuota, PaysPremium
<1>11. QED
  BY <1>6, <1>7, <1>8, <1>9, <1>10 DEF WithinPlan, AddsTokens, AddsAccount, AddsQuota, AddsPremium,
     procs, acc1, tok1, quo1, prem1

\* A request moves alone, the plan stays.
LEMMA AskMoves ==
  ASSUME H!LimitsAssumption, PlansInv, NEW r \in Processes, NEW q \in PlanRequest,
         request' = [request EXCEPT ![r] = q], UNCHANGED <<gates, plan, moves, hour>>,
         fault' = fault \/ H!Fault,
         \/ planCache' = planCache
         \/ planCache' = {request[r].saw} /\ request[r].pc \notin {"idle", "allowed"},
         used' \in Nat, accounts' \in Nat, quota' \in [tokens : Nat, premium : Nat],
         AskedOK(q), moves = 0 /\ fault' = 0 => Pays(r, q)
  PROVE  PlansInv'
<1>1. H!TypeOK /\ request \in [Processes -> PlanRequest] /\ plan \in H!Plans
      /\ planCache \in {{}} \cup {{p} : p \in H!Plans} /\ fault \in 0 .. MaxFaults /\ MaxFaults \in Nat
  BY PlanTypes DEF PlansInv
<1>2. request' \in [Processes -> PlanRequest]
      /\ \A o \in Processes : request'[o] = IF o = r THEN q ELSE request[o]
  BY <1>1
<1>3. fault' \in 0 .. MaxFaults /\ (fault' = 0 => fault = 0)
  BY <1>1 DEF H!Fault
<1>4. request[r].saw \in H!Plans
  BY <1>1 DEF PlanRequest
<1>5. planCache' \in {{}} \cup {{p} : p \in H!Plans}
  BY <1>1, <1>4
<1>6. H!TypeOK'
  BY <1>1, <1>2, <1>3, <1>5 DEF H!TypeOK, PlanRequest
<1>7. moves = 0 => planCache' \subseteq {plan}
  BY DEF PlansInv, AskedOK
<1>8. \A o \in Processes : AskedOK(request[o])'
  BY <1>2 DEF PlansInv, AskedOK, H!HasFeature
<1>9. moves' = 0 /\ fault' = 0 => WithinPlan'
  BY <1>1, <1>3, PaysKeeps DEF PlansInv
<1>10. QED
  BY <1>6, <1>7, <1>8, <1>9 DEF PlansInv

\* Where a request goes on with nothing else changed.
LEMMA AskFields ==
  ASSUME NEW d \in PlanRequest,
         NEW pc \in {"idle", "fill", "seen", "decide", "count", "premium", "call", "allowed", "refused"}
  PROVE  /\ [d EXCEPT !.pc = pc] \in PlanRequest
         /\ [d EXCEPT !.pc = pc].pc = pc /\ [d EXCEPT !.pc = pc].gate = d.gate
         /\ [d EXCEPT !.pc = pc].feature = d.feature /\ [d EXCEPT !.pc = pc].saw = d.saw
         /\ [d EXCEPT !.pc = pc].read = d.read /\ [d EXCEPT !.pc = pc].limit = d.limit
         /\ [d EXCEPT !.pc = pc].upgrade = d.upgrade
  BY Zenon DEF PlanRequest

LEMMA RefusedFields ==
  ASSUME NEW d \in PlanRequest, NEW upgrade \in SUBSET H!Plans, NEW limit \in Nat
  PROVE  /\ [d EXCEPT !.pc = "refused", !.upgrade = upgrade] \in PlanRequest
         /\ [d EXCEPT !.pc = "refused", !.upgrade = upgrade].pc = "refused"
         /\ [d EXCEPT !.pc = "refused", !.upgrade = upgrade].gate = d.gate
         /\ [d EXCEPT !.pc = "refused", !.upgrade = upgrade].feature = d.feature
         /\ [d EXCEPT !.pc = "refused", !.upgrade = upgrade].saw = d.saw
         /\ [d EXCEPT !.pc = "refused", !.upgrade = upgrade].limit = d.limit
         /\ [d EXCEPT !.pc = "refused", !.upgrade = upgrade].upgrade = upgrade
         /\ [d EXCEPT !.limit = limit] \in PlanRequest
         /\ [d EXCEPT !.limit = limit].limit = limit /\ [d EXCEPT !.limit = limit].gate = d.gate
         /\ [d EXCEPT !.limit = limit].feature = d.feature /\ [d EXCEPT !.limit = limit].saw = d.saw
         /\ [d EXCEPT !.limit = limit].read = d.read /\ [d EXCEPT !.limit = limit].pc = d.pc
         /\ [d EXCEPT !.limit = limit].upgrade = d.upgrade
  BY Zenon DEF PlanRequest

LEMMA IdleRequest ==
  ASSUME H!LimitsAssumption
  PROVE  /\ H!Idle \in PlanRequest /\ H!Idle.pc = "idle" /\ H!Idle.upgrade = {} /\ H!Idle.gate = H!None
         /\ \A o \in Processes : AskedOK(H!Idle)
         /\ ~AddsAccount(H!Idle) /\ ~AddsTokens(H!Idle) /\ ~AddsQuota(H!Idle) /\ ~AddsPremium(H!Idle)
<1>1. 0 \in H!Plans
  BY DEF H!LimitsAssumption, H!Plans
<1>2. QED
  BY <1>1 DEF H!Idle, PlanRequest, AskedOK, AddsAccount, AddsTokens, AddsQuota, AddsPremium, H!None

\* A request that can add no more than before, while what is counted stays, has
\* nothing to pay.
LEMMA PaysNothing ==
  ASSUME H!LimitsAssumption, H!TypeOK, NEW r \in Processes, NEW q, quota' \in [tokens : Nat, premium : Nat]
  PROVE  /\ UNCHANGED accounts /\ (AddsAccount(q) => AddsAccount(request[r])) => PaysAccount(r, q)
         /\ UNCHANGED used /\ (AddsTokens(q) => AddsTokens(request[r]))
              /\ (TokenLimit[plan] > 0 /\ q.gate = "tokens" /\ q.pc = "allowed" => AddsTokens(q))
              => PaysTokens(r, q)
         /\ quota'.tokens = quota.tokens /\ (AddsQuota(q) => AddsQuota(request[r])) => PaysQuota(r, q)
         /\ quota'.premium = quota.premium /\ (AddsPremium(q) => AddsPremium(request[r])) => PaysPremium(r, q)
<1>1. /\ used \in Nat /\ accounts \in Nat /\ quota \in [tokens : Nat, premium : Nat] /\ TokensEach \in Nat
  BY PlanTypes
<1>2. TokensEach * 0 = 0 /\ TokensEach * 1 = TokensEach
  BY <1>1
<1>3. ASSUME UNCHANGED accounts, AddsAccount(q) => AddsAccount(request[r])
      PROVE  PaysAccount(r, q)
  BY <1>1, <1>3 DEF PaysAccount, One
<1>4. ASSUME UNCHANGED used, AddsTokens(q) => AddsTokens(request[r]),
             TokenLimit[plan] > 0 /\ q.gate = "tokens" /\ q.pc = "allowed" => AddsTokens(q)
      PROVE  PaysTokens(r, q)
  BY <1>1, <1>2, <1>4 DEF PaysTokens, One
<1>5. ASSUME quota'.tokens = quota.tokens, AddsQuota(q) => AddsQuota(request[r])
      PROVE  PaysQuota(r, q)
  BY <1>1, <1>2, <1>5 DEF PaysQuota, One
<1>6. ASSUME quota'.premium = quota.premium, AddsPremium(q) => AddsPremium(request[r])
      PROVE  PaysPremium(r, q)
  BY <1>1, <1>6 DEF PaysPremium, One
<1>7. QED
  BY <1>3, <1>4, <1>5, <1>6

\* What a request is told lies above its plan and has what it lacks.
LEMMA ToldPlans ==
  ASSUME H!LimitsAssumption, NEW p \in H!Plans, NEW feature
  PROVE  /\ H!SuggestUpgrade(p, feature) \subseteq H!Plans /\ H!NextPlan(p) \subseteq H!Plans
         /\ \A o \in H!SuggestUpgrade(p, feature) : o > p /\ H!HasFeature(o, feature)
         /\ \A o \in H!NextPlan(p) : o > p
  BY DEF H!LimitsAssumption, H!Plans, H!NextPlan, H!SuggestUpgrade, H!PlanAtLeast

LEMMA GetPlanStep ==
  ASSUME H!LimitsAssumption, PlansInv, NEW r \in Processes, UNCHANGED gates,
         NEW g \in {"feature", "plan", "accounts", "tokens"}, NEW f \in H!Features \cup {H!None},
         H!GetCachedPlan(r, g, f)
  PROVE  PlansInv'
<1>1. /\ H!TypeOK /\ request[r].pc = "idle" /\ H!Idle.saw \in H!Plans
      /\ plan \in H!Plans /\ planCache \in {{}} \cup {{p} : p \in H!Plans}
      /\ UNCHANGED <<plan, planCache, used, quota, accounts, hour, moves>>
      /\ used \in Nat /\ accounts \in Nat /\ quota \in [tokens : Nat, premium : Nat]
  BY IdleRequest, PlanTypes DEF PlanRequest, PlansInv, H!GetCachedPlan
<1>2. PICK d : d = [H!Idle EXCEPT !.gate = g, !.feature = f]
  OBVIOUS
<1>3. /\ d \in PlanRequest /\ d.gate = g /\ d.upgrade = {}
      /\ \E q : /\ H!Set(r, q) /\ (fault' = fault \/ H!Fault)
               /\ \/ q = [d EXCEPT !.pc = "allowed"] /\ H!Fault
                  \/ \E p \in planCache : q = [d EXCEPT !.pc = "seen", !.saw = p]
                  \/ q = [d EXCEPT !.pc = "fill", !.saw = plan]
  BY <1>2, IdleRequest DEF PlanRequest, H!GetCachedPlan
<1>4. PICK q : /\ H!Set(r, q) /\ (fault' = fault \/ H!Fault)
               /\ \/ q = [d EXCEPT !.pc = "allowed"] /\ H!Fault
                  \/ \E p \in planCache : q = [d EXCEPT !.pc = "seen", !.saw = p]
                  \/ q = [d EXCEPT !.pc = "fill", !.saw = plan]
  BY <1>3
<1>5. /\ q \in PlanRequest /\ q.pc \in {"seen", "fill", "allowed"} /\ q.gate = g /\ q.upgrade = {}
      /\ q.pc = "allowed" => H!Fault
      /\ q.pc # "allowed" => q.saw = plan \/ q.saw \in planCache
  <2>1. CASE q = [d EXCEPT !.pc = "allowed"] /\ H!Fault
    BY <1>3, <2>1 DEF PlanRequest
  <2>2. ASSUME NEW p \in planCache, q = [d EXCEPT !.pc = "seen", !.saw = p]
        PROVE  q \in PlanRequest /\ q.pc = "seen" /\ q.gate = g /\ q.saw = p /\ q.upgrade = {}
    <3>1. p \in H!Plans
      BY <1>1
    <3>2. QED
      BY <1>3, <2>2, <3>1, Zenon DEF PlanRequest
  <2>3. CASE q = [d EXCEPT !.pc = "fill", !.saw = plan]
    BY <1>1, <1>3, <2>3 DEF PlanRequest
  <2>4. QED
    BY <1>4, <2>1, <2>2, <2>3
<1>6. AskedOK(q)
  BY <1>5 DEF PlansInv, AskedOK
<1>7. fault' = 0 => q.pc # "allowed"
  <2>1. fault \in Nat
    BY PlanTypes DEF PlansInv
  <2>2. QED
    BY <1>5, <2>1 DEF H!Fault
<1>8. fault' = 0 => Pays(r, q)
  <2>1. fault' = 0 => ~AddsAccount(q) /\ ~AddsTokens(q) /\ ~AddsQuota(q) /\ ~AddsPremium(q) /\ q.pc # "allowed"
    BY <1>5, <1>7 DEF AddsAccount, AddsTokens, AddsQuota, AddsPremium
  <2>2. QED
    BY <1>1, <2>1, PaysNothing DEF Pays
<1>9. request' = [request EXCEPT ![r] = q]
  BY <1>4 DEF H!Set
<1>10. QED
  BY <1>1, <1>4, <1>5, <1>6, <1>8, <1>9, AskMoves

LEMMA SetPlanStep ==
  ASSUME H!LimitsAssumption, PlansInv, NEW r \in Processes, UNCHANGED gates, H!SetCachedPlan(r)
  PROVE  PlansInv'
<1>1. /\ H!TypeOK /\ request[r].pc = "fill" /\ request[r] \in PlanRequest
      /\ UNCHANGED <<plan, used, quota, accounts, hour, moves>>
      /\ used \in Nat /\ accounts \in Nat /\ quota \in [tokens : Nat, premium : Nat]
      /\ request' = [request EXCEPT ![r] = [request[r] EXCEPT !.pc = "seen"]]
      /\ planCache' \in {planCache, {request[r].saw}} /\ (fault' = fault \/ H!Fault)
  BY PlanTypes DEF PlansInv, H!SetCachedPlan, H!Goto, H!Set
<1>2. PICK q \in PlanRequest : /\ q = [request[r] EXCEPT !.pc = "seen"]
                               /\ q.pc = "seen" /\ q.gate = request[r].gate /\ q.saw = request[r].saw
                               /\ q.upgrade = request[r].upgrade
                               /\ request' = [request EXCEPT ![r] = q]
  BY <1>1, AskFields
<1>3. AskedOK(q)
  BY <1>1, <1>2 DEF PlansInv, AskedOK
<1>4. Pays(r, q)
  <2>1. ~AddsAccount(q) /\ ~AddsTokens(q) /\ ~AddsQuota(q) /\ ~AddsPremium(q) /\ q.pc # "allowed"
    BY <1>2 DEF AddsAccount, AddsTokens, AddsQuota, AddsPremium
  <2>2. QED
    BY <1>1, <2>1, PaysNothing DEF Pays
<1>5. QED
  BY <1>1, <1>2, <1>3, <1>4, AskMoves

\* A gate decides: the request goes on to its handler, or is refused.
LEMMA GateDecides ==
  ASSUME H!LimitsAssumption, PlansInv, NEW r \in Processes, UNCHANGED <<gates, fault>>, H!Quiet,
         request[r].pc = "seen", NEW upgrade \in SUBSET H!Plans,
         \/ H!Goto(r, "allowed") /\ request[r].gate \notin {"accounts", "tokens"}
         \/ /\ H!Refuse(r, upgrade) /\ request[r].gate # "tokens"
            /\ request[r].gate = "feature" => ~H!HasFeature(request[r].saw, request[r].feature)
            /\ \A p \in upgrade :
                 p > request[r].saw
                 /\ (request[r].gate = "feature" => H!HasFeature(p, request[r].feature))
  PROVE  PlansInv'
<1>1. /\ H!TypeOK /\ request[r] \in PlanRequest
      /\ UNCHANGED <<plan, planCache, used, quota, accounts, hour, moves>>
      /\ used \in Nat /\ accounts \in Nat /\ quota \in [tokens : Nat, premium : Nat]
  BY PlanTypes DEF PlansInv, H!Quiet
<1>2. CASE H!Goto(r, "allowed") /\ request[r].gate \notin {"accounts", "tokens"}
  <2>1. PICK q \in PlanRequest : /\ q = [request[r] EXCEPT !.pc = "allowed"]
                                 /\ q.pc = "allowed" /\ q.gate = request[r].gate /\ q.saw = request[r].saw
                                 /\ q.upgrade = request[r].upgrade
                                 /\ request' = [request EXCEPT ![r] = q]
    BY <1>1, <1>2, AskFields DEF H!Goto, H!Set
  <2>2. AskedOK(q)
    BY <1>1, <2>1 DEF PlansInv, AskedOK
  <2>3. ~AddsAccount(q) /\ ~AddsTokens(q) /\ ~AddsQuota(q) /\ ~AddsPremium(q) /\ q.gate # "tokens"
    BY <1>2, <2>1 DEF AddsAccount, AddsTokens, AddsQuota, AddsPremium
  <2>4. Pays(r, q)
    BY <1>1, <2>3, PaysNothing DEF Pays
  <2>5. QED
    BY <1>1, <2>1, <2>2, <2>4, AskMoves
<1>3. CASE /\ H!Refuse(r, upgrade) /\ request[r].gate # "tokens"
           /\ request[r].gate = "feature" => ~H!HasFeature(request[r].saw, request[r].feature)
           /\ \A p \in upgrade :
                p > request[r].saw
                /\ (request[r].gate = "feature" => H!HasFeature(p, request[r].feature))
  <2>1. PICK q \in PlanRequest : /\ q = [request[r] EXCEPT !.pc = "refused", !.upgrade = upgrade]
                                 /\ q.pc = "refused" /\ q.gate = request[r].gate /\ q.saw = request[r].saw
                                 /\ q.feature = request[r].feature /\ q.upgrade = upgrade
                                 /\ request' = [request EXCEPT ![r] = q]
    <3>1. PICK q : q = [request[r] EXCEPT !.pc = "refused", !.upgrade = upgrade]
      OBVIOUS
    <3>2. /\ q \in PlanRequest /\ q.pc = "refused" /\ q.gate = request[r].gate
          /\ q.saw = request[r].saw /\ q.feature = request[r].feature /\ q.upgrade = upgrade
      BY <1>1, <3>1, Zenon DEF PlanRequest
    <3>3. request' = [request EXCEPT ![r] = q]
      BY <1>3, <3>1 DEF H!Refuse, H!Set
    <3>4. QED
      BY <3>1, <3>2, <3>3
  <2>2. AskedOK(q)
    BY <1>1, <1>3, <2>1 DEF PlansInv, AskedOK
  <2>3. ~AddsAccount(q) /\ ~AddsTokens(q) /\ ~AddsQuota(q) /\ ~AddsPremium(q) /\ q.gate # "tokens"
    BY <1>3, <2>1 DEF AddsAccount, AddsTokens, AddsQuota, AddsPremium
  <2>4. Pays(r, q)
    BY <1>1, <2>3, PaysNothing DEF Pays
  <2>5. QED
    BY <1>1, <2>1, <2>2, <2>4, AskMoves
<1>4. QED
  BY <1>2, <1>3

LEMMA FeatureStep ==
  ASSUME H!LimitsAssumption, PlansInv, NEW r \in Processes, UNCHANGED gates, H!PlanGate(r)
  PROVE  PlansInv'
<1> DEFINE told == H!SuggestUpgrade(request[r].saw, request[r].feature)
<1>1. request[r] \in PlanRequest
  BY PlanTypes DEF PlansInv
<1>2. request[r].saw \in H!Plans
  BY <1>1 DEF PlanRequest
<1>3. told \in SUBSET H!Plans /\ \A o \in told : o > request[r].saw /\ H!HasFeature(o, request[r].feature)
  BY <1>2, ToldPlans
<1>4. /\ H!Quiet /\ UNCHANGED fault /\ request[r].pc = "seen" /\ request[r].gate = "feature"
      /\ IF H!HasFeature(request[r].saw, request[r].feature) THEN H!Goto(r, "allowed") ELSE H!Refuse(r, told)
  BY DEF H!PlanGate, H!At
<1> HIDE DEF told
<1>5. QED
  BY <1>3, <1>4, GateDecides

LEMMA LevelStep ==
  ASSUME H!LimitsAssumption, PlansInv, NEW r \in Processes, UNCHANGED gates, H!RequirePlan(r)
  PROVE  PlansInv'
<1>1. request[r] \in PlanRequest /\ TopPlan \in Nat
  BY PlanTypes DEF PlansInv
<1>2. request[r].saw \in 0 .. TopPlan /\ {TopPlan} \in SUBSET H!Plans
  BY <1>1 DEF PlanRequest, H!Plans
<1>3. /\ H!Quiet /\ UNCHANGED fault /\ request[r].pc = "seen" /\ request[r].gate = "plan"
      /\ IF H!PlanAtLeast(request[r].saw, TopPlan) THEN H!Goto(r, "allowed") ELSE H!Refuse(r, {TopPlan})
  BY DEF H!RequirePlan, H!At
<1>4. ~H!PlanAtLeast(request[r].saw, TopPlan) => TopPlan > request[r].saw
  BY <1>1, <1>2 DEF H!PlanAtLeast
<1>5. QED
  BY <1>2, <1>3, <1>4, GateDecides

LEMMA AccountsStep ==
  ASSUME H!LimitsAssumption, PlansInv, NEW r \in Processes, UNCHANGED gates, H!RequireAccounts(r)
  PROVE  PlansInv'
<1>1. /\ H!TypeOK /\ request[r] \in PlanRequest /\ H!Quiet /\ moves \in Nat /\ fault \in Nat
      /\ UNCHANGED <<plan, planCache, used, quota, accounts, hour, moves>>
      /\ used \in Nat /\ accounts \in Nat /\ quota \in [tokens : Nat, premium : Nat]
      /\ request[r].pc = "seen" /\ request[r].gate = "accounts" /\ AskedOK(request[r])
  BY PlanTypes DEF PlansInv, H!RequireAccounts, H!Quiet, H!At
<1>2. request[r].saw \in H!Plans
  BY <1>1 DEF PlanRequest
<1>3. CASE UNCHANGED fault /\ H!Refuse(r, H!NextPlan(request[r].saw))
  BY <1>1, <1>2, <1>3, ToldPlans, GateDecides
<1>4. CASE /\ H!Goto(r, "allowed") /\ (fault' = fault \/ H!Fault)
           /\ H!Fault \/ AccountLimit[request[r].saw] = 0 \/ accounts < AccountLimit[request[r].saw]
  <2>1. PICK q \in PlanRequest : /\ q = [request[r] EXCEPT !.pc = "allowed"]
                                 /\ q.pc = "allowed" /\ q.gate = request[r].gate /\ q.saw = request[r].saw
                                 /\ q.upgrade = request[r].upgrade
                                 /\ request' = [request EXCEPT ![r] = q]
    BY <1>1, <1>4, AskFields DEF H!Goto, H!Set
  <2>2. AskedOK(q)
    BY <1>1, <2>1 DEF AskedOK
  <2>3. ~AddsTokens(q) /\ ~AddsQuota(q) /\ ~AddsPremium(q) /\ q.gate # "tokens"
    BY <1>1, <2>1 DEF AddsTokens, AddsQuota, AddsPremium
  <2>4. PaysTokens(r, q) /\ PaysQuota(r, q) /\ PaysPremium(r, q)
    BY <1>1, <2>3, PaysNothing
  <2>5. ASSUME moves = 0, fault' = 0
        PROVE  PaysAccount(r, q)
    BY <1>1, <1>4, <2>5 DEF AskedOK, H!Fault, PaysAccount
  <2>6. QED
    BY <1>1, <1>4, <2>1, <2>2, <2>4, <2>5, AskMoves DEF Pays
<1>5. QED
  BY <1>1, <1>3, <1>4 DEF H!RequireAccounts

LEMMA ReadTokensStep ==
  ASSUME H!LimitsAssumption, PlansInv, NEW r \in Processes, UNCHANGED gates, H!ReadTokens(r)
  PROVE  PlansInv'
<1>1. /\ H!TypeOK /\ request[r] \in PlanRequest /\ H!Quiet /\ moves \in Nat /\ fault \in Nat
      /\ UNCHANGED <<plan, planCache, used, quota, accounts, hour, moves>>
      /\ used \in Nat /\ accounts \in Nat /\ quota \in [tokens : Nat, premium : Nat]
      /\ request[r].pc = "seen" /\ request[r].gate = "tokens" /\ AskedOK(request[r])
      /\ TokensEach \in Nat \ {0} /\ TokenLimit[plan] \in Nat
      /\ \A p \in H!Plans : TokenLimit[p] \in Nat
  BY PlanTypes DEF PlansInv, H!ReadTokens, H!Quiet, H!At
<1>2. request[r].saw \in H!Plans /\ request[r].read \in Nat
  BY <1>1 DEF PlanRequest
<1>3. CASE /\ H!Goto(r, "allowed") /\ (fault' = fault \/ H!Fault)
           /\ H!Fault \/ TokenLimit[request[r].saw] = 0
  <2>1. PICK q \in PlanRequest : /\ q = [request[r] EXCEPT !.pc = "allowed"]
                                 /\ q.pc = "allowed" /\ q.gate = request[r].gate /\ q.saw = request[r].saw
                                 /\ q.upgrade = request[r].upgrade /\ q.read = request[r].read
                                 /\ request' = [request EXCEPT ![r] = q]
    BY <1>1, <1>3, AskFields DEF H!Goto, H!Set
  <2>2. AskedOK(q)
    BY <1>1, <2>1 DEF AskedOK
  <2>3. ASSUME moves = 0, fault' = 0
        PROVE  Pays(r, q)
    <3>1. request[r].saw = plan
      BY <1>1, <2>3 DEF AskedOK
    <3>2. TokenLimit[plan] = 0
      BY <1>1, <1>3, <2>3, <3>1 DEF H!Fault
    <3>3. ~AddsAccount(q) /\ ~AddsTokens(q) /\ ~AddsQuota(q) /\ ~AddsPremium(q)
      BY <1>1, <1>2, <2>1, <3>2 DEF AddsAccount, AddsTokens, AddsQuota, AddsPremium
    <3>4. QED
      BY <1>1, <3>2, <3>3, PaysNothing DEF Pays
  <2>4. QED
    BY <1>1, <1>3, <2>1, <2>2, <2>3, AskMoves
<1>4. CASE /\ UNCHANGED fault /\ TokenLimit[request[r].saw] # 0
           /\ H!Set(r, [request[r] EXCEPT !.pc = "decide", !.read = used])
  <2>1. PICK q \in PlanRequest : /\ q.pc = "decide" /\ q.gate = request[r].gate /\ q.saw = request[r].saw
                                 /\ q.upgrade = request[r].upgrade /\ q.read = used
                                 /\ request' = [request EXCEPT ![r] = q]
    <3>1. PICK q : q = [request[r] EXCEPT !.pc = "decide", !.read = used]
      OBVIOUS
    <3>2. /\ q \in PlanRequest /\ q.pc = "decide" /\ q.gate = request[r].gate /\ q.saw = request[r].saw
          /\ q.upgrade = request[r].upgrade /\ q.read = used
      BY <1>1, <3>1, Zenon DEF PlanRequest
    <3>3. QED
      BY <1>4, <3>1, <3>2 DEF H!Set
  <2>2. AskedOK(q)
    BY <1>1, <1>2, <1>4, <2>1 DEF AskedOK
  <2>3. ~AddsAccount(q) /\ ~AddsQuota(q) /\ ~AddsPremium(q) /\ q.pc # "allowed"
    BY <1>1, <2>1 DEF AddsAccount, AddsQuota, AddsPremium
  <2>4. PaysAccount(r, q) /\ PaysQuota(r, q) /\ PaysPremium(r, q)
    BY <1>1, <2>3, PaysNothing
  <2>5. PaysTokens(r, q)
    <3>1. CASE AddsTokens(q)
      BY <1>1, <2>1, <2>3, <3>1 DEF AddsTokens, PaysTokens
    <3>2. CASE ~AddsTokens(q)
      BY <1>1, <2>3, <3>2, PaysNothing
    <3>3. QED
      BY <3>1, <3>2
  <2>6. QED
    BY <1>1, <1>4, <2>1, <2>2, <2>4, <2>5, AskMoves DEF Pays
<1>5. CASE /\ H!Fault /\ TokenLimit[request[r].saw] # 0
           /\ H!Set(r, [request[r] EXCEPT !.pc = "decide", !.read = 0])
  <2>1. PICK q \in PlanRequest : /\ q.pc = "decide" /\ q.gate = request[r].gate /\ q.saw = request[r].saw
                                 /\ q.upgrade = request[r].upgrade
                                 /\ request' = [request EXCEPT ![r] = q]
    <3>1. PICK q : q = [request[r] EXCEPT !.pc = "decide", !.read = 0]
      OBVIOUS
    <3>2. /\ q \in PlanRequest /\ q.pc = "decide" /\ q.gate = request[r].gate /\ q.saw = request[r].saw
          /\ q.upgrade = request[r].upgrade
      BY <1>1, <3>1 DEF PlanRequest
    <3>3. QED
      BY <1>5, <3>1, <3>2 DEF H!Set
  <2>2. AskedOK(q)
    BY <1>1, <1>2, <1>5, <2>1 DEF AskedOK
  <2>3. fault' # 0
    BY <1>1, <1>5 DEF H!Fault
  <2>4. QED
    BY <1>1, <1>5, <2>1, <2>2, <2>3, AskMoves
<1>6. QED
  BY <1>1, <1>3, <1>4, <1>5 DEF H!ReadTokens

LEMMA RequireTokensStep ==
  ASSUME H!LimitsAssumption, PlansInv, NEW r \in Processes, UNCHANGED gates, H!RequireTokens(r)
  PROVE  PlansInv'
<1>1. /\ H!TypeOK /\ request[r] \in PlanRequest /\ H!Quiet /\ UNCHANGED fault /\ moves \in Nat
      /\ UNCHANGED <<plan, planCache, used, quota, accounts, hour, moves>>
      /\ used \in Nat /\ accounts \in Nat /\ quota \in [tokens : Nat, premium : Nat]
      /\ request[r].pc = "decide" /\ request[r].gate = "tokens" /\ AskedOK(request[r])
      /\ TokensEach \in Nat \ {0} /\ TokenLimit[plan] \in Nat
  BY PlanTypes DEF PlansInv, H!RequireTokens, H!Quiet, H!At
<1>2. request[r].saw \in H!Plans /\ request[r].read \in Nat
  BY <1>1 DEF PlanRequest
<1>3. PICK d : d = [request[r] EXCEPT !.limit = TokenLimit[plan]]
  OBVIOUS
<1>4. /\ d \in PlanRequest /\ d.limit = TokenLimit[plan] /\ d.gate = "tokens" /\ d.pc = "decide"
      /\ d.saw = request[r].saw /\ d.read = request[r].read /\ d.upgrade = request[r].upgrade
  BY <1>1, <1>3, Zenon DEF PlanRequest
<1>5. \/ H!Set(r, [d EXCEPT !.pc = "refused", !.upgrade = H!NextPlan(d.saw)])
      \/ H!Set(r, [d EXCEPT !.pc = "allowed"]) /\ d.read + TokensEach <= TokenLimit[plan]
  BY <1>1, <1>2, <1>3, <1>4 DEF H!CheckDailyTokenLimit, H!RequireTokens
<1>6. CASE H!Set(r, [d EXCEPT !.pc = "refused", !.upgrade = H!NextPlan(d.saw)])
  <2>1. H!NextPlan(d.saw) \in SUBSET H!Plans /\ \A o \in H!NextPlan(d.saw) : o > d.saw
    BY <1>2, <1>4, ToldPlans
  <2>2. PICK q \in PlanRequest : /\ q = [d EXCEPT !.pc = "refused", !.upgrade = H!NextPlan(d.saw)]
                                 /\ q.pc = "refused" /\ q.gate = "tokens" /\ q.saw = d.saw
                                 /\ q.limit = TokenLimit[plan] /\ q.upgrade = H!NextPlan(d.saw)
                                 /\ request' = [request EXCEPT ![r] = q]
    BY <1>4, <1>6, <2>1, RefusedFields DEF H!Set
  <2>3. AskedOK(q)
    BY <1>1, <1>4, <2>1, <2>2 DEF AskedOK
  <2>4. ~AddsAccount(q) /\ ~AddsTokens(q) /\ ~AddsQuota(q) /\ ~AddsPremium(q) /\ q.pc # "allowed"
    BY <2>2 DEF AddsAccount, AddsTokens, AddsQuota, AddsPremium
  <2>5. Pays(r, q)
    BY <1>1, <2>4, PaysNothing DEF Pays
  <2>6. QED
    BY <1>1, <2>2, <2>3, <2>5, AskMoves
<1>7. CASE H!Set(r, [d EXCEPT !.pc = "allowed"]) /\ d.read + TokensEach <= TokenLimit[plan]
  <2>1. PICK q \in PlanRequest : /\ q = [d EXCEPT !.pc = "allowed"]
                                 /\ q.pc = "allowed" /\ q.gate = "tokens" /\ q.saw = d.saw
                                 /\ q.read = d.read /\ q.upgrade = d.upgrade
                                 /\ request' = [request EXCEPT ![r] = q]
    <3>1. PICK q : q = [d EXCEPT !.pc = "allowed"]
      OBVIOUS
    <3>2. /\ q \in PlanRequest /\ q.pc = "allowed" /\ q.gate = "tokens" /\ q.saw = d.saw
          /\ q.read = d.read /\ q.upgrade = d.upgrade
      BY <1>4, <3>1, Zenon DEF PlanRequest
    <3>3. request' = [request EXCEPT ![r] = q]
      BY <1>7, <3>1 DEF H!Set
    <3>4. QED
      BY <3>1, <3>2, <3>3
  <2>2. AskedOK(q)
    BY <1>1, <1>4, <2>1 DEF AskedOK
  <2>3. ~AddsAccount(q) /\ AddsTokens(q) /\ AddsTokens(request[r]) /\ ~AddsQuota(q) /\ ~AddsPremium(q)
    BY <1>1, <1>4, <1>7, <2>1 DEF AddsAccount, AddsTokens, AddsQuota, AddsPremium
  <2>4. Pays(r, q)
    BY <1>1, <2>3, PaysNothing DEF Pays
  <2>5. QED
    BY <1>1, <2>1, <2>2, <2>4, AskMoves
<1>8. QED
  BY <1>5, <1>6, <1>7

\* The handler behind the gate, or the end of the request.
LEMMA EndsIdle ==
  ASSUME H!LimitsAssumption, PlansInv, NEW r \in Processes,
         H!Set(r, H!Idle), UNCHANGED <<gates, plan, planCache, hour, moves>>,
         fault' = fault \/ H!Fault, used' \in Nat, accounts' \in Nat,
         quota' \in [tokens : Nat, premium : Nat],
         moves = 0 /\ fault' = 0 => Pays(r, H!Idle)
  PROVE  PlansInv'
  BY IdleRequest, AskMoves DEF H!Set

LEMMA IdlePays ==
  ASSUME H!LimitsAssumption, H!TypeOK, NEW r \in Processes, quota' \in [tokens : Nat, premium : Nat]
  PROVE  /\ UNCHANGED accounts => PaysAccount(r, H!Idle)
         /\ UNCHANGED used => PaysTokens(r, H!Idle)
         /\ quota' = quota => PaysQuota(r, H!Idle) /\ PaysPremium(r, H!Idle)
  BY IdleRequest, PaysNothing

LEMMA AddAccountStep ==
  ASSUME H!LimitsAssumption, PlansInv, NEW r \in Processes, UNCHANGED gates, H!AddAccount(r)
  PROVE  PlansInv'
<1>1. /\ H!TypeOK /\ request[r] \in PlanRequest /\ accounts' = accounts + 1 /\ H!Set(r, H!Idle)
      /\ UNCHANGED <<plan, planCache, used, quota, hour, moves, fault>>
      /\ used \in Nat /\ accounts \in Nat /\ quota \in [tokens : Nat, premium : Nat]
      /\ request[r].pc = "allowed" /\ request[r].gate = "accounts"
  BY PlanTypes DEF PlansInv, H!AddAccount, H!At
<1>2. AddsAccount(request[r]) /\ ~AddsAccount(H!Idle)
  BY <1>1, IdleRequest DEF AddsAccount
<1>3. PaysAccount(r, H!Idle)
  BY <1>1, <1>2 DEF PaysAccount, One
<1>4. PaysTokens(r, H!Idle) /\ PaysQuota(r, H!Idle) /\ PaysPremium(r, H!Idle)
  BY <1>1, IdlePays
<1>5. QED
  BY <1>1, <1>3, <1>4, EndsIdle DEF Pays

LEMMA IncrementUsageStep ==
  ASSUME H!LimitsAssumption, PlansInv, NEW r \in Processes, UNCHANGED gates, H!IncrementUsage(r)
  PROVE  PlansInv'
<1>1. /\ H!TypeOK /\ request[r] \in PlanRequest /\ H!Set(r, H!Idle)
      /\ UNCHANGED <<plan, planCache, accounts, quota, hour, moves>>
      /\ used \in Nat /\ accounts \in Nat /\ quota \in [tokens : Nat, premium : Nat]
      /\ request[r].pc = "allowed" /\ request[r].gate = "tokens"
      /\ TokensEach \in Nat \ {0} /\ fault \in Nat
      /\ (used' = used + TokensEach /\ UNCHANGED fault) \/ (H!Fault /\ UNCHANGED used)
  BY PlanTypes DEF PlansInv, H!IncrementUsage, H!At
<1>2. used' \in Nat /\ (fault' = fault \/ H!Fault) /\ (fault' = 0 => used' = used + TokensEach /\ fault = 0)
  BY <1>1 DEF H!Fault
<1>3. PaysAccount(r, H!Idle) /\ PaysQuota(r, H!Idle) /\ PaysPremium(r, H!Idle)
  BY <1>1, IdlePays
<1>4. ASSUME moves = 0, fault' = 0
      PROVE  PaysTokens(r, H!Idle)
  <2>1. TokenLimit[plan] > 0 => AddsTokens(request[r])
    BY <1>1, <1>2, <1>4 DEF PlansInv, WithinPlan
  <2>2. ~AddsTokens(H!Idle) /\ H!Idle.pc # "allowed"
    BY IdleRequest
  <2>3. TokensEach * 0 = 0 /\ TokensEach * 1 = TokensEach
    BY <1>1
  <2>4. QED
    BY <1>1, <1>2, <1>4, <2>1, <2>2, <2>3 DEF PaysTokens, One
<1>5. QED
  BY <1>1, <1>2, <1>3, <1>4, EndsIdle DEF Pays

LEMMA DoneStep ==
  ASSUME H!LimitsAssumption, PlansInv, NEW r \in Processes, UNCHANGED gates, H!Done(r)
  PROVE  PlansInv'
  BY PlanTypes, IdlePays, EndsIdle DEF PlansInv, H!Done, H!Quiet, Pays

LEMMA CheckQuotaStep ==
  ASSUME H!LimitsAssumption, PlansInv, NEW r \in Processes, UNCHANGED gates, H!CheckQuota(r)
  PROVE  PlansInv'
<1>1. /\ H!TypeOK /\ plan \in H!Plans /\ moves \in Nat /\ fault \in Nat
      /\ UNCHANGED <<plan, planCache, used, quota, accounts, hour, moves>>
      /\ used \in Nat /\ accounts \in Nat /\ quota \in [tokens : Nat, premium : Nat]
      /\ quota.tokens \in Nat
      /\ TokenLimit[plan] \in Nat /\ request[r].pc = "idle"
  BY PlanTypes DEF PlansInv, H!CheckQuota, H!Quiet
<1>2. PICK d : d = [H!Idle EXCEPT !.gate = "quota", !.saw = plan, !.read = quota.tokens]
  OBVIOUS
<1>3. d \in PlanRequest /\ d.gate = "quota" /\ d.saw = plan /\ d.upgrade = {}
  BY <1>1, <1>2, IdleRequest DEF PlanRequest
<1>4. PICK pc \in {"allowed", "refused", "count"} :
        /\ H!Set(r, [d EXCEPT !.pc = pc]) /\ (fault' = fault \/ H!Fault)
        /\ pc = "count" => TokenLimit[plan] = 0 \/ quota.tokens < TokenLimit[plan]
  <2>1. PICK pc \in {"allowed", "refused", "count"} :
          /\ pc = IF plan = TopPlan /\ TokenLimit[plan] = 0 THEN "allowed"
                  ELSE IF TokenLimit[plan] > 0 /\ quota.tokens >= TokenLimit[plan]
                  THEN "refused" ELSE "count"
          /\ pc = "count" => TokenLimit[plan] = 0 \/ quota.tokens < TokenLimit[plan]
    BY <1>1
  <2>2. \/ UNCHANGED fault /\ H!Set(r, [d EXCEPT !.pc = pc])
        \/ H!Fault /\ H!Set(r, [d EXCEPT !.pc = "allowed"])
    BY <1>2, <2>1 DEF H!CheckQuota
  <2>3. CASE UNCHANGED fault /\ H!Set(r, [d EXCEPT !.pc = pc])
    BY <2>1, <2>3
  <2>4. CASE H!Fault /\ H!Set(r, [d EXCEPT !.pc = "allowed"])
    BY <2>4
  <2>5. QED
    BY <2>2, <2>3, <2>4
<1>5. PICK q : q = [d EXCEPT !.pc = pc]
  OBVIOUS
<1>6. q \in PlanRequest /\ q.pc = pc /\ q.gate = "quota" /\ q.saw = plan /\ q.upgrade = {}
      /\ request' = [request EXCEPT ![r] = q]
  BY <1>3, <1>4, <1>5 DEF PlanRequest, H!Set
<1>7. AskedOK(q)
  BY <1>4, <1>6 DEF AskedOK
<1>8. ~AddsAccount(q) /\ ~AddsTokens(q) /\ ~AddsPremium(q) /\ q.gate # "tokens"
  BY <1>4, <1>6 DEF AddsAccount, AddsTokens, AddsPremium
<1>9. PaysAccount(r, q) /\ PaysTokens(r, q) /\ PaysPremium(r, q)
  BY <1>1, <1>8, PaysNothing
<1>10. PaysQuota(r, q)
  <2>1. CASE pc = "count"
    BY <1>1, <1>4, <2>1 DEF PaysQuota
  <2>2. CASE pc # "count"
    <3>1. ~AddsQuota(q)
      BY <1>4, <1>6, <2>2 DEF AddsQuota
    <3>2. QED
      BY <1>1, <3>1, PaysNothing
  <2>3. QED
    BY <2>1, <2>2
<1>11. QED
  BY <1>1, <1>4, <1>6, <1>7, <1>9, <1>10, AskMoves DEF Pays

LEMMA QuotaStep ==
  ASSUME H!LimitsAssumption, PlansInv, NEW r \in Processes, UNCHANGED gates,
         \/ \E premium \in BOOLEAN : H!Increment(r, premium)
         \/ H!CheckPremium(r) \/ H!IncrementPremium(r)
  PROVE  PlansInv'
<1>1. /\ H!TypeOK /\ request[r] \in PlanRequest /\ moves \in Nat /\ fault \in Nat
      /\ UNCHANGED <<plan, planCache, used, accounts, hour, moves>>
      /\ used \in Nat /\ accounts \in Nat /\ quota \in [tokens : Nat, premium : Nat]
      /\ quota.tokens \in Nat /\ quota.premium \in Nat
      /\ PremiumLimit[plan] \in Nat /\ TokensEach \in Nat
      /\ request[r].gate = "quota" /\ request[r].pc \in {"count", "premium", "call"} /\ AskedOK(request[r])
  BY PlanTypes DEF PlansInv, H!Increment, H!CheckPremium, H!IncrementPremium, H!Quiet, H!At
<1>2. PICK pc \in {"premium", "allowed", "refused", "call"} : H!Goto(r, pc)
  BY DEF H!Increment, H!CheckPremium, H!IncrementPremium
<1>3. PICK q \in PlanRequest : /\ q = [request[r] EXCEPT !.pc = pc]
                               /\ q.pc = pc /\ q.gate = "quota" /\ q.saw = request[r].saw
                               /\ q.upgrade = request[r].upgrade
                               /\ request' = [request EXCEPT ![r] = q]
  <2>1. PICK q : q = [request[r] EXCEPT !.pc = pc]
    OBVIOUS
  <2>2. /\ q \in PlanRequest /\ q.pc = pc /\ q.gate = request[r].gate /\ q.saw = request[r].saw
        /\ q.upgrade = request[r].upgrade
    BY <1>1, <1>2, <2>1, Zenon DEF PlanRequest
  <2>3. request' = [request EXCEPT ![r] = q]
    BY <1>2, <2>1 DEF H!Goto, H!Set
  <2>4. QED
    BY <1>1, <2>1, <2>2, <2>3
<1>4. AskedOK(q)
  BY <1>1, <1>2, <1>3 DEF AskedOK
<1>5. ~AddsAccount(q) /\ ~AddsTokens(q) /\ ~AddsQuota(q) /\ q.gate # "tokens"
  BY <1>2, <1>3 DEF AddsAccount, AddsTokens, AddsQuota
<1>6. CASE \E premium \in BOOLEAN : H!Increment(r, premium)
  <2>1. /\ request[r].pc = "count" /\ pc # "call"
        /\ \/ quota' = [quota EXCEPT !.tokens = @ + TokensEach] /\ UNCHANGED fault
           \/ H!Fault /\ UNCHANGED quota
    <3>1. PICK premium \in BOOLEAN : H!Increment(r, premium)
      BY <1>6
    <3>2. request[r].pc = "count" /\ H!Goto(r, IF premium THEN "premium" ELSE "allowed")
      BY <3>1 DEF H!Increment, H!At
    <3>3. request'[r].pc # "call"
      BY <1>1, <3>2, PlanTypes DEF H!Goto, H!Set, PlanRequest
    <3>4. request'[r] = q
      BY <1>1, <1>3, PlanTypes
    <3>5. QED
      BY <1>3, <3>1, <3>2, <3>3, <3>4 DEF H!Increment
  <2>2. quota' \in [tokens : Nat, premium : Nat] /\ quota'.premium = quota.premium
        /\ (quota'.tokens = quota.tokens + TokensEach \/ (H!Fault /\ quota'.tokens = quota.tokens))
    BY <1>1, <2>1
  <2>3. ~AddsPremium(q) /\ AddsQuota(request[r]) /\ ~AddsQuota(q)
    BY <1>1, <1>3, <1>5, <2>1 DEF AddsPremium, AddsQuota
  <2>4. PaysAccount(r, q) /\ PaysTokens(r, q) /\ PaysPremium(r, q)
    BY <1>1, <1>5, <2>2, <2>3, PaysNothing
  <2>5. PaysQuota(r, q)
    BY <1>1, <2>2, <2>3 DEF PaysQuota, One
  <2>6. QED
    BY <1>1, <1>3, <1>4, <2>1, <2>2, <2>4, <2>5, AskMoves DEF Pays
<1>7. CASE H!CheckPremium(r)
  <2>1. /\ UNCHANGED <<quota, fault>> /\ request[r].pc = "premium"
        /\ H!Goto(r, IF PremiumLimit[request[r].saw] > 0 /\ quota.premium >= PremiumLimit[request[r].saw]
                     THEN "refused" ELSE "call")
    BY <1>7 DEF H!CheckPremium, H!Quiet, H!At
  <2>2. q.pc = IF PremiumLimit[request[r].saw] > 0 /\ quota.premium >= PremiumLimit[request[r].saw]
               THEN "refused" ELSE "call"
    BY <1>1, <1>3, <2>1, PlanTypes DEF H!Goto, H!Set, PlanRequest
  <2>3. PaysAccount(r, q) /\ PaysTokens(r, q) /\ PaysQuota(r, q)
    BY <1>1, <1>5, <2>1, PaysNothing
  <2>4. ASSUME moves = 0
        PROVE  PaysPremium(r, q)
    <3>1. request[r].saw = plan
      BY <1>1, <2>4 DEF AskedOK
    <3>2. CASE q.pc = "call"
      BY <1>1, <2>1, <2>2, <3>1, <3>2 DEF PaysPremium
    <3>3. CASE q.pc # "call"
      BY <1>1, <2>1, <3>3, PaysNothing DEF AddsPremium
    <3>4. QED
      BY <3>2, <3>3
  <2>5. QED
    BY <1>1, <1>3, <1>4, <2>1, <2>3, <2>4, AskMoves DEF Pays
<1>8. CASE H!IncrementPremium(r)
  <2>1. /\ request[r].pc = "call" /\ H!Goto(r, "allowed")
        /\ \/ quota' = [quota EXCEPT !.premium = @ + 1] /\ UNCHANGED fault
           \/ H!Fault /\ UNCHANGED quota
    BY <1>8 DEF H!IncrementPremium, H!At
  <2>2. quota' \in [tokens : Nat, premium : Nat] /\ quota'.tokens = quota.tokens
        /\ (quota'.premium = quota.premium + 1 \/ (H!Fault /\ quota'.premium = quota.premium))
    BY <1>1, <2>1
  <2>3. q.pc = "allowed"
    BY <1>1, <1>3, <2>1, PlanTypes DEF H!Goto, H!Set, PlanRequest
  <2>4. ~AddsPremium(q) /\ AddsPremium(request[r])
    BY <1>1, <2>1, <2>3 DEF AddsPremium
  <2>5. PaysAccount(r, q) /\ PaysTokens(r, q) /\ PaysQuota(r, q)
    BY <1>1, <1>5, <2>2, PaysNothing
  <2>6. PaysPremium(r, q)
    BY <1>1, <2>2, <2>4 DEF PaysPremium, One
  <2>7. QED
    BY <1>1, <1>3, <1>4, <2>1, <2>2, <2>5, <2>6, AskMoves DEF Pays
<1>9. QED
  BY <1>6, <1>7, <1>8

\* The counts of a day begin again.
LEMMA PlanDayStep ==
  ASSUME H!LimitsAssumption, PlansInv, UNCHANGED gates, H!NextDay
  PROVE  PlansInv'
<1>1. /\ H!TypeOK /\ used \in Nat /\ quota \in [tokens : Nat, premium : Nat] /\ TokensEach \in Nat
      /\ used' = 0 /\ quota' = [quota EXCEPT !.tokens = 0] /\ hour' = hour + 1 /\ hour < LimitDays
      /\ UNCHANGED <<gates, plan, planCache, accounts, request, moves, fault>>
  BY PlanTypes DEF PlansInv, H!NextDay
<1>2. quota' \in [tokens : Nat, premium : Nat] /\ quota'.tokens = 0 /\ quota'.premium = quota.premium
  BY <1>1
<1>3. H!TypeOK'
  BY <1>1, <1>2 DEF H!TypeOK, H!LimitsAssumption
<1>4. \A r \in Processes : AskedOK(request[r])'
  BY <1>1 DEF PlansInv, AskedOK, H!HasFeature
<1>5. WithinPlan => WithinPlan'
  <2>1. PICK tok \in Nat, quo \in Nat :
          /\ tok = Cardinality({o \in Processes : AddsTokens(request[o])})
          /\ quo = Cardinality({o \in Processes : AddsQuota(request[o])})
    <3>1. /\ Cardinality({o \in Processes : AddsTokens(request[o])}) \in Nat
          /\ Cardinality({o \in Processes : AddsQuota(request[o])}) \in Nat
      BY PlanFew
    <3>2. QED
      BY <3>1
  <2>2. PICK procs \in Nat : procs = Cardinality(Processes)
    BY PlanFew
  <2>3. /\ TokensEach * tok \in Nat /\ TokensEach * quo \in Nat /\ TokensEach * procs \in Nat
        /\ TokensEach * (procs - 1) \in Int /\ TokenLimit[plan] \in Nat
    BY <1>1, PlanTypes
  <2>4. ASSUME used + TokensEach * tok <= TokenLimit[plan] + TokensEach * (procs - 1)
        PROVE  used' + TokensEach * tok <= TokenLimit[plan] + TokensEach * (procs - 1)
    BY <1>1, <2>3, <2>4
  <2>5. ASSUME quota.tokens + TokensEach * quo < TokenLimit[plan] + TokensEach * procs
        PROVE  quota'.tokens + TokensEach * quo < TokenLimit[plan] + TokensEach * procs
    BY <1>1, <1>2, <2>3, <2>5
  <2>6. QED
    BY <1>1, <1>2, <2>1, <2>2, <2>4, <2>5 DEF WithinPlan, AddsTokens, AddsAccount, AddsQuota, AddsPremium
<1>6. QED
  BY <1>1, <1>3, <1>4, <1>5 DEF PlansInv

LEMMA PlanChangeStep ==
  ASSUME H!LimitsAssumption, PlansInv, UNCHANGED gates,
         H!InvalidatePlanCache \/ \E p \in H!Plans : H!UpdatePlan(p)
  PROVE  PlansInv'
<1>1. H!TypeOK /\ moves \in Nat /\ MaxChanges \in Nat
  BY PlanTypes DEF PlansInv, H!LimitsAssumption
<1>2. CASE H!InvalidatePlanCache
  <2>1. planCache' = {} /\ UNCHANGED <<gates, plan, used, quota, accounts, request, hour, moves, fault>>
    BY <1>2 DEF H!InvalidatePlanCache
  <2>2. H!TypeOK'
    BY <1>1, <2>1 DEF H!TypeOK
  <2>3. \A r \in Processes : AskedOK(request[r])'
    BY <2>1 DEF PlansInv, AskedOK, H!HasFeature
  <2>4. WithinPlan => WithinPlan'
    BY <2>1 DEF WithinPlan, AddsTokens, AddsAccount, AddsQuota, AddsPremium
  <2>5. QED
    BY <2>1, <2>2, <2>3, <2>4 DEF PlansInv
<1>3. ASSUME NEW p \in H!Plans, H!UpdatePlan(p)
      PROVE  PlansInv'
  BY <1>1, <1>3 DEF H!UpdatePlan, H!TypeOK, PlansInv, AskedOK, H!HasFeature
<1>4. QED
  BY <1>2, <1>3

LEMMA PlansNext ==
  ASSUME H!LimitsAssumption, PlansInv, H!Next
  PROVE  PlansInv'
<1>1. UNCHANGED gates
  BY DEF H!Next
<1>2. CASE H!InvalidatePlanCache \/ H!NextDay \/ \E p \in H!Plans : H!UpdatePlan(p)
  BY <1>1, <1>2, PlanDayStep, PlanChangeStep
<1>3. ASSUME NEW r \in Processes,
             \/ \E g \in gates \cap {"plan", "accounts", "tokens"} : H!GetCachedPlan(r, g, H!None)
             \/ "feature" \in gates /\ \E f \in H!Features : H!GetCachedPlan(r, "feature", f)
      PROVE  PlansInv'
  BY <1>1, <1>3, GetPlanStep
<1>4. ASSUME NEW r \in Processes,
             H!SetCachedPlan(r) \/ H!PlanGate(r) \/ H!RequireFeature(r) \/ H!RequirePlan(r)
               \/ H!RequireAccounts(r) \/ H!ReadTokens(r) \/ H!RequireTokens(r)
      PROVE  PlansInv'
  BY <1>1, <1>4, SetPlanStep, FeatureStep, LevelStep, AccountsStep, ReadTokensStep, RequireTokensStep
     DEF H!RequireFeature
<1>5. ASSUME NEW r \in Processes, H!AddAccount(r) \/ H!IncrementUsage(r) \/ H!Done(r) \/ H!CheckQuota(r)
      PROVE  PlansInv'
  BY <1>1, <1>5, AddAccountStep, IncrementUsageStep, DoneStep, CheckQuotaStep
<1>6. ASSUME NEW r \in Processes,
             \/ H!CheckPremium(r) \/ H!IncrementPremium(r)
             \/ \E premium \in BOOLEAN : H!Increment(r, premium)
      PROVE  PlansInv'
  BY <1>1, <1>6, QuotaStep
<1>7. QED
  BY <1>2, <1>3, <1>4, <1>5, <1>6 DEF H!Next

LEMMA PlansInit ==
  ASSUME H!LimitsAssumption, H!Init
  PROVE  PlansInv
<1>1. /\ gates \in GateSets /\ plan \in H!Plans /\ planCache = {} /\ used = 0
      /\ quota = [tokens |-> 0, premium |-> 0] /\ accounts = 0 /\ request = [r \in Processes |-> H!Idle]
      /\ hour = 0 /\ moves = 0 /\ fault = 0
  BY DEF H!Init
<1>2. /\ {TopPlan, MaxUse, LimitDays, MaxChanges, MaxFaults} \subseteq Nat /\ TokensEach \in Nat \ {0}
      /\ {AccountLimit, TokenLimit, PremiumLimit} \subseteq [H!Plans -> Nat] /\ Processes # {}
  BY DEF H!LimitsAssumption
<1>3. H!TypeOK
  BY <1>1, <1>2, IdleRequest DEF H!TypeOK, PlanRequest
<1>4. \A r \in Processes : request[r] = H!Idle
  BY <1>1
<1>5. \A r \in Processes : AskedOK(request[r])
  BY <1>4, IdleRequest
<1>6. WithinPlan
  <2>1. /\ {r \in Processes : AddsAccount(request[r])} = {} /\ {r \in Processes : AddsTokens(request[r])} = {}
        /\ {r \in Processes : AddsQuota(request[r])} = {} /\ {r \in Processes : AddsPremium(request[r])} = {}
    BY <1>4, IdleRequest
  <2>2. Cardinality({}) = 0
    BY FS_EmptySet
  <2>3. PICK procs \in Nat : procs = Cardinality(Processes) /\ procs > 0
    <3>1. IsFiniteSet(Processes)
      BY Zenon DEF H!LimitsAssumption, H!IsFiniteSet, IsFiniteSet
    <3>2. Cardinality(Processes) \in Nat /\ Cardinality(Processes) # 0
      BY <1>2, <3>1, FS_EmptySet, FS_CardinalityType
    <3>3. QED
      BY <3>2
  <2>4. TokensEach * 0 = 0 /\ TokensEach * procs >= TokensEach * (procs - 1) /\ TokensEach * (procs - 1) \in Nat
        /\ TokensEach * procs \in Nat /\ TokenLimit[plan] \in Nat /\ AccountLimit[plan] \in Nat
        /\ PremiumLimit[plan] \in Nat
    BY <1>1, <1>2, <2>3
  <2>5. \A r \in Processes : request[r].pc # "allowed"
    BY <1>4, IdleRequest
  <2>6. /\ AccountLimit[plan] > 0 => 0 + 0 < AccountLimit[plan] + procs
        /\ TokenLimit[plan] > 0 => 0 + 0 <= TokenLimit[plan] + TokensEach * (procs - 1)
        /\ TokenLimit[plan] > 0 => 0 + 0 < TokenLimit[plan] + TokensEach * procs
        /\ PremiumLimit[plan] > 0 => 0 + 0 < PremiumLimit[plan] + procs
    BY <2>3, <2>4
  <2>7. used = 0 /\ quota.tokens = 0 /\ quota.premium = 0 /\ accounts = 0
    BY <1>1
  <2>8. QED
    BY <2>1, <2>2, <2>3, <2>4, <2>5, <2>6, <2>7, Zenon DEF WithinPlan
<1>7. QED
  BY <1>1, <1>3, <1>5, <1>6 DEF PlansInv

LEMMA PlansInvHolds ==
  ASSUME H!LimitsAssumption, PlansInv
  PROVE  H!PlanLimitsHold
<1>1. H!TypeOK
  BY DEF PlansInv
<1>2. H!Others = Cardinality(Processes) - 1 /\ H!Cardinality(Processes) = Cardinality(Processes)
  BY Zenon DEF H!Others, H!Cardinality, Cardinality
<1>3. H!OverByRace
  <2>1. SUFFICES ASSUME moves = 0, fault = 0
                 PROVE  /\ AccountLimit[plan] > 0 => accounts <= AccountLimit[plan] + H!Others
                        /\ TokenLimit[plan] > 0 =>
                             /\ H!GetUsage.tokens <= H!GetUsage.limit + H!Others * TokensEach
                             /\ quota.tokens < TokenLimit[plan] + H!Cardinality(Processes) * TokensEach
                        /\ PremiumLimit[plan] > 0 => quota.premium <= PremiumLimit[plan] + H!Others
    BY DEF H!OverByRace
  <2>2. WithinPlan /\ planCache \subseteq {plan}
    BY <2>1 DEF PlansInv
  <2>3. H!GetUsage.tokens = used /\ H!GetUsage.limit = TokenLimit[plan]
    BY <2>2 DEF H!GetUsage
  <2>4. PICK acc \in Nat, tok \in Nat, quo \in Nat, prem \in Nat, procs \in Nat :
          /\ acc = Cardinality({o \in Processes : AddsAccount(request[o])})
          /\ tok = Cardinality({o \in Processes : AddsTokens(request[o])})
          /\ quo = Cardinality({o \in Processes : AddsQuota(request[o])})
          /\ prem = Cardinality({o \in Processes : AddsPremium(request[o])})
          /\ procs = Cardinality(Processes)
    <3>1. /\ Cardinality({o \in Processes : AddsAccount(request[o])}) \in Nat
          /\ Cardinality({o \in Processes : AddsTokens(request[o])}) \in Nat
          /\ Cardinality({o \in Processes : AddsQuota(request[o])}) \in Nat
          /\ Cardinality({o \in Processes : AddsPremium(request[o])}) \in Nat
          /\ Cardinality(Processes) \in Nat
      BY PlanFew
    <3>2. QED
      BY <3>1, Zenon
  <2>5. /\ (AccountLimit[plan] > 0 => accounts + acc < AccountLimit[plan] + procs)
        /\ (TokenLimit[plan] > 0 =>
              /\ used + TokensEach * tok <= TokenLimit[plan] + TokensEach * (procs - 1)
              /\ quota.tokens + TokensEach * quo < TokenLimit[plan] + TokensEach * procs)
        /\ (PremiumLimit[plan] > 0 => quota.premium + prem < PremiumLimit[plan] + procs)
    BY <2>2, <2>4 DEF WithinPlan
  <2>6. /\ used \in Nat /\ accounts \in Nat /\ quota.tokens \in Nat /\ quota.premium \in Nat
        /\ AccountLimit[plan] \in Nat /\ TokenLimit[plan] \in Nat /\ PremiumLimit[plan] \in Nat
        /\ TokensEach \in Nat
    BY <1>1, PlanTypes
  <2>7. /\ TokensEach * tok \in Nat /\ TokensEach * quo \in Nat
        /\ TokensEach * (procs - 1) = (procs - 1) * TokensEach /\ TokensEach * procs = procs * TokensEach
        /\ (procs - 1) * TokensEach \in Int /\ procs * TokensEach \in Nat
    BY <2>4, <2>6
  <2>8. AccountLimit[plan] > 0 => accounts <= AccountLimit[plan] + (procs - 1)
    BY <2>4, <2>5, <2>6
  <2>9. PremiumLimit[plan] > 0 => quota.premium <= PremiumLimit[plan] + (procs - 1)
    BY <2>4, <2>5, <2>6
  <2>10. TokenLimit[plan] > 0 => /\ used <= TokenLimit[plan] + (procs - 1) * TokensEach
                                 /\ quota.tokens < TokenLimit[plan] + procs * TokensEach
    BY <2>5, <2>6, <2>7
  <2>11. QED
    BY <1>2, <2>3, <2>4, <2>8, <2>9, <2>10
<1>4. H!RefusedForCause
  BY DEF PlansInv, AskedOK, H!RefusedForCause
<1>5. QED
  BY <1>1, <1>3, <1>4 DEF H!PlanLimitsHold
-------------------------------------------------------------------------------
(* Signing in.                                                              *)

Tracked == [pc : {"idle", "oldest", "delete", "insert"}, session : SignIns \cup {U!None},
            oldest : SignIns \cup {U!None}]
SignOut == [pc : {"idle", "sign_out", "done", "failed"}, of : SUBSET SignIns, keep : SUBSET SignIns]

\* The calls under way, and whether one of them is about to make room.
UnderWay(track) == {t \in Processes : track[t].pc # "idle"}
MakesRoom(d, list) == d.pc = "oldest" \/ (d.pc = "delete" /\ d.oldest \in U!Range(list))
Room(track, list) == \E t \in Processes : MakesRoom(track[t], list)

TrackOK(d) ==
  /\ d.pc # "idle" => d.session \in SignIns
  /\ d.pc = "delete" => d.oldest \in SignIns

\* Each call under way may still add a row, but one that makes room first; all
\* but one of them began while another was under way.
RowsLimited ==
  /\ Len(signedIn) + Cardinality(UnderWay(tracker))
       <= SessionLimit + raced + fault + One(Room(tracker, signedIn))
  /\ Cardinality(UnderWay(tracker)) <= raced + 1

\* The logins that may still fail.
Trying(logins) == {l \in Processes : logins[l] \in {"checked", "wrong"}}
\* While the lock holds only those that had looked before may fail.
FailuresLimited ==
  failed + (IF U!Locked THEN Cardinality(Trying(login)) ELSE 0)
    <= FailedLimit - 1 + Cardinality(Processes) * (until \div LockTime) + fault

SignInInv ==
  /\ U!TypeOK /\ until <= hour + LockTime
  /\ \A t \in Processes : TrackOK(tracker[t])
  /\ RowsLimited /\ FailuresLimited /\ U!SignedOut

LEMMA SignInTypes ==
  ASSUME U!AuthAssumption, U!TypeOK
  PROVE  /\ signedIn \in Seq(SignIns) /\ live \in SUBSET SignIns
         /\ tracker \in [Processes -> Tracked] /\ revoke \in [SignOuts -> SignOut]
         /\ failed \in Nat /\ until \in Nat /\ login \in [Processes -> {"idle", "checked", "right", "wrong"}]
         /\ hour \in Nat /\ fault \in Nat /\ raced \in Nat /\ Len(signedIn) \in Nat
         /\ FailedLimit \in Nat \ {0} /\ LockTime \in Nat \ {0} /\ SessionLimit \in Nat \ {0}
         /\ SignInTime \in Nat /\ MaxFaults \in Nat /\ MaxRaces \in Nat
         /\ IsFiniteSet(Processes) /\ Cardinality(Processes) \in Nat
<1>1. IsFiniteSet(Processes)
  BY Zenon DEF U!AuthAssumption, U!IsFiniteSet, IsFiniteSet
<1>2. Cardinality(Processes) \in Nat
  BY <1>1, FS_CardinalityType
<1>3. QED
  BY <1>1, <1>2 DEF U!AuthAssumption, U!TypeOK, Tracked, SignOut

\* A list without one of its elements, and with one at its end.
LEMMA ListWithout ==
  ASSUME U!TypeOK, NEW s
  PROVE  /\ U!Without(s) \in Seq(SignIns) /\ U!IsInjective(U!Without(s))
         /\ U!Range(U!Without(s)) = U!Range(signedIn) \ {s}
         /\ Len(U!Without(s)) + One(s \in U!Range(signedIn)) = Len(signedIn)
<1>1. signedIn \in Seq(SignIns) /\ U!IsInjective(signedIn)
  BY DEF U!TypeOK
<1>2. PICK n \in Nat : n = Len(signedIn)
  BY <1>1
<1>3. /\ signedIn \in [1 .. n -> SignIns] /\ DOMAIN signedIn = 1 .. n
      /\ \A i, j \in 1 .. n : signedIn[i] = signedIn[j] => i = j
  BY <1>1, <1>2 DEF U!IsInjective
<1>4. U!Range(signedIn) = {signedIn[i] : i \in 1 .. n}
  BY <1>3 DEF U!Range
<1>5. CASE s \notin U!Range(signedIn)
  BY <1>1, <1>2, <1>5 DEF U!Without, One
<1>6. CASE s \in U!Range(signedIn)
  <2>1. PICK at \in 1 .. n : /\ at = CHOOSE i \in DOMAIN signedIn : signedIn[i] = s
                             /\ signedIn[at] = s
    BY <1>3, <1>4, <1>6
  <2>2. PICK w : w = [i \in 1 .. n - 1 |-> IF i < at THEN signedIn[i] ELSE signedIn[i + 1]]
    OBVIOUS
  <2>3. U!Without(s) = w
    BY <1>2, <1>6, <2>1, <2>2 DEF U!Without
  <2>4. n - 1 \in Nat /\ w \in [1 .. n - 1 -> SignIns]
    BY <1>2, <1>3, <2>1, <2>2
  <2>5. w \in Seq(SignIns) /\ Len(w) = n - 1 /\ DOMAIN w = 1 .. n - 1
    BY <2>4
  <2>6. ASSUME NEW i \in 1 .. n - 1
        PROVE  \E i1 \in 1 .. n : i1 = (IF i < at THEN i ELSE i + 1) /\ i1 # at
    <3>1. i \in Int /\ 1 <= i /\ i <= n - 1 /\ at \in Int /\ n \in Int
      OBVIOUS
    <3>2. CASE i < at
      BY <3>1, <3>2
    <3>3. CASE ~(i < at)
      BY <3>1, <3>3
    <3>4. QED
      BY <3>2, <3>3
  <2>7. ASSUME NEW i \in 1 .. n - 1, NEW j \in 1 .. n - 1, w[i] = w[j]
        PROVE  i = j
    <3>1. PICK i1 \in 1 .. n, j1 \in 1 .. n :
            /\ i1 = (IF i < at THEN i ELSE i + 1) /\ j1 = (IF j < at THEN j ELSE j + 1)
      BY <2>6
    <3>2. w[i] = signedIn[i1] /\ w[j] = signedIn[j1]
      BY <2>2, <3>1
    <3>3. i1 = j1
      BY <1>3, <2>7, <3>2
    <3>4. QED
      BY <2>1, <3>1, <3>3
  <2>8. U!IsInjective(w)
    BY <2>5, <2>7 DEF U!IsInjective
  <2>9. U!Range(w) = U!Range(signedIn) \ {s}
    <3>1. U!Range(w) = {w[i] : i \in 1 .. n - 1}
      BY <2>5 DEF U!Range
    <3>2. ASSUME NEW i \in 1 .. n - 1
          PROVE  w[i] \in U!Range(signedIn) \ {s}
      <4>1. PICK i1 \in 1 .. n : i1 = (IF i < at THEN i ELSE i + 1) /\ i1 # at
        BY <2>6
      <4>2. w[i] = signedIn[i1]
        BY <2>2, <4>1
      <4>3. signedIn[i1] # s
        BY <1>3, <2>1, <4>1
      <4>4. QED
        BY <1>4, <4>2, <4>3
    <3>3. ASSUME NEW i \in 1 .. n, signedIn[i] # s
          PROVE  \E j \in 1 .. n - 1 : w[j] = signedIn[i]
      <4>1. i # at
        BY <2>1, <3>3
      <4>2. CASE i < at
        <5>1. i \in 1 .. n - 1
          BY <1>2, <2>1, <4>2
        <5>2. w[i] = signedIn[i]
          BY <2>2, <4>2, <5>1
        <5>3. QED
          BY <5>1, <5>2
      <4>3. CASE i > at
        <5>1. i - 1 \in 1 .. n - 1 /\ ~(i - 1 < at) /\ (i - 1) + 1 = i
          BY <1>2, <2>1, <4>3
        <5>2. w[i - 1] = signedIn[(i - 1) + 1]
          BY <2>2, <5>1
        <5>3. QED
          BY <5>1, <5>2
      <4>4. QED
        BY <2>1, <4>1, <4>2, <4>3
    <3>4. QED
      BY <1>4, <3>1, <3>2, <3>3
  <2>10. QED
    BY <1>2, <1>6, <2>3, <2>5, <2>8, <2>9 DEF One
<1>7. QED
  BY <1>5, <1>6

LEMMA ListTouched ==
  ASSUME U!TypeOK, NEW s \in SignIns
  PROVE  /\ U!Touched(s) \in Seq(SignIns) /\ U!IsInjective(U!Touched(s))
         /\ U!Range(U!Touched(s)) = U!Range(signedIn) \cup {s}
         /\ Len(U!Touched(s)) + One(s \in U!Range(signedIn)) = Len(signedIn) + 1
<1>1. PICK w \in Seq(SignIns) :
        /\ w = U!Without(s) /\ U!IsInjective(w) /\ U!Range(w) = U!Range(signedIn) \ {s}
        /\ Len(w) + One(s \in U!Range(signedIn)) = Len(signedIn)
  BY ListWithout
<1>2. U!Touched(s) = Append(w, s)
  BY <1>1 DEF U!Touched
<1>3. PICK n \in Nat : n = Len(w)
  OBVIOUS
<1>4. PICK a : a = Append(w, s)
  OBVIOUS
<1>5. /\ a \in Seq(SignIns) /\ Len(a) = n + 1 /\ DOMAIN a = 1 .. n + 1 /\ DOMAIN w = 1 .. n
      /\ a[n + 1] = s /\ \A i \in 1 .. n : a[i] = w[i]
  BY <1>3, <1>4
<1>6. U!Range(w) = {w[i] : i \in 1 .. n} /\ U!Range(a) = {a[i] : i \in 1 .. n + 1}
  BY <1>5 DEF U!Range
<1>7. U!Range(a) = U!Range(w) \cup {s}
  BY <1>3, <1>5, <1>6
<1>8. U!IsInjective(a)
  BY <1>1, <1>3, <1>5, <1>6 DEF U!IsInjective
<1>9. One(s \in U!Range(signedIn)) \in {0, 1} /\ Len(signedIn) \in Nat
  BY DEF One, U!TypeOK
<1>10. QED
  BY <1>1, <1>2, <1>3, <1>4, <1>5, <1>7, <1>8, <1>9

LEMMA FewUnderWay ==
  ASSUME U!AuthAssumption, NEW track
  PROVE  Cardinality(UnderWay(track)) \in Nat /\ Cardinality(Trying(track)) \in Nat
         /\ Cardinality(Trying(track)) <= Cardinality(Processes)
<1>1. IsFiniteSet(Processes)
  BY Zenon DEF U!AuthAssumption, U!IsFiniteSet, IsFiniteSet
<1>2. UnderWay(track) \in SUBSET Processes /\ Trying(track) \in SUBSET Processes
  BY DEF UnderWay, Trying
<1>3. IsFiniteSet(UnderWay(track)) /\ IsFiniteSet(Trying(track))
      /\ Cardinality(Trying(track)) <= Cardinality(Processes)
  BY <1>1, <1>2, FS_Subset
<1>4. QED
  BY <1>3, FS_CardinalityType

\* A call that moves alone.
LEMMA CallMoves ==
  ASSUME U!AuthAssumption, U!TypeOK, NEW t \in Processes, NEW d \in Tracked,
         tracker' = [tracker EXCEPT ![t] = d]
  PROVE  /\ tracker' \in [Processes -> Tracked]
         /\ \A o \in Processes : tracker'[o] = IF o = t THEN d ELSE tracker[o]
         /\ Cardinality(UnderWay(tracker)) \in Nat /\ Cardinality(UnderWay(tracker')) \in Nat
         /\ tracker[t].pc = "idle" /\ d.pc # "idle" =>
              Cardinality(UnderWay(tracker')) = Cardinality(UnderWay(tracker)) + 1
         /\ tracker[t].pc # "idle" /\ d.pc = "idle" =>
              Cardinality(UnderWay(tracker)) = Cardinality(UnderWay(tracker')) + 1
         /\ tracker[t].pc # "idle" /\ d.pc # "idle" =>
              Cardinality(UnderWay(tracker')) = Cardinality(UnderWay(tracker))
<1>1. tracker \in [Processes -> Tracked] /\ IsFiniteSet(Processes)
  BY SignInTypes
<1>2. \A o \in Processes : tracker'[o] = IF o = t THEN d ELSE tracker[o]
  BY <1>1
<1>3. PICK X \in SUBSET Processes, Y \in SUBSET Processes : X = UnderWay(tracker) /\ Y = UnderWay(tracker')
  BY DEF UnderWay
<1>4. X \ {t} = Y \ {t} /\ (t \in X <=> tracker[t].pc # "idle") /\ (t \in Y <=> d.pc # "idle")
  BY <1>2, <1>3 DEF UnderWay
<1>5. Cardinality(X) \in Nat /\ Cardinality(Y) \in Nat
      /\ Cardinality(Y) + One(t \in X) = Cardinality(X) + One(t \in Y)
  BY <1>1, <1>4, CountMoves
<1>6. /\ One(t \in X) = IF tracker[t].pc # "idle" THEN 1 ELSE 0
      /\ One(t \in Y) = IF d.pc # "idle" THEN 1 ELSE 0
  BY <1>4 DEF One
<1>7. tracker' \in [Processes -> Tracked]
  BY <1>1
<1>8. QED
  BY <1>2, <1>3, <1>5, <1>6, <1>7

\* What a step leaves alone stays within its limit.
LEMMA SessionsStay ==
  ASSUME U!AuthAssumption, SignInInv, UNCHANGED <<signedIn, tracker, raced>>, fault' = fault \/ U!Fault
  PROVE  RowsLimited' /\ \A t \in Processes : TrackOK(tracker[t])'
<1>1. /\ fault \in Nat /\ raced \in Nat /\ Len(signedIn) \in Nat /\ SessionLimit \in Nat
      /\ Cardinality(UnderWay(tracker)) \in Nat
  BY SignInTypes, FewUnderWay DEF SignInInv
<1>2. fault' \in Nat /\ fault' >= fault
  BY <1>1 DEF U!Fault
<1>3. One(Room(tracker, signedIn)) \in {0, 1}
  BY DEF One
<1>4. RowsLimited'
  BY <1>1, <1>2, <1>3 DEF SignInInv, RowsLimited
<1>5. QED
  BY <1>4 DEF SignInInv, TrackOK

LEMMA FailuresStay ==
  ASSUME U!AuthAssumption, SignInInv, UNCHANGED <<failed, until, login, hour>>, fault' = fault \/ U!Fault
  PROVE  FailuresLimited' /\ (until <= hour + LockTime)'
<1>1. /\ fault \in Nat /\ failed \in Nat /\ until \in Nat /\ hour \in Nat /\ Cardinality(Processes) \in Nat
      /\ FailedLimit \in Nat /\ Cardinality(Trying(login)) \in Nat
  BY SignInTypes, FewUnderWay DEF SignInInv
<1>2. fault' \in Nat /\ fault' >= fault
  BY <1>1 DEF U!Fault
<1>3. PICK c : c = Cardinality(Processes) * (until \div LockTime)
  OBVIOUS
<1>4. c \in Int
  BY <1>1, <1>3, SignInTypes DEF SignInInv
<1>5. (U!Locked <=> until > hour) /\ (U!Locked' <=> until > hour)
  BY DEF U!Locked
<1>6. FailuresLimited'
  BY <1>1, <1>2, <1>3, <1>4, <1>5 DEF SignInInv, FailuresLimited
<1>7. QED
  BY <1>6 DEF SignInInv

\* The sign-outs that left sessions alive are no more, or one more for a fault.
LEMMA AliveCount ==
  ASSUME U!AuthAssumption
  PROVE  /\ IsFiniteSet(U!LeftAlive) /\ Cardinality(U!LeftAlive) \in Nat
         /\ U!Cardinality(U!LeftAlive) = Cardinality(U!LeftAlive)
         /\ U!Cardinality(U!LeftAlive') = Cardinality(U!LeftAlive')
<1>1. IsFiniteSet(SignOuts)
  BY Zenon DEF U!AuthAssumption, U!IsFiniteSet, IsFiniteSet
<1>2. IsFiniteSet(U!LeftAlive)
  BY <1>1, FS_Subset DEF U!LeftAlive
<1>3. QED
  BY <1>2, FS_CardinalityType, Zenon DEF U!Cardinality, Cardinality

LEMMA FewerAlive ==
  ASSUME U!AuthAssumption, SignInInv, fault' = fault \/ U!Fault, U!LeftAlive' \subseteq U!LeftAlive
  PROVE  U!SignedOut'
<1>1. /\ Cardinality(U!LeftAlive') <= Cardinality(U!LeftAlive) /\ Cardinality(U!LeftAlive') \in Nat
      /\ Cardinality(U!LeftAlive) \in Nat
  BY AliveCount, FS_Subset, FS_CardinalityType
<1>2. fault \in Nat /\ Cardinality(U!LeftAlive) <= fault
  BY AliveCount, SignInTypes DEF SignInInv, U!SignedOut
<1>3. fault' = fault \/ fault' = fault + 1
  BY DEF U!Fault
<1>4. Cardinality(U!LeftAlive') <= fault'
  BY <1>1, <1>2, <1>3
<1>5. QED
  BY <1>4, AliveCount DEF U!SignedOut

LEMMA OneMoreAlive ==
  ASSUME U!AuthAssumption, SignInInv, U!Fault, NEW v, U!LeftAlive' \subseteq U!LeftAlive \cup {v}
  PROVE  U!SignedOut'
<1>1. /\ IsFiniteSet(U!LeftAlive \cup {v})
      /\ Cardinality(U!LeftAlive \cup {v}) = Cardinality(U!LeftAlive)
         \/ Cardinality(U!LeftAlive \cup {v}) = Cardinality(U!LeftAlive) + 1
  BY AliveCount, FS_AddElement, Zenon
<1>2. Cardinality(U!LeftAlive') <= Cardinality(U!LeftAlive \cup {v}) /\ IsFiniteSet(U!LeftAlive')
  BY <1>1, FS_Subset
<1>3. Cardinality(U!LeftAlive') \in Nat /\ Cardinality(U!LeftAlive) \in Nat
  BY <1>2, AliveCount, FS_CardinalityType
<1>4. fault \in Nat /\ Cardinality(U!LeftAlive) <= fault
  BY AliveCount, SignInTypes DEF SignInInv, U!SignedOut
<1>5. fault' = fault + 1
  BY DEF U!Fault
<1>6. Cardinality(U!LeftAlive') <= fault'
  BY <1>1, <1>2, <1>3, <1>4, <1>5
<1>7. QED
  BY <1>6, AliveCount DEF U!SignedOut

\* No step but a sign-out lets more sessions live.
LEMMA AliveStays ==
  ASSUME U!AuthAssumption, SignInInv, fault' = fault \/ U!Fault, UNCHANGED revoke,
         \A v \in SignOuts : revoke[v].of \cap live' \subseteq revoke[v].of \cap live
  PROVE  U!SignedOut'
<1>1. U!LeftAlive' \subseteq U!LeftAlive
  BY DEF U!LeftAlive
<1>2. QED
  BY <1>1, FewerAlive

LEMMA CountSessionsStep ==
  ASSUME U!AuthAssumption, SignInInv, NEW t \in Processes, NEW s \in SignIns, U!CountSessions(t, s)
  PROVE  SignInInv'
<1>1. /\ tracker[t].pc = "idle" /\ UNCHANGED <<signedIn, live, revoke, failed, until, login, hour, fault>>
      /\ U!TypeOK /\ fault \in Nat /\ raced \in Nat /\ Len(signedIn) \in Nat /\ SessionLimit \in Nat
      /\ MaxRaces \in Nat /\ raced \in 0 .. MaxRaces
  BY SignInTypes DEF SignInInv, U!CountSessions, U!lock, U!TypeOK
<1>2. PICK pc \in {"oldest", "insert"} : pc = IF Len(signedIn) >= SessionLimit THEN "oldest" ELSE "insert"
  BY <1>1
<1>3. PICK d : d = [pc |-> pc, session |-> s, oldest |-> U!None]
  OBVIOUS
<1>4. /\ d \in Tracked /\ d.pc = pc /\ d.session = s /\ tracker' = [tracker EXCEPT ![t] = d]
  BY <1>2, <1>3 DEF Tracked, U!CountSessions, U!SetTracker
<1>5. PICK u \in Nat, v \in Nat : u = Cardinality(UnderWay(tracker)) /\ v = Cardinality(UnderWay(tracker'))
  BY <1>1, <1>4, CallMoves
<1>6. v = u + 1
  BY <1>1, <1>2, <1>4, <1>5, CallMoves
<1>7. \A o \in Processes : tracker'[o] = IF o = t THEN d ELSE tracker[o]
  BY <1>1, <1>4, CallMoves
<1>8. /\ Len(signedIn) + u <= SessionLimit + raced + fault + One(Room(tracker, signedIn)) /\ u <= raced + 1
  BY <1>5 DEF SignInInv, RowsLimited
<1>9. raced' \in 0 .. MaxRaces /\ (raced' = raced \/ raced' = raced + 1)
  BY <1>1 DEF U!CountSessions
<1>10. Room(tracker, signedIn) => Room(tracker', signedIn')
  BY <1>1, <1>7 DEF Room, MakesRoom
<1>11. Len(signedIn) >= SessionLimit => Room(tracker', signedIn')
  BY <1>1, <1>2, <1>4, <1>7 DEF Room, MakesRoom
<1>12. RowsLimited'
  <2>1. CASE \A o \in Processes : tracker[o].pc = "idle"
    <3>1. UnderWay(tracker) = {} /\ ~Room(tracker, signedIn) /\ raced' = raced
      BY <2>1 DEF UnderWay, Room, MakesRoom, U!CountSessions
    <3>2. u = 0
      BY <1>5, <3>1, FS_EmptySet
    <3>3. Len(signedIn) < SessionLimit \/ One(Room(tracker', signedIn')) = 1
      BY <1>1, <1>11 DEF One
    <3>4. One(Room(tracker', signedIn')) \in {0, 1} /\ One(Room(tracker, signedIn)) = 0
      BY <3>1 DEF One
    <3>5. QED
      BY <1>1, <1>5, <1>6, <1>8, <3>1, <3>2, <3>3, <3>4 DEF RowsLimited
  <2>2. CASE ~(\A o \in Processes : tracker[o].pc = "idle")
    <3>1. raced' = raced + 1
      BY <2>2 DEF U!CountSessions
    <3>2. /\ One(Room(tracker', signedIn')) \in {0, 1} /\ One(Room(tracker, signedIn)) \in {0, 1}
          /\ One(Room(tracker', signedIn')) >= One(Room(tracker, signedIn))
      BY <1>10 DEF One
    <3>3. QED
      BY <1>1, <1>5, <1>6, <1>8, <3>1, <3>2 DEF RowsLimited
  <2>3. QED
    BY <2>1, <2>2
<1>13. U!TypeOK'
  BY <1>1, <1>4, <1>9, CallMoves DEF U!TypeOK, Tracked
<1>14. \A o \in Processes : TrackOK(tracker[o])'
  BY <1>2, <1>4, <1>7 DEF SignInInv, TrackOK
<1>15. FailuresLimited' /\ (until <= hour + LockTime)'
  BY <1>1, FailuresStay
<1>16. U!SignedOut'
  BY <1>1, AliveStays
<1>17. QED
  BY <1>1, <1>12, <1>13, <1>14, <1>15, <1>16 DEF SignInInv

\* What is under way and what there is, when a fault or a deletion makes up
\* for the room that is no longer made.
MadeUp(m, n, u, v, r, f, g, a) ==
  /\ {m, n, u, v, r, f, g, a} \subseteq Nat /\ a <= 1
  /\ m + u <= SessionLimit + r + f + a /\ v <= r + 1 /\ n + v <= m + u
  /\ n < m => n + v < m + u
  /\ g >= f /\ (g = f + 1 \/ n < m \/ n = 0)

LEMMA RoomSum ==
  ASSUME NEW m, NEW n, NEW u, NEW v, NEW r, NEW f, NEW g, NEW a, NEW b \in Nat,
         SessionLimit \in Nat \ {0}, MadeUp(m, n, u, v, r, f, g, a)
  PROVE  n + v <= SessionLimit + r + g + b
  BY DEF MadeUp

LEMMA SumGrows ==
  ASSUME NEW l \in Nat, NEW k \in Nat, NEW c \in Nat, NEW f \in Nat, NEW g \in Nat,
         NEW a \in Nat, NEW b \in Nat, SessionLimit \in Nat \ {0},
         k <= l, l <= SessionLimit + c + f + a, f <= g, a <= b
  PROVE  k <= SessionLimit + c + g + b
  OBVIOUS

OneOut(m, n, u, v, r, e) ==
  {m, n, u, v, r, e} \subseteq Nat /\ n <= m + e /\ v + e = u /\ u <= r + 1

LEMMA OneLess ==
  ASSUME NEW m, NEW n, NEW u, NEW v, NEW r, NEW e, OneOut(m, n, u, v, r, e)
  PROVE  v <= u /\ v <= r + 1 /\ n + v <= m + u /\ (n < m => n + v < m + u)
  BY DEF OneOut

\* A call that goes on, or ends.
LEMMA CallGoesOn ==
  ASSUME U!AuthAssumption, SignInInv, NEW t \in Processes, NEW d \in Tracked,
         tracker[t].pc # "idle", U!SetTracker(t, d), TrackOK(d),
         UNCHANGED <<live, raced, revoke, failed, until, login, hour>>,
         fault' = fault \/ U!Fault,
         signedIn' \in Seq(SignIns), U!IsInjective(signedIn'),
         Len(signedIn') <= Len(signedIn) + (IF d.pc = "idle" THEN 1 ELSE 0),
         Room(tracker, signedIn) =>
           \/ Room(tracker', signedIn')
           \/ fault' = fault + 1 \/ Len(signedIn') < Len(signedIn) \/ Len(signedIn') = 0
  PROVE  SignInInv'
<1>1. /\ U!TypeOK /\ fault \in 0 .. MaxFaults /\ raced \in Nat /\ Len(signedIn) \in Nat
      /\ SessionLimit \in Nat \ {0} /\ MaxFaults \in Nat /\ Len(signedIn') \in Nat
      /\ tracker' = [tracker EXCEPT ![t] = d]
  <2>1. U!TypeOK /\ tracker' = [tracker EXCEPT ![t] = d]
    BY DEF SignInInv, U!SetTracker
  <2>2. fault \in 0 .. MaxFaults /\ Len(signedIn') \in Nat
    BY <2>1 DEF U!TypeOK
  <2>3. QED
    BY <2>1, <2>2, SignInTypes
<1>2. PICK u \in Nat, v \in Nat : u = Cardinality(UnderWay(tracker)) /\ v = Cardinality(UnderWay(tracker'))
  BY <1>1, CallMoves
<1>3. (d.pc = "idle" => u = v + 1) /\ (d.pc # "idle" => u = v)
  BY <1>1, <1>2, CallMoves
<1>4. Len(signedIn) + u <= SessionLimit + raced + fault + One(Room(tracker, signedIn)) /\ u <= raced + 1
  BY <1>2 DEF SignInInv, RowsLimited
<1>5. /\ fault' \in 0 .. MaxFaults /\ (fault' = fault \/ fault' = fault + 1)
  BY <1>1 DEF U!Fault
<1>6. /\ One(Room(tracker', signedIn')) \in {0, 1} /\ One(Room(tracker, signedIn)) \in {0, 1}
      /\ (Room(tracker', signedIn') <=> One(Room(tracker', signedIn')) = 1)
      /\ (Room(tracker, signedIn) <=> One(Room(tracker, signedIn)) = 1)
  BY DEF One
<1>7. PICK a \in {0, 1}, b \in {0, 1} : a = One(Room(tracker, signedIn)) /\ b = One(Room(tracker', signedIn'))
  BY <1>6
<1>8. a = 1 => b = 1 \/ fault' = fault + 1 \/ Len(signedIn') < Len(signedIn) \/ Len(signedIn') = 0
  BY <1>6, <1>7
<1>9. Len(signedIn') + v <= SessionLimit + raced + fault' + b /\ v <= raced + 1
  <2>1. v <= u /\ v <= raced + 1 /\ Len(signedIn') + v <= Len(signedIn) + u
        /\ (Len(signedIn') < Len(signedIn) => Len(signedIn') + v < Len(signedIn) + u)
    <3>1. PICK e \in Nat : e = IF d.pc = "idle" THEN 1 ELSE 0
      OBVIOUS
    <3>2. v + e = u
      BY <1>3, <3>1
    <3>3. Len(signedIn') <= Len(signedIn) + e
      BY <3>1
    <3>4. {Len(signedIn), Len(signedIn'), u, v, raced, e} \subseteq Nat /\ u <= raced + 1
      BY <1>1, <1>4
    <3>5. OneOut(Len(signedIn), Len(signedIn'), u, v, raced, e)
      BY <3>2, <3>3, <3>4, Zenon DEF OneOut
    <3>6. QED
      BY <3>5, OneLess, Zenon
  <2>2. Len(signedIn') + v <= SessionLimit + raced + fault' + a
    <3>1. Len(signedIn) + u <= SessionLimit + raced + fault + a
      BY <1>4, <1>7
    <3>2. fault <= fault' /\ fault \in Nat /\ fault' \in Nat /\ a \in Nat /\ a <= a
      BY <1>1, <1>5, <1>7
    <3>3. Len(signedIn) + u \in Nat /\ Len(signedIn') + v \in Nat
      BY <1>1
    <3>4. QED
      BY <1>1, <2>1, <3>1, <3>2, <3>3, SumGrows, Zenon
  <2>3. CASE a <= b
    <3>1. /\ fault' \in Nat /\ fault' <= fault' /\ a \in Nat /\ b \in Nat
          /\ Len(signedIn') + v \in Nat /\ Len(signedIn') + v <= Len(signedIn') + v
      BY <1>1, <1>5, <1>7
    <3>2. Len(signedIn') + v <= SessionLimit + raced + fault' + b
      BY <1>1, <2>2, <2>3, <3>1, SumGrows, Zenon
    <3>3. QED
      BY <2>1, <3>2
  <2>4. CASE fault' = fault + 1 \/ Len(signedIn') < Len(signedIn) \/ Len(signedIn') = 0
    <3>1. PICK m \in Nat, n \in Nat : m = Len(signedIn) /\ n = Len(signedIn')
      BY <1>1
    <3>2. m + u <= SessionLimit + raced + fault + a
      BY <1>4, <1>7, <3>1
    <3>3. fault \in Nat /\ SessionLimit \in Nat \ {0} /\ raced \in Nat
      BY <1>1
    <3>0. a \in Nat /\ b \in Nat /\ a <= 1
      BY <1>7
    <3>4. n + v <= m + u /\ (n < m => n + v < m + u) /\ v <= raced + 1
      BY <2>1, <3>1
    <3>5. fault' \in Nat /\ fault' >= fault
      BY <1>5, <3>3
    <3>6. fault' = fault + 1 \/ n < m \/ n = 0
      BY <2>4, <3>1
    <3>7. MadeUp(m, n, u, v, raced, fault, fault', a)
      BY <3>0, <3>2, <3>3, <3>4, <3>5, <3>6, Zenon DEF MadeUp
    <3>8. QED
      BY <3>0, <3>1, <3>3, <3>4, <3>7, RoomSum, Zenon
  <2>5. QED
    BY <1>8, <2>3, <2>4
<1>10. RowsLimited'
  BY <1>2, <1>7, <1>9 DEF RowsLimited
<1>11. tracker' \in [Processes -> Tracked] /\ \A o \in Processes : tracker'[o] = IF o = t THEN d ELSE tracker[o]
  BY <1>1, CallMoves
<1>12. U!TypeOK'
  BY <1>1, <1>5, <1>11 DEF U!TypeOK, Tracked
<1>13. \A o \in Processes : TrackOK(tracker[o])'
  BY <1>11 DEF SignInInv, TrackOK
<1>14. FailuresLimited' /\ (until <= hour + LockTime)'
  BY FailuresStay
<1>15. U!SignedOut'
  BY AliveStays
<1>16. QED
  BY <1>10, <1>12, <1>13, <1>14, <1>15 DEF SignInInv

LEMMA RestTracked ==
  U!Rest \in Tracked /\ U!Rest.pc = "idle" /\ TrackOK(U!Rest)
  BY DEF U!Rest, Tracked, TrackOK

LEMMA OldestStep ==
  ASSUME U!AuthAssumption, SignInInv, NEW t \in Processes, U!Oldest(t)
  PROVE  SignInInv'
<1>1. /\ U!TypeOK /\ tracker \in [Processes -> Tracked] /\ signedIn \in Seq(SignIns)
      /\ U!IsInjective(signedIn) /\ tracker[t].pc = "oldest" /\ TrackOK(tracker[t])
      /\ UNCHANGED <<signedIn, live, raced, revoke, failed, until, login, hour, fault>>
  BY SignInTypes DEF SignInInv, U!Oldest, U!lock, U!TypeOK
<1>2. CASE signedIn = <<>>
  BY <1>1, <1>2, RestTracked, CallGoesOn DEF U!Oldest
<1>3. CASE signedIn # <<>>
  <2>1. 1 \in DOMAIN signedIn /\ signedIn[1] \in SignIns /\ signedIn[1] \in U!Range(signedIn)
        /\ Len(signedIn) \in Nat
    BY <1>1, <1>3 DEF U!Range
  <2>2. PICK d : d = [tracker[t] EXCEPT !.pc = "delete", !.oldest = signedIn[1]]
    OBVIOUS
  <2>3. d \in Tracked /\ d.pc = "delete" /\ d.oldest = signedIn[1] /\ d.session = tracker[t].session
    BY <1>1, <2>1, <2>2 DEF Tracked
  <2>4. U!SetTracker(t, d) /\ TrackOK(d)
    BY <1>1, <1>3, <2>1, <2>2, <2>3 DEF U!Oldest, TrackOK
  <2>5. Room(tracker', signedIn')
    BY <1>1, <2>1, <2>3, <2>4 DEF U!SetTracker, MakesRoom, Room
  <2>6. QED
    BY <1>1, <2>1, <2>3, <2>4, <2>5, CallGoesOn
<1>4. QED
  BY <1>2, <1>3

LEMMA DeleteOldestStep ==
  ASSUME U!AuthAssumption, SignInInv, NEW t \in Processes, U!DeleteOldest(t)
  PROVE  SignInInv'
<1>1. /\ U!TypeOK /\ tracker \in [Processes -> Tracked] /\ signedIn \in Seq(SignIns)
      /\ U!IsInjective(signedIn) /\ tracker[t].pc = "delete" /\ TrackOK(tracker[t])
      /\ UNCHANGED <<live, raced, revoke, failed, until, login, hour>> /\ fault \in Nat
  BY SignInTypes DEF SignInInv, U!DeleteOldest, U!lock, U!TypeOK
<1>2. PICK d : d = [tracker[t] EXCEPT !.pc = "insert", !.oldest = U!None]
  OBVIOUS
<1>3. d \in Tracked /\ d.pc = "insert" /\ d.session = tracker[t].session
  BY <1>1, <1>2 DEF Tracked
<1>4. U!SetTracker(t, d) /\ TrackOK(d)
  BY <1>1, <1>2, <1>3 DEF U!DeleteOldest, TrackOK
<1>5. CASE U!Fault /\ UNCHANGED signedIn
  BY <1>1, <1>3, <1>4, <1>5, CallGoesOn DEF U!Fault
<1>6. CASE signedIn' = U!Without(tracker[t].oldest) /\ UNCHANGED fault
  <2>1. PICK o : o = tracker[t].oldest
    OBVIOUS
  <2>2. /\ signedIn' \in Seq(SignIns) /\ U!IsInjective(signedIn')
        /\ U!Range(signedIn') = U!Range(signedIn) \ {o}
        /\ Len(signedIn') + One(o \in U!Range(signedIn)) = Len(signedIn)
    BY <1>1, <1>6, <2>1, ListWithout
  <2>3. Len(signedIn') \in Nat /\ Len(signedIn) \in Nat
    BY <1>1, <2>2
  <2>4. CASE o \in U!Range(signedIn)
    <3>1. Len(signedIn') < Len(signedIn)
      BY <2>2, <2>3, <2>4 DEF One
    <3>2. QED
      BY <1>1, <1>3, <1>4, <1>6, <2>2, <2>3, <3>1, CallGoesOn
  <2>5. CASE o \notin U!Range(signedIn)
    <3>1. Len(signedIn') = Len(signedIn) /\ U!Range(signedIn') = U!Range(signedIn)
      BY <2>2, <2>3, <2>5 DEF One
    <3>2. \A p \in Processes : tracker'[p] = IF p = t THEN d ELSE tracker[p]
      BY <1>1, <1>4 DEF U!SetTracker
    <3>3. ~MakesRoom(tracker[t], signedIn)
      BY <1>1, <2>1, <2>5 DEF MakesRoom
    <3>4. Room(tracker, signedIn) => Room(tracker', signedIn')
      BY <3>1, <3>2, <3>3 DEF Room, MakesRoom
    <3>5. QED
      BY <1>1, <1>3, <1>4, <1>6, <2>2, <2>3, <3>1, <3>4, CallGoesOn
  <2>6. QED
    BY <2>4, <2>5
<1>7. QED
  BY <1>5, <1>6 DEF U!DeleteOldest

LEMMA InsertStep ==
  ASSUME U!AuthAssumption, SignInInv, NEW t \in Processes, U!InsertSession(t) \/ U!TrackFails(t)
  PROVE  SignInInv'
<1>1. /\ U!TypeOK /\ tracker \in [Processes -> Tracked] /\ signedIn \in Seq(SignIns)
      /\ U!IsInjective(signedIn) /\ tracker[t].pc \in {"oldest", "insert"} /\ TrackOK(tracker[t])
      /\ UNCHANGED <<live, raced, revoke, failed, until, login, hour>> /\ fault \in Nat
      /\ U!SetTracker(t, U!Rest) /\ Len(signedIn) \in Nat
  BY SignInTypes DEF SignInInv, U!InsertSession, U!TrackFails, U!lock, U!TypeOK
<1>2. U!Rest \in Tracked /\ U!Rest.pc = "idle" /\ TrackOK(U!Rest)
  BY RestTracked
<1>3. CASE U!InsertSession(t)
  <2>1. PICK s \in SignIns : s = tracker[t].session
    BY <1>1 DEF TrackOK
  <2>2. /\ signedIn' = U!Touched(s) /\ UNCHANGED fault /\ tracker[t].pc = "insert"
    BY <1>3, <2>1 DEF U!InsertSession
  <2>3. /\ signedIn' \in Seq(SignIns) /\ U!IsInjective(signedIn')
        /\ U!Range(signedIn') = U!Range(signedIn) \cup {s}
        /\ Len(signedIn') + One(s \in U!Range(signedIn)) = Len(signedIn) + 1
    BY <1>1, <2>2, ListTouched
  <2>4. Len(signedIn') \in Nat /\ Len(signedIn') <= Len(signedIn) + 1
    BY <1>1, <2>3 DEF One
  <2>5. \A p \in Processes : tracker'[p] = IF p = t THEN U!Rest ELSE tracker[p]
    BY <1>1 DEF U!SetTracker
  <2>6. ~MakesRoom(tracker[t], signedIn)
    BY <2>2 DEF MakesRoom
  <2>7. Room(tracker, signedIn) => Room(tracker', signedIn')
    BY <2>3, <2>5, <2>6 DEF Room, MakesRoom
  <2>8. QED
    BY <1>1, <1>2, <2>2, <2>3, <2>4, <2>7, CallGoesOn
<1>4. CASE U!TrackFails(t)
  BY <1>1, <1>2, <1>4, CallGoesOn DEF U!TrackFails, U!Fault
<1>5. QED
  BY <1>3, <1>4

\* What ends or touches a session besides.
LEMMA SignOutLists ==
  ASSUME U!AuthAssumption, SignInInv, UNCHANGED <<tracker, raced, failed, until, login, hour, fault>>,
         live' \in SUBSET live,
         \/ UNCHANGED <<signedIn, revoke>>
         \/ \E s \in U!Range(signedIn) :
              (signedIn' = U!Without(s) \/ signedIn' = U!Touched(s)) /\ UNCHANGED <<live, revoke>>
  PROVE  SignInInv'
<1>1. /\ U!TypeOK /\ signedIn \in Seq(SignIns) /\ U!IsInjective(signedIn) /\ Len(signedIn) \in Nat
      /\ fault \in Nat /\ raced \in Nat /\ SessionLimit \in Nat /\ Cardinality(UnderWay(tracker)) \in Nat
  BY SignInTypes, FewUnderWay DEF SignInInv, U!TypeOK
<1>2. /\ signedIn' \in Seq(SignIns) /\ U!IsInjective(signedIn') /\ Len(signedIn') \in Nat
      /\ \/ Len(signedIn') < Len(signedIn)
         \/ Len(signedIn') = Len(signedIn) /\ U!Range(signedIn') = U!Range(signedIn)
  <2>1. CASE UNCHANGED signedIn
    BY <1>1, <2>1
  <2>2. ASSUME NEW s \in U!Range(signedIn), signedIn' = U!Without(s)
        PROVE  /\ signedIn' \in Seq(SignIns) /\ U!IsInjective(signedIn') /\ Len(signedIn') \in Nat
               /\ \/ Len(signedIn') < Len(signedIn)
                  \/ Len(signedIn') = Len(signedIn) /\ U!Range(signedIn') = U!Range(signedIn)
    BY <1>1, <2>2, ListWithout DEF One
  <2>3. ASSUME NEW s \in U!Range(signedIn), signedIn' = U!Touched(s)
        PROVE  /\ signedIn' \in Seq(SignIns) /\ U!IsInjective(signedIn') /\ Len(signedIn') \in Nat
               /\ \/ Len(signedIn') < Len(signedIn)
                  \/ Len(signedIn') = Len(signedIn) /\ U!Range(signedIn') = U!Range(signedIn)
    <3>1. s \in SignIns
      BY <1>1 DEF U!Range
    <3>2. /\ signedIn' \in Seq(SignIns) /\ U!IsInjective(signedIn')
          /\ U!Range(signedIn') = U!Range(signedIn) \cup {s}
          /\ Len(signedIn') + One(s \in U!Range(signedIn)) = Len(signedIn) + 1
      BY <1>1, <2>3, <3>1, ListTouched
    <3>3. U!Range(signedIn') = U!Range(signedIn)
      BY <3>2
    <3>4. QED
      BY <1>1, <2>3, <3>2, <3>3 DEF One
  <2>4. QED
    BY <2>1, <2>2, <2>3
<1>3. One(Room(tracker', signedIn')) \in {0, 1} /\ One(Room(tracker, signedIn)) \in {0, 1}
  BY DEF One
<1>4. U!Range(signedIn') = U!Range(signedIn) =>
        One(Room(tracker', signedIn')) = One(Room(tracker, signedIn))
  BY DEF Room, MakesRoom
<1>5. RowsLimited'
  <2>1. CASE Len(signedIn') < Len(signedIn)
    BY <1>1, <1>2, <1>3, <2>1 DEF SignInInv, RowsLimited
  <2>2. CASE Len(signedIn') = Len(signedIn) /\ U!Range(signedIn') = U!Range(signedIn)
    BY <1>4, <2>2 DEF SignInInv, RowsLimited
  <2>3. QED
    BY <1>2, <2>1, <2>2
<1>6. revoke' = revoke
  OBVIOUS
<1>7. U!TypeOK'
  BY <1>1, <1>2, <1>6 DEF U!TypeOK
<1>8. \A t \in Processes : TrackOK(tracker[t])'
  BY DEF SignInInv, TrackOK
<1>9. FailuresLimited' /\ (until <= hour + LockTime)'
  BY FailuresStay
<1>10. U!SignedOut'
  BY <1>6, AliveStays
<1>11. QED
  BY <1>5, <1>7, <1>8, <1>9, <1>10 DEF SignInInv

LEMMA LogoutStep ==
  ASSUME U!AuthAssumption, SignInInv, NEW s \in SignIns, U!Logout(s)
  PROVE  SignInInv'
<1>1. /\ UNCHANGED <<signedIn, tracker, raced, revoke, failed, until, login, hour>>
      /\ live' \in SUBSET live /\ (fault' = fault \/ U!Fault)
  BY DEF U!Logout, U!lock
<1>2. fault \in Nat /\ MaxFaults \in Nat /\ U!TypeOK /\ fault \in 0 .. MaxFaults
  BY SignInTypes DEF SignInInv, U!TypeOK
<1>3. fault' \in 0 .. MaxFaults
  BY <1>1, <1>2 DEF U!Fault
<1>4. U!TypeOK'
  BY <1>1, <1>2, <1>3 DEF U!TypeOK
<1>5. RowsLimited' /\ \A t \in Processes : TrackOK(tracker[t])'
  BY <1>1, SessionsStay
<1>6. FailuresLimited' /\ (until <= hour + LockTime)'
  BY <1>1, FailuresStay
<1>7. U!SignedOut'
  BY <1>1, AliveStays
<1>8. QED
  BY <1>4, <1>5, <1>6, <1>7 DEF SignInInv

\* The sign-out of all sessions, or of the others.
LEMMA SignOutMoves ==
  ASSUME U!TypeOK, NEW v \in SignOuts, NEW d \in SignOut, revoke' = [revoke EXCEPT ![v] = d]
  PROVE  revoke' \in [SignOuts -> SignOut] /\ \A o \in SignOuts : revoke'[o] = IF o = v THEN d ELSE revoke[o]
<1>1. revoke \in [SignOuts -> SignOut]
  BY DEF U!TypeOK, SignOut
<1>2. QED
  BY <1>1

LEMMA SignOutBegins ==
  ASSUME U!AuthAssumption, SignInInv, NEW v \in SignOuts,
         U!RevokeAll(v) \/ \E s \in SignIns : U!UpdatePassword(v, s)
  PROVE  SignInInv'
<1>1. /\ UNCHANGED <<live, tracker, raced, failed, until, login, hour, fault>> /\ U!TypeOK
      /\ live \in SUBSET SignIns
      /\ fault \in Nat /\ raced \in Nat /\ SessionLimit \in Nat \ {0} /\ Len(signedIn) \in Nat
      /\ Cardinality(UnderWay(tracker)) \in Nat
  BY SignInTypes, FewUnderWay DEF SignInInv, U!RevokeAll, U!UpdatePassword, U!lock
<1>2. PICK keep \in SUBSET SignIns : U!Begin(v, keep)
  <2>1. CASE U!RevokeAll(v)
    BY <2>1 DEF U!RevokeAll
  <2>2. ASSUME NEW s \in SignIns, U!UpdatePassword(v, s) PROVE U!Begin(v, {s})
    BY <2>2 DEF U!UpdatePassword
  <2>3. QED
    BY <2>1, <2>2
<1>3. PICK d \in SignOut : /\ d = [pc |-> "sign_out", of |-> live, keep |-> keep] /\ d.pc = "sign_out"
                           /\ revoke' = [revoke EXCEPT ![v] = d]
  BY <1>1, <1>2 DEF SignOut, U!Begin
<1>4. revoke' \in [SignOuts -> SignOut] /\ \A o \in SignOuts : revoke'[o] = IF o = v THEN d ELSE revoke[o]
  BY <1>1, <1>3, SignOutMoves
<1>5. UNCHANGED signedIn \/ signedIn' = <<>>
  BY DEF U!RevokeAll, U!UpdatePassword
<1>6. /\ signedIn' \in Seq(SignIns) /\ U!IsInjective(signedIn')
      /\ signedIn' = <<>> => Len(signedIn') = 0
  <2>1. U!IsInjective(<<>>) /\ <<>> \in Seq(SignIns) /\ Len(<<>>) = 0
    BY DEF U!IsInjective
  <2>2. signedIn \in Seq(SignIns) /\ U!IsInjective(signedIn)
    BY <1>1 DEF U!TypeOK
  <2>3. QED
    BY <1>5, <2>1, <2>2
<1>7. U!TypeOK'
  BY <1>1, <1>4, <1>6 DEF U!TypeOK, SignOut
<1>8. RowsLimited'
  <2>1. CASE UNCHANGED signedIn
    BY <1>1, <2>1 DEF SignInInv, RowsLimited
  <2>2. CASE signedIn' = <<>>
    BY <1>1, <1>6, <2>2 DEF One, SignInInv, RowsLimited
  <2>3. QED
    BY <1>5, <2>1, <2>2
<1>9. \A t \in Processes : TrackOK(tracker[t])'
  BY <1>1 DEF SignInInv, TrackOK
<1>10. FailuresLimited' /\ (until <= hour + LockTime)'
  BY <1>1, FailuresStay
<1>11. U!SignedOut'
  <2>1. U!LeftAlive' \subseteq U!LeftAlive
    BY <1>1, <1>3, <1>4 DEF U!LeftAlive
  <2>2. QED
    BY <1>1, <2>1, FewerAlive
<1>12. QED
  BY <1>7, <1>8, <1>9, <1>10, <1>11 DEF SignInInv

LEMMA SignOutStep ==
  ASSUME U!AuthAssumption, SignInInv, NEW v \in SignOuts, U!SignOutUser(v)
  PROVE  SignInInv'
<1>1. /\ UNCHANGED <<signedIn, tracker, raced, failed, until, login, hour>> /\ U!TypeOK
      /\ fault \in 0 .. MaxFaults /\ MaxFaults \in Nat /\ live \in SUBSET SignIns /\ revoke[v] \in SignOut
  BY SignInTypes DEF SignInInv, U!SignOutUser, U!lock, U!TypeOK
<1>2. PICK pc \in {"done", "failed"} :
        /\ revoke' = [revoke EXCEPT ![v].pc = pc]
        /\ (pc = "done" /\ live' = live \cap revoke[v].keep /\ UNCHANGED fault)
           \/ (U!Fault /\ UNCHANGED live)
  BY DEF U!SignOutUser
<1>3. PICK d : d = [revoke[v] EXCEPT !.pc = pc]
  OBVIOUS
<1>4. d \in SignOut /\ d.pc = pc /\ d.of = revoke[v].of /\ d.keep = revoke[v].keep
  BY <1>1, <1>2, <1>3, Zenon DEF SignOut
<1>5. revoke' = [revoke EXCEPT ![v] = d]
  BY <1>2, <1>3
<1>6. revoke' \in [SignOuts -> SignOut] /\ \A o \in SignOuts : revoke'[o] = IF o = v THEN d ELSE revoke[o]
  BY <1>1, <1>4, <1>5, SignOutMoves
<1>7. fault' \in 0 .. MaxFaults /\ (fault' = fault \/ U!Fault) /\ live' \in SUBSET live
  BY <1>1, <1>2 DEF U!Fault
<1>8. U!TypeOK'
  BY <1>1, <1>6, <1>7 DEF U!TypeOK, SignOut
<1>9. RowsLimited' /\ \A t \in Processes : TrackOK(tracker[t])'
  BY <1>1, <1>7, SessionsStay
<1>10. FailuresLimited' /\ (until <= hour + LockTime)'
  BY <1>1, <1>7, FailuresStay
<1>11. U!SignedOut'
  <2>1. U!LeftAlive' \subseteq U!LeftAlive \cup {v}
    BY <1>6, <1>7 DEF U!LeftAlive
  <2>2. CASE U!Fault
    BY <2>1, <2>2, OneMoreAlive
  <2>3. CASE pc = "done" /\ live' = live \cap revoke[v].keep /\ UNCHANGED fault
    <3>1. v \notin U!LeftAlive'
      BY <1>4, <1>6, <2>3 DEF U!LeftAlive
    <3>2. U!LeftAlive' \subseteq U!LeftAlive
      BY <2>1, <3>1
    <3>3. QED
      BY <2>3, <3>2, FewerAlive
  <2>4. QED
    BY <1>2, <2>2, <2>3
<1>12. QED
  BY <1>8, <1>9, <1>10, <1>11 DEF SignInInv

\* A login that moves alone.
LEMMA LoginMoves ==
  ASSUME U!AuthAssumption, U!TypeOK, NEW l \in Processes,
         NEW d \in {"idle", "checked", "right", "wrong"}, login' = [login EXCEPT ![l] = d]
  PROVE  /\ login' \in [Processes -> {"idle", "checked", "right", "wrong"}]
         /\ Cardinality(Trying(login)) \in 0 .. Cardinality(Processes)
         /\ Cardinality(Trying(login')) \in 0 .. Cardinality(Processes)
         /\ login[l] \in {"checked", "wrong"} /\ d \in {"idle", "right"} =>
              Cardinality(Trying(login)) = Cardinality(Trying(login')) + 1
         /\ login[l] \in {"checked", "wrong"} /\ d \in {"checked", "wrong"} =>
              Cardinality(Trying(login')) = Cardinality(Trying(login))
         /\ login[l] \in {"idle", "right"} /\ d \in {"idle", "right"} =>
              Cardinality(Trying(login')) = Cardinality(Trying(login))
         /\ Cardinality(Trying(login')) <= Cardinality(Trying(login)) + 1
<1>1. login \in [Processes -> {"idle", "checked", "right", "wrong"}] /\ IsFiniteSet(Processes)
  BY SignInTypes
<1>2. \A o \in Processes : login'[o] = IF o = l THEN d ELSE login[o]
  BY <1>1
<1>3. PICK X \in SUBSET Processes, Y \in SUBSET Processes : X = Trying(login) /\ Y = Trying(login')
  BY DEF Trying
<1>4. X \ {l} = Y \ {l} /\ (l \in X <=> login[l] \in {"checked", "wrong"}) /\ (l \in Y <=> d \in {"checked", "wrong"})
  BY <1>2, <1>3 DEF Trying
<1>5. /\ Cardinality(X) \in 0 .. Cardinality(Processes) /\ Cardinality(Y) \in 0 .. Cardinality(Processes)
      /\ Cardinality(Y) + One(l \in X) = Cardinality(X) + One(l \in Y)
  BY <1>1, <1>4, CountMoves
<1>6. /\ One(l \in X) = IF login[l] \in {"checked", "wrong"} THEN 1 ELSE 0
      /\ One(l \in Y) = IF d \in {"checked", "wrong"} THEN 1 ELSE 0
  BY <1>4 DEF One
<1>7. PICK x \in Nat, y \in Nat : x = Cardinality(X) /\ y = Cardinality(Y)
  BY <1>5
<1>8. /\ login[l] \in {"checked", "wrong"} /\ d \in {"idle", "right"} => x = y + 1
      /\ login[l] \in {"checked", "wrong"} /\ d \in {"checked", "wrong"} => y = x
      /\ login[l] \in {"idle", "right"} /\ d \in {"idle", "right"} => y = x
      /\ y <= x + 1
  BY <1>1, <1>5, <1>6, <1>7
<1>9. login' \in [Processes -> {"idle", "checked", "right", "wrong"}]
  BY <1>1
<1>10. QED
  BY <1>3, <1>5, <1>7, <1>8, <1>9

LEMMA Farther ==
  ASSUME NEW d \in Nat, NEW m \in Int, NEW n \in Int, m >= n + 1
  PROVE  d * m >= d * n + d /\ d * m \in Int /\ d * n \in Int
<1>1. PICK k \in Nat : m = n + 1 + k
  OBVIOUS
<1>2. d * m = d * n + d + d * k /\ d * k \in Nat /\ d * n \in Int
  BY <1>1
<1>3. QED
  BY <1>2

LEMMA Divided ==
  ASSUME NEW b \in Nat, NEW d \in Nat \ {0}
  PROVE  /\ b \div d \in Nat
         /\ d * (b \div d) <= b /\ b < d * (b \div d) + d /\ d * (b \div d) \in Nat
<1>1. PICK r \in Int, y \in Int : r = b \div d /\ y = b % d
  OBVIOUS
<1>2. b = d * r + y /\ 0 <= y /\ y < d /\ d * r \in Int
  BY <1>1
<1>3. r \in Nat
  <2>1. ASSUME r < 0 PROVE FALSE
    BY <1>2, <2>1, Farther
  <2>2. QED
    BY <2>1
<1>4. d * r \in Nat
  BY <1>3
<1>5. QED
  BY <1>1, <1>2, <1>3, <1>4

\* How often a lock can have run out.
LEMMA LocksOf ==
  ASSUME NEW a \in Nat, NEW b \in Nat, NEW d \in Nat \ {0}, NEW p \in Nat
  PROVE  /\ a \div d \in Nat /\ p * (a \div d) \in Nat
         /\ a <= b => p * (a \div d) <= p * (b \div d)
         /\ a <= b + d => p * (a \div d) <= p * (b \div d) + p /\ a \div d <= 1 + b \div d
<1>1. PICK q \in Nat, r \in Nat : q = a \div d /\ r = b \div d
  BY Divided
<1>2. d * q <= a /\ a < d * q + d /\ d * r <= b /\ b < d * r + d /\ d * q \in Nat /\ d * r \in Nat
  BY <1>1, Divided
<1>3. a <= b => q <= r
  <2>1. ASSUME a <= b, q >= r + 1 PROVE FALSE
    BY <1>2, <2>1, Farther
  <2>2. QED
    BY <2>1
<1>4. a <= b + d => q <= 1 + r
  <2>1. ASSUME a <= b + d, q >= (r + 1) + 1 PROVE FALSE
    BY <1>2, <2>1, Farther
  <2>2. QED
    BY <2>1
<1>5. p * (r + 1) = p * r + p /\ p * q \in Nat /\ p * r \in Nat
  OBVIOUS
<1>6. a <= b => p * q <= p * r
  BY <1>3, AllWeighed
<1>7. a <= b + d => p * q <= p * r + p
  BY <1>4, <1>5, AllWeighed
<1>8. QED
  BY <1>1, <1>4, <1>5, <1>6, <1>7

LEMMA LocksAfter ==
  ASSUME NEW b \in Nat, NEW d \in Nat \ {0}, NEW p \in Nat
  PROVE  p * ((b + d) \div d) = p * (b \div d) + p
<1>1. b + d \in Nat
  OBVIOUS
<1>2. PICK r \in Nat, s \in Nat : r = b \div d /\ s = (b + d) \div d
  BY <1>1, Divided
<1>3. /\ d * r <= b /\ b < d * r + d /\ d * s <= b + d /\ b + d < d * s + d
      /\ d * r \in Nat /\ d * s \in Nat
  BY <1>1, <1>2, Divided
<1>4. d * (r + 1) = d * r + d
  OBVIOUS
<1>5. ASSUME s >= (r + 1) + 1 PROVE FALSE
  <2>1. d * s >= d * (r + 1) + d
    BY <1>5, Farther
  <2>2. QED
    BY <1>3, <1>4, <2>1
<1>6. ASSUME r + 1 >= s + 1 PROVE FALSE
  <2>1. d * (r + 1) >= d * s + d
    BY <1>6, Farther
  <2>2. QED
    BY <1>3, <1>4, <2>1
<1>7. s = r + 1
  BY <1>5, <1>6
<1>8. p * (r + 1) = p * r + p
  OBVIOUS
<1>9. QED
  BY <1>2, <1>7, <1>8

\* A step of a login leaves the sessions' rows alone.
LEMMA LoginStays ==
  ASSUME U!AuthAssumption, SignInInv, NEW l \in Processes,
         NEW d \in {"idle", "checked", "right", "wrong"}, login' = [login EXCEPT ![l] = d],
         UNCHANGED <<signedIn, tracker, raced, revoke, hour>>, fault' = fault \/ U!Fault,
         live' \in SUBSET SignIns,
         \A v \in SignOuts : revoke[v].of \cap live' \subseteq revoke[v].of \cap live,
         failed' \in Nat, until' \in Nat, until' <= hour + LockTime, FailuresLimited'
  PROVE  SignInInv'
<1>1. U!TypeOK /\ fault \in 0 .. MaxFaults /\ MaxFaults \in Nat /\ hour \in 0 .. SignInTime
      /\ SignInTime \in Nat /\ LockTime \in Nat
  BY SignInTypes DEF SignInInv, U!TypeOK
<1>2. fault' \in 0 .. MaxFaults /\ until' \in 0 .. SignInTime + LockTime
  BY <1>1 DEF U!Fault
<1>3. login' \in [Processes -> {"idle", "checked", "right", "wrong"}]
  BY <1>1, LoginMoves
<1>4. U!TypeOK'
  BY <1>1, <1>2, <1>3 DEF U!TypeOK
<1>5. RowsLimited' /\ \A t \in Processes : TrackOK(tracker[t])'
  BY SessionsStay
<1>6. U!SignedOut'
  BY AliveStays
<1>7. QED
  BY <1>4, <1>5, <1>6 DEF SignInInv

LEMMA LoginTypes ==
  ASSUME U!AuthAssumption, SignInInv
  PROVE  /\ U!TypeOK /\ fault \in Nat /\ failed \in Nat /\ until \in Nat /\ hour \in Nat
         /\ FailedLimit \in Nat \ {0} /\ LockTime \in Nat \ {0} /\ Cardinality(Processes) \in Nat
         /\ until <= hour + LockTime
         /\ Cardinality(Processes) * (until \div LockTime) \in Nat
         /\ failed + (IF until > hour THEN Cardinality(Trying(login)) ELSE 0)
              <= FailedLimit - 1 + Cardinality(Processes) * (until \div LockTime) + fault
  BY SignInTypes, LocksOf DEF SignInInv, FailuresLimited, U!Locked

LEMMA CheckLockedStep ==
  ASSUME U!AuthAssumption, SignInInv, NEW l \in Processes, U!CheckLocked(l)
  PROVE  SignInInv'
<1>1. /\ login[l] = "idle" /\ login' = [login EXCEPT ![l] = "checked"]
      /\ UNCHANGED <<signedIn, live, tracker, raced, revoke, failed, until, hour>>
      /\ until > hour => U!Fault
      /\ ~(until > hour) => UNCHANGED fault
  BY DEF U!CheckLocked, U!Locked, U!sessions, U!lock
<1>2. PICK n \in Nat, m \in Nat, c \in Nat :
        /\ n = Cardinality(Trying(login)) /\ m = Cardinality(Trying(login'))
        /\ c = Cardinality(Processes) * (until \div LockTime)
        /\ m <= n + 1
  BY <1>1, LoginTypes, LoginMoves, FewUnderWay
<1>3. /\ failed + (IF until > hour THEN n ELSE 0) <= FailedLimit - 1 + c + fault
      /\ fault \in Nat /\ failed \in Nat /\ FailedLimit \in Nat
  BY <1>2, LoginTypes
<1>4. failed + (IF until > hour THEN m ELSE 0) <= FailedLimit - 1 + c + fault'
  <2>1. CASE until > hour
    BY <1>1, <1>2, <1>3, <2>1 DEF U!Fault
  <2>2. CASE ~(until > hour)
    BY <1>1, <1>3, <2>2
  <2>3. QED
    BY <2>1, <2>2
<1>5. FailuresLimited'
  BY <1>1, <1>2, <1>4 DEF FailuresLimited, U!Locked
<1>6. /\ failed \in Nat /\ until \in Nat /\ until <= hour + LockTime /\ live \in SUBSET SignIns
      /\ fault' = fault \/ U!Fault
  BY <1>1, LoginTypes, SignInTypes
<1>7. QED
  BY <1>1, <1>5, <1>6, LoginStays

LEMMA LoginStep ==
  ASSUME U!AuthAssumption, SignInInv, NEW l \in Processes, U!Login(l)
  PROVE  SignInInv'
<1>1. /\ login[l] = "checked" /\ UNCHANGED <<signedIn, tracker, raced, revoke, failed, until, hour, fault>>
      /\ \/ login' = [login EXCEPT ![l] = "wrong"] /\ UNCHANGED live
         \/ \E s \in U!Fresh : login' = [login EXCEPT ![l] = "right"] /\ live' = live \cup {s}
  BY DEF U!Login, U!lock
<1>2. PICK d \in {"right", "wrong"} : login' = [login EXCEPT ![l] = d]
  BY <1>1
<1>3. PICK n \in Nat, m \in Nat, c \in Nat :
        /\ n = Cardinality(Trying(login)) /\ m = Cardinality(Trying(login'))
        /\ c = Cardinality(Processes) * (until \div LockTime)
        /\ m <= n
  <2>1. /\ Cardinality(Trying(login)) \in Nat /\ Cardinality(Trying(login')) \in Nat
    BY <1>1, FewUnderWay
  <2>2. d = "right" => Cardinality(Trying(login)) = Cardinality(Trying(login')) + 1
    BY <1>1, <1>2, LoginTypes, LoginMoves
  <2>3. d = "wrong" => Cardinality(Trying(login)) = Cardinality(Trying(login'))
    BY <1>1, <1>2, LoginTypes, LoginMoves
  <2>4. Cardinality(Trying(login')) <= Cardinality(Trying(login))
    BY <1>2, <2>1, <2>2, <2>3
  <2>5. QED
    BY <2>1, <2>4, LoginTypes
<1>4. /\ failed + (IF until > hour THEN n ELSE 0) <= FailedLimit - 1 + c + fault
      /\ fault \in Nat /\ failed \in Nat /\ FailedLimit \in Nat
  BY <1>3, LoginTypes
<1>5. failed + (IF until > hour THEN m ELSE 0) <= FailedLimit - 1 + c + fault
  BY <1>3, <1>4
<1>6. FailuresLimited'
  BY <1>1, <1>3, <1>5 DEF FailuresLimited, U!Locked
<1>7. /\ failed \in Nat /\ until \in Nat /\ until <= hour + LockTime /\ live \in SUBSET SignIns
  BY <1>1, LoginTypes, SignInTypes
<1>8. /\ live' \in SUBSET SignIns
      /\ \A v \in SignOuts : revoke[v].of \cap live' \subseteq revoke[v].of \cap live
  <2>1. CASE UNCHANGED live
    BY <1>7, <2>1
  <2>2. ASSUME NEW s \in U!Fresh, live' = live \cup {s}
        PROVE  /\ live' \in SUBSET SignIns
               /\ \A v \in SignOuts : revoke[v].of \cap live' \subseteq revoke[v].of \cap live
    BY <1>7, <2>2 DEF U!Fresh
  <2>3. QED
    BY <1>1, <2>1, <2>2
<1>9. QED
  BY <1>1, <1>2, <1>6, <1>7, <1>8, LoginStays

LEMMA RecordFailureStep ==
  ASSUME U!AuthAssumption, SignInInv, NEW l \in Processes, U!RecordFailure(l)
  PROVE  SignInInv'
<1>1. /\ login[l] = "wrong" /\ login' = [login EXCEPT ![l] = "idle"]
      /\ UNCHANGED <<signedIn, live, tracker, raced, revoke, hour>>
      /\ \/ /\ failed' = failed + 1
            /\ until' = IF failed + 1 >= FailedLimit THEN hour + LockTime ELSE until
            /\ UNCHANGED fault
         \/ U!Fault /\ UNCHANGED <<failed, until>>
  BY DEF U!RecordFailure, U!sessions, U!lock
<1>2. PICK n \in Nat, m \in Nat, p \in Nat :
        /\ n = Cardinality(Trying(login)) /\ m = Cardinality(Trying(login'))
        /\ p = Cardinality(Processes) /\ n = m + 1 /\ n <= p
  BY <1>1, FewUnderWay, LoginTypes, LoginMoves
<1>3. PICK c \in Nat : c = p * (until \div LockTime)
  BY <1>2, LoginTypes
<1>4. /\ failed + (IF until > hour THEN n ELSE 0) <= FailedLimit - 1 + c + fault
      /\ fault \in Nat /\ failed \in Nat /\ FailedLimit \in Nat /\ until \in Nat /\ hour \in Nat
      /\ LockTime \in Nat \ {0} /\ until <= hour + LockTime
  BY <1>2, <1>3, LoginTypes
<1>5. CASE failed' = failed + 1 /\ failed + 1 >= FailedLimit /\ until' = hour + LockTime /\ UNCHANGED fault
  <2>1. PICK w \in Nat : w = until' /\ w = hour + LockTime /\ until <= w
    BY <1>4, <1>5
  <2>2. PICK e \in Nat : e = p * (w \div LockTime)
    BY <1>4, LocksOf
  <2>3. c <= e
    BY <1>3, <1>4, <2>1, <2>2, LocksOf
  <2>4. ~(until > hour) => c + p <= e
    <3>1. PICK h \in Nat : h = p * (hour \div LockTime)
      BY <1>4, LocksOf
    <3>2. p * ((hour + LockTime) \div LockTime) = p * (hour \div LockTime) + p
      BY <1>4, LocksAfter
    <3>3. e = h + p
      BY <2>1, <2>2, <3>1, <3>2
    <3>4. until <= hour => p * (until \div LockTime) <= p * (hour \div LockTime)
      BY <1>4, LocksOf
    <3>5. until <= hour => c <= h
      BY <1>3, <3>1, <3>4
    <3>6. QED
      BY <1>4, <3>3, <3>5
  <2>5. failed' + m <= FailedLimit - 1 + e + fault'
    BY <1>2, <1>4, <1>5, <2>3, <2>4
  <2>6. failed' \in Nat /\ until' \in Nat /\ until' <= hour + LockTime /\ fault' = fault
    BY <1>1, <1>4, <1>5, <2>1
  <2>7. failed' <= FailedLimit - 1 + e + fault'
    BY <1>2, <1>4, <2>5, <2>6
  <2>8. FailuresLimited'
    <3>1. Cardinality(Processes) * (until' \div LockTime) = e /\ Cardinality(Trying(login')) = m
      BY <1>2, <2>1, <2>2
    <3>2. failed' + (IF U!Locked' THEN m ELSE 0) <= FailedLimit - 1 + e + fault'
      <4>1. CASE U!Locked'
        BY <2>5, <4>1
      <4>2. CASE ~U!Locked'
        BY <2>6, <2>7, <4>2
      <4>3. QED
        BY <4>1, <4>2
    <3>3. QED
      BY <3>1, <3>2 DEF FailuresLimited
  <2>9. live \in SUBSET SignIns
    BY SignInTypes, LoginTypes
  <2>10. QED
    BY <1>1, <2>6, <2>8, <2>9, LoginStays
<1>6. CASE failed' = failed + 1 /\ ~(failed + 1 >= FailedLimit) /\ until' = until /\ UNCHANGED fault
  <2>1. failed' + (IF until > hour THEN m ELSE 0) <= FailedLimit - 1 + c + fault
    BY <1>2, <1>4, <1>6
  <2>2. FailuresLimited'
    BY <1>1, <1>2, <1>3, <1>6, <2>1 DEF FailuresLimited, U!Locked
  <2>3. live \in SUBSET SignIns /\ failed' \in Nat /\ until' \in Nat /\ until' <= hour + LockTime
    BY <1>4, <1>6, SignInTypes, LoginTypes
  <2>4. QED
    BY <1>1, <1>6, <2>2, <2>3, LoginStays
<1>7. CASE U!Fault /\ UNCHANGED <<failed, until>>
  <2>1. failed' + (IF until > hour THEN m ELSE 0) <= FailedLimit - 1 + c + fault'
    BY <1>2, <1>4, <1>7 DEF U!Fault
  <2>2. FailuresLimited'
    BY <1>1, <1>2, <1>3, <1>7, <2>1 DEF FailuresLimited, U!Locked
  <2>3. QED
    BY <1>1, <1>4, <1>7, <2>2, LoginStays, SignInTypes, LoginTypes
<1>8. QED
  BY <1>1, <1>5, <1>6, <1>7

LEMMA ClearLockoutStep ==
  ASSUME U!AuthAssumption, SignInInv, NEW l \in Processes, U!ClearLockout(l)
  PROVE  SignInInv'
<1>1. /\ login[l] = "right" /\ login' = [login EXCEPT ![l] = "idle"]
      /\ UNCHANGED <<signedIn, live, tracker, raced, revoke, hour>>
      /\ \/ failed' = 0 /\ until' = 0 /\ UNCHANGED fault
         \/ U!Fault /\ UNCHANGED <<failed, until>>
  BY DEF U!ClearLockout, U!sessions, U!lock
<1>2. PICK n \in Nat, c \in Nat :
        /\ n = Cardinality(Trying(login)) /\ n = Cardinality(Trying(login'))
        /\ c = Cardinality(Processes) * (until \div LockTime)
  BY <1>1, FewUnderWay, LoginTypes, LoginMoves
<1>3. /\ failed + (IF until > hour THEN n ELSE 0) <= FailedLimit - 1 + c + fault
      /\ fault \in Nat /\ failed \in Nat /\ FailedLimit \in Nat \ {0} /\ until \in Nat /\ hour \in Nat
      /\ LockTime \in Nat \ {0} /\ until <= hour + LockTime /\ live \in SUBSET SignIns
      /\ Cardinality(Processes) \in Nat
  BY <1>2, LoginTypes, SignInTypes
<1>4. CASE failed' = 0 /\ until' = 0 /\ UNCHANGED fault
  <2>1. PICK e \in Nat : e = Cardinality(Processes) * (until' \div LockTime)
    BY <1>3, <1>4, LocksOf
  <2>2. ~U!Locked' /\ 0 <= FailedLimit - 1 + e + fault
    BY <1>1, <1>3, <1>4, <2>1 DEF U!Locked
  <2>3. FailuresLimited'
    BY <1>4, <2>1, <2>2 DEF FailuresLimited
  <2>4. failed' \in Nat /\ until' \in Nat /\ until' <= hour + LockTime
    BY <1>3, <1>4
  <2>5. QED
    BY <1>1, <1>3, <1>4, <2>3, <2>4, LoginStays
<1>5. CASE U!Fault /\ UNCHANGED <<failed, until>>
  <2>1. failed + (IF until > hour THEN n ELSE 0) <= FailedLimit - 1 + c + fault'
    BY <1>2, <1>3, <1>5 DEF U!Fault
  <2>2. FailuresLimited'
    BY <1>1, <1>2, <1>5, <2>1 DEF FailuresLimited, U!Locked
  <2>3. QED
    BY <1>1, <1>3, <1>5, <2>2, LoginStays
<1>6. QED
  BY <1>1, <1>4, <1>5

LEMMA SignInTick ==
  ASSUME U!AuthAssumption, SignInInv, U!Tick
  PROVE  SignInInv'
<1>1. /\ hour < SignInTime /\ hour' = hour + 1
      /\ UNCHANGED <<signedIn, live, tracker, raced, revoke, failed, until, login, fault>>
      /\ SignInTime \in Nat /\ hour \in 0 .. SignInTime /\ U!TypeOK
  BY SignInTypes DEF SignInInv, U!Tick, U!sessions, U!lock, U!TypeOK
<1>2. PICK n \in Nat, c \in Nat :
        n = Cardinality(Trying(login)) /\ c = Cardinality(Processes) * (until \div LockTime)
  BY FewUnderWay, LoginTypes
<1>3. /\ failed + (IF until > hour THEN n ELSE 0) <= FailedLimit - 1 + c + fault
      /\ fault \in Nat /\ failed \in Nat /\ FailedLimit \in Nat \ {0} /\ until \in Nat /\ hour \in Nat
      /\ LockTime \in Nat \ {0} /\ until <= hour + LockTime
  BY <1>2, LoginTypes
<1>4. failed + (IF until > hour' THEN n ELSE 0) <= FailedLimit - 1 + c + fault
  BY <1>1, <1>2, <1>3
<1>5. FailuresLimited'
  BY <1>1, <1>2, <1>4 DEF FailuresLimited, U!Locked
<1>6. hour' \in 0 .. SignInTime /\ until <= hour' + LockTime
  BY <1>1, <1>3
<1>7. U!TypeOK'
  BY <1>1, <1>6 DEF U!TypeOK
<1>8. RowsLimited' /\ \A t \in Processes : TrackOK(tracker[t])'
  BY <1>1, SessionsStay
<1>9. U!SignedOut'
  BY <1>1, AliveStays
<1>10. QED
  BY <1>1, <1>5, <1>6, <1>7, <1>8, <1>9 DEF SignInInv

LEMMA SignInNext ==
  ASSUME U!AuthAssumption, SignInInv, U!Next
  PROVE  SignInInv'
<1>1. ASSUME NEW l \in Processes,
             U!CheckLocked(l) \/ U!Login(l) \/ U!RecordFailure(l) \/ U!ClearLockout(l)
      PROVE  SignInInv'
  BY <1>1, CheckLockedStep, LoginStep, RecordFailureStep, ClearLockoutStep
<1>2. ASSUME NEW t \in Processes,
             U!Oldest(t) \/ U!DeleteOldest(t) \/ U!InsertSession(t) \/ U!TrackFails(t)
      PROVE  SignInInv'
  BY <1>2, OldestStep, DeleteOldestStep, InsertStep
<1>3. ASSUME NEW t \in Processes, NEW s \in SignIns, U!CountSessions(t, s)
      PROVE  SignInInv'
  BY <1>3, CountSessionsStep
<1>4. ASSUME NEW s \in SignIns, U!UpdateLastActive(s)
      PROVE  SignInInv'
  BY <1>4, SignOutLists DEF U!UpdateLastActive, U!lock
<1>5. ASSUME NEW s \in SignIns, U!RevokeSession(s)
      PROVE  SignInInv'
  <2>1. /\ s \in U!Range(U!ListSessions) /\ signedIn' = U!Without(s)
        /\ UNCHANGED <<live, tracker, raced, revoke, failed, until, login, hour, fault>>
    BY <1>5 DEF U!RevokeSession, U!lock
  <2>2. U!Range(U!ListSessions) \subseteq U!Range(signedIn)
    <3>1. PICK n \in Nat : n = Len(signedIn)
      BY LoginTypes, SignInTypes
    <3>2. DOMAIN signedIn = 1 .. n
      BY <3>1, LoginTypes DEF U!TypeOK
    <3>3. U!ListSessions = [i \in 1 .. n |-> signedIn[(n - i) + 1]]
      BY <3>1 DEF U!ListSessions, U!ListSessions
    <3>4. \A i \in 1 .. n : (n - i) + 1 \in 1 .. n
      OBVIOUS
    <3>5. QED
      BY <3>2, <3>3, <3>4 DEF U!Range
  <2>3. QED
    BY <2>1, <2>2, SignOutLists
<1>6. ASSUME NEW s \in SignIns, U!Logout(s)
      PROVE  SignInInv'
  BY <1>6, LogoutStep
<1>7. ASSUME NEW v \in SignOuts,
             U!RevokeAll(v) \/ U!SignOutUser(v) \/ \E s \in SignIns : U!UpdatePassword(v, s)
      PROVE  SignInInv'
  BY <1>7, SignOutBegins, SignOutStep
<1>8. QED
  BY <1>1, <1>2, <1>3, <1>4, <1>5, <1>6, <1>7, SignInTick DEF U!Next

LEMMA SignInInit ==
  ASSUME U!AuthAssumption, U!Init
  PROVE  SignInInv
<1>1. /\ signedIn = <<>> /\ live \in SUBSET SignIns /\ tracker = [t \in Processes |-> U!Rest]
      /\ revoke = [v \in SignOuts |-> [pc |-> "idle", of |-> {}, keep |-> {}]]
      /\ failed = 0 /\ until = 0 /\ login = [l \in Processes |-> "idle"] /\ hour = 0 /\ fault = 0 /\ raced = 0
  BY DEF U!Init
<1>2. /\ {FailedLimit, LockTime, SessionLimit} \subseteq Nat \ {0}
      /\ {SignInTime, MaxFaults, MaxRaces} \subseteq Nat
  BY DEF U!AuthAssumption
<1>3. U!Rest \in Tracked /\ U!Rest.pc = "idle" /\ TrackOK(U!Rest)
  BY RestTracked
<1>4. U!TypeOK
  BY <1>1, <1>2, <1>3 DEF U!IsInjective, SignOut, U!TypeOK, Tracked
<1>5. RowsLimited
  <2>1. UnderWay(tracker) = {}
    BY <1>1, <1>3 DEF UnderWay
  <2>2. Cardinality(UnderWay(tracker)) = 0 /\ Len(signedIn) = 0 /\ One(Room(tracker, signedIn)) \in {0, 1}
    BY <1>1, <2>1, FS_EmptySet DEF One
  <2>3. QED
    BY <1>1, <1>2, <2>2 DEF RowsLimited
<1>6. FailuresLimited /\ until <= hour + LockTime
  <2>1. ~U!Locked
    BY <1>1 DEF U!Locked
  <2>2. Cardinality(Processes) * (until \div LockTime) \in Nat
    BY <1>1, <1>2, <1>4, LocksOf, SignInTypes
  <2>3. QED
    BY <1>1, <1>2, <2>1, <2>2 DEF FailuresLimited
<1>7. \A t \in Processes : TrackOK(tracker[t])
  BY <1>1, <1>3
<1>8. U!SignedOut
  <2>1. U!LeftAlive = {}
    BY <1>1 DEF U!LeftAlive
  <2>2. QED
    BY <1>1, <2>1, AliveCount, FS_EmptySet DEF U!SignedOut
<1>9. QED
  BY <1>4, <1>5, <1>6, <1>7, <1>8 DEF SignInInv

LEMMA SignInHolds ==
  ASSUME U!AuthAssumption, SignInInv
  PROVE  U!LimitsHold
<1>1. U!TypeOK /\ U!SignedOut
  BY DEF SignInInv
<1>2. U!SessionsBounded
  <2>1. PICK u \in Nat : u = Cardinality(UnderWay(tracker))
    BY FewUnderWay
  <2>2. Room(tracker, signedIn) => u > 0
    <3>1. ASSUME NEW t \in Processes, MakesRoom(tracker[t], signedIn)
          PROVE  u > 0
      <4>1. t \in UnderWay(tracker)
        BY <3>1 DEF UnderWay, MakesRoom
      <4>2. IsFiniteSet(UnderWay(tracker))
        BY <1>1, SignInTypes, FS_Subset DEF UnderWay
      <4>3. Cardinality(UnderWay(tracker)) # 0
        BY <4>1, <4>2, FS_EmptySet
      <4>4. QED
        BY <2>1, <4>3
    <3>2. QED
      BY <3>1 DEF Room
  <2>3. One(Room(tracker, signedIn)) <= u /\ One(Room(tracker, signedIn)) \in {0, 1}
    BY <2>1, <2>2 DEF One
  <2>4. /\ Len(signedIn) \in Nat /\ SessionLimit \in Nat /\ raced \in Nat /\ fault \in Nat
        /\ Len(signedIn) + u <= SessionLimit + raced + fault + One(Room(tracker, signedIn))
    BY <1>1, <2>1, SignInTypes DEF SignInInv, RowsLimited
  <2>5. QED
    BY <2>1, <2>3, <2>4 DEF U!SessionsBounded
<1>3. U!AttemptsBounded
  <2>1. /\ fault \in Nat /\ failed \in Nat /\ until \in Nat /\ hour \in Nat
        /\ FailedLimit \in Nat \ {0} /\ LockTime \in Nat \ {0} /\ Cardinality(Processes) \in Nat
        /\ until <= hour + LockTime
    BY LoginTypes
  <2>2. PICK n \in Nat, p \in Nat : n = Cardinality(Trying(login)) /\ p = Cardinality(Processes)
    BY <2>1, FewUnderWay
  <2>3. PICK c \in Nat, e \in Nat : c = p * (until \div LockTime) /\ e = p * (hour \div LockTime)
    BY <2>1, <2>2, LocksOf
  <2>4. failed <= FailedLimit - 1 + c + fault
    BY <2>1, <2>2, <2>3, LoginTypes
  <2>5. c <= e + p
    BY <2>1, <2>2, <2>3, LocksOf
  <2>6. p * (1 + hour \div LockTime) = e + p
    <3>1. hour \div LockTime \in Nat
      BY <2>1, LocksOf
    <3>2. PICK k \in Nat : k = hour \div LockTime
      BY <3>1
    <3>3. p * (1 + k) = p * k + p
      BY <2>2, <3>2
    <3>4. QED
      BY <2>3, <3>2, <3>3
  <2>7. U!Cardinality(Processes) = p
    BY <2>2, Zenon DEF U!Cardinality, Cardinality
  <2>8. failed <= FailedLimit - 1 + p * (1 + hour \div LockTime) + fault
    BY <2>1, <2>2, <2>3, <2>4, <2>5, <2>6
  <2>9. QED
    BY <2>7, <2>8 DEF U!AttemptsBounded
<1>4. QED
  BY <1>1, <1>2, <1>3 DEF U!LimitsHold
-------------------------------------------------------------------------------
(* The rates of a minute.                                                   *)

Passing == [at : Nat, n : Nat]
Entered == [at : Nat, n : Nat, counted : BOOLEAN]
Histories == [bucket : [Clientele -> SUBSET Passing], window : [Clientele -> SUBSET Passing],
              redis : SUBSET Entered]

\* What a bucket holds by now, and what it has let through after a time.
Level(k) == IF k \in DOMAIN buckets THEN R!Filled(buckets[k]) ELSE R!Full
After(k, u) == Cardinality(R!Since(passed.bucket[k], u))

\* What was let through after a time came from what the bucket may hold and has
\* gained since; and what it lacks was let through, or lacked before.
BucketKept(k) ==
  /\ Level(k) \in 0 .. R!Full
  /\ \A u \in hour - MinuteTicks .. hour :
       /\ MinuteTicks * After(k, u) + Level(k) <= R!Full + (hour - u) * BucketRpm
       /\ \/ R!Full - Level(k) <= MinuteTicks * After(k, u)
          \/ R!Full - Level(k) <= MinuteTicks * After(k, u) + (R!Full - (hour - u) * BucketRpm)

\* Those of one time have numbers below their count.
Told(requests) == \A e \in requests : e.n < Cardinality({f \in requests : f.at = e.at})
Lately(requests) == \A e \in requests : hour - MinuteTicks < e.at /\ e.at <= hour

BucketsInv ==
  \A k \in Clientele :
    /\ IsFiniteSet(passed.bucket[k]) /\ Told(passed.bucket[k]) /\ Lately(passed.bucket[k])
    /\ BucketKept(k)

WindowsInv ==
  /\ \A k \in DOMAIN windows : \A e \in windows[k] : e.at \in Nat
  /\ \A k \in Clientele :
       /\ passed.window[k] = IF k \in DOMAIN windows THEN R!Valid(windows[k]) ELSE {}
       /\ IsFiniteSet(passed.window[k]) /\ Cardinality(passed.window[k]) <= WindowLimit

\* Who has counted and is about to add.
Adding(workers) == {w \in Processes : workers[w].pc = "add"}
Uncounted(entries) == {e \in entries : e.counted = FALSE}
EntriesInv ==
  /\ zset \in SUBSET Passing /\ IsFiniteSet(zset) /\ IsFiniteSet(passed.redis) /\ Lately(passed.redis)
  /\ \A e \in passed.redis : e.counted = TRUE => [at |-> e.at, n |-> e.n] \in zset
  /\ Cardinality(Uncounted(passed.redis)) <= fault + merged
  /\ Cardinality(passed.redis) + Cardinality(Adding(worker))
       <= BurstMax - 1 + Cardinality(Processes) + fault + merged

RatesInv == R!TypeOK /\ passed \in Histories /\ BucketsInv /\ WindowsInv /\ EntriesInv

LEMMA RateTypes ==
  ASSUME R!RateLimitsAssumption
  PROVE  /\ MinuteTicks \in Nat \ {0} /\ BucketRpm \in Nat \ {0} /\ WindowLimit \in Nat \ {0}
         /\ BurstMax \in Nat \ {0} /\ BucketOld \in Nat /\ BucketOld >= MinuteTicks
         /\ RateTime \in Nat /\ MaxFaults \in Nat /\ Processes # {} /\ IsFiniteSet(Processes)
         /\ Cardinality(Processes) \in Nat /\ R!Full \in Nat /\ R!Full = BucketRpm * MinuteTicks
         /\ R!Full >= MinuteTicks
<1>1. /\ {MinuteTicks, BucketRpm, WindowLimit, BurstMax} \subseteq Nat \ {0} /\ BucketOld \in Nat
      /\ BucketOld >= MinuteTicks /\ {RateTime, MaxFaults} \subseteq Nat /\ Processes # {}
  BY DEF R!RateLimitsAssumption
<1>2. IsFiniteSet(Processes)
  BY Zenon DEF R!RateLimitsAssumption, R!IsFiniteSet, IsFiniteSet
<1>3. Cardinality(Processes) \in Nat
  BY <1>2, FS_CardinalityType
<1>4. R!Full = BucketRpm * MinuteTicks
  BY DEF R!Full
<1>5. PICK m \in Nat : BucketRpm = m + 1
  <2>1. BucketRpm - 1 \in Nat /\ BucketRpm = (BucketRpm - 1) + 1
    BY <1>1
  <2>2. QED
    BY <2>1
<1>6. (m + 1) * MinuteTicks = m * MinuteTicks + MinuteTicks /\ m * MinuteTicks \in Nat
  BY <1>1
<1>7. R!Full \in Nat /\ R!Full >= MinuteTicks
  BY <1>1, <1>4, <1>5, <1>6
<1>8. QED
  BY <1>1, <1>2, <1>3, <1>4, <1>7

LEMMA RateState ==
  ASSUME R!RateLimitsAssumption, RatesInv
  PROVE  /\ DOMAIN buckets \subseteq Clientele /\ DOMAIN windows \subseteq Clientele
         /\ \A k \in DOMAIN buckets : buckets[k] \in [tokens : 0 .. R!Full, lastFill : 0 .. hour]
         /\ worker \in [Processes -> [pc : {"idle", "count", "add", "refused"}, at : 0 .. hour]]
         /\ hour \in Nat /\ fault \in Nat /\ merged \in Nat
         /\ \A k \in Clientele : passed.bucket[k] \in SUBSET Passing /\ passed.window[k] \in SUBSET Passing
         /\ passed.redis \in SUBSET Entered
         /\ \A k \in Clientele, u \in Int : After(k, u) \in Nat
<1>1. /\ DOMAIN buckets \subseteq Clientele /\ DOMAIN windows \subseteq Clientele
      /\ \A k \in DOMAIN buckets : buckets[k] \in [tokens : 0 .. R!Full, lastFill : 0 .. hour]
      /\ worker \in [Processes -> [pc : {"idle", "count", "add", "refused"}, at : 0 .. hour]]
      /\ hour \in 0 .. RateTime /\ fault \in 0 .. MaxFaults /\ merged \in 0 .. MaxFaults
  BY DEF RatesInv, R!TypeOK
<1>2. RateTime \in Nat /\ MaxFaults \in Nat
  BY RateTypes
<1>3. hour \in Nat /\ fault \in Nat /\ merged \in Nat
  BY <1>1, <1>2
<1>4. /\ \A k \in Clientele : passed.bucket[k] \in SUBSET Passing /\ passed.window[k] \in SUBSET Passing
      /\ passed.redis \in SUBSET Entered
  BY DEF RatesInv, Histories
<1>5. \A k \in Clientele, u \in Int : After(k, u) \in Nat
  <2>1. TAKE k \in Clientele, u \in Int
  <2>2. IsFiniteSet(passed.bucket[k]) /\ R!Since(passed.bucket[k], u) \in SUBSET passed.bucket[k]
    BY DEF RatesInv, BucketsInv, R!Since
  <2>3. IsFiniteSet(R!Since(passed.bucket[k], u))
    BY <2>2, FS_Subset
  <2>4. QED
    BY <2>3, FS_CardinalityType DEF After
<1>6. QED
  BY <1>1, <1>3, <1>4, <1>5

\* A number for one that is new.
LEMMA NewNumber ==
  ASSUME NEW requests \in SUBSET Passing, IsFiniteSet(requests), Told(requests), NEW t \in Nat,
         NEW e, e = R!Numbered(requests, t)
  PROVE  /\ e \in Passing /\ e.at = t /\ e \notin requests
         /\ requests \cup {e} \in SUBSET Passing /\ IsFiniteSet(requests \cup {e})
         /\ Told(requests \cup {e})
<1>1. PICK same \in SUBSET requests : same = {f \in requests : f.at = t}
  OBVIOUS
<1>2. IsFiniteSet(same) /\ Cardinality(same) \in Nat
  BY <1>1, FS_Subset, FS_CardinalityType
<1>3. e = [at |-> t, n |-> Cardinality(same)]
  BY <1>1 DEF R!Cardinality, Cardinality, R!Numbered
<1>4. e \in Passing /\ e.at = t /\ e.n = Cardinality(same)
  BY <1>2, <1>3 DEF Passing
<1>5. e \notin requests
  <2>1. ASSUME e \in requests PROVE FALSE
    BY <1>1, <1>2, <1>4, <2>1 DEF Told
  <2>2. QED
    BY <2>1
<1>6. IsFiniteSet(requests \cup {e})
  BY FS_AddElement
<1>7. Told(requests \cup {e})
  <2>1. SUFFICES ASSUME NEW g \in requests \cup {e}
                 PROVE  g.n < Cardinality({f \in requests \cup {e} : f.at = g.at})
    BY DEF Told
  <2>2. CASE g.at = t
    <3>1. {f \in requests \cup {e} : f.at = g.at} = same \cup {e}
      BY <1>1, <1>4, <2>2
    <3>2. Cardinality(same \cup {e}) = Cardinality(same) + 1
      BY <1>1, <1>2, <1>5, FS_AddElement
    <3>3. g \in requests => g.n < Cardinality(same) /\ g.n \in Nat
      BY <1>1, <2>2 DEF Told, Passing
    <3>4. PICK c \in Nat : c = Cardinality(same)
      BY <1>2
    <3>5. g.n < c + 1
      <4>1. CASE g = e
        BY <1>4, <3>4, <4>1
      <4>2. CASE g \in requests
        BY <3>3, <3>4, <4>2
      <4>3. QED
        BY <4>1, <4>2
    <3>6. QED
      BY <3>1, <3>2, <3>4, <3>5
  <2>3. CASE g.at # t
    BY <1>4, <2>3 DEF Told
  <2>4. QED
    BY <2>2, <2>3
<1>8. QED
  BY <1>4, <1>5, <1>6, <1>7

\* What is forgotten goes with all of its time.
LEMMA ToldSince ==
  ASSUME NEW requests, Told(requests), IsFiniteSet(requests), NEW u
  PROVE  Told(R!Since(requests, u)) /\ IsFiniteSet(R!Since(requests, u))
<1>1. IsFiniteSet(R!Since(requests, u))
  BY FS_Subset DEF R!Since
<1>2. ASSUME NEW e \in R!Since(requests, u)
      PROVE  e.n < Cardinality({f \in R!Since(requests, u) : f.at = e.at})
  BY DEF R!Since, Told
<1>3. QED
  BY <1>1, <1>2 DEF Told

LEMMA OneMoreTime == ASSUME NEW x \in Int, NEW r \in Int PROVE (x + 1) * r = x * r + r /\ x * r \in Int
OBVIOUS

LEMMA BucketsStay ==
  ASSUME BucketsInv, \A k \in Clientele : Level(k)' = Level(k), passed'.bucket = passed.bucket, hour' = hour
  PROVE  BucketsInv'
<1>1. SUFFICES ASSUME NEW k \in Clientele
               PROVE  /\ IsFiniteSet(passed'.bucket[k]) /\ Told(passed.bucket[k])' /\ Lately(passed.bucket[k])'
                      /\ BucketKept(k)'
  BY DEF BucketsInv
<1>2. /\ IsFiniteSet(passed.bucket[k]) /\ Told(passed.bucket[k]) /\ Lately(passed.bucket[k])
      /\ BucketKept(k)
  BY DEF BucketsInv
<1>3. \A u : After(k, u)' = After(k, u)
  BY DEF After, R!Since
<1>4. R!Full' = R!Full
  BY DEF R!Full
<1>5. BucketKept(k)'
  BY <1>2, <1>3, <1>4 DEF BucketKept
<1>6. Told(passed.bucket[k])' /\ Lately(passed.bucket[k])'
  BY <1>2 DEF Told, Lately
<1>7. QED
  BY <1>2, <1>5, <1>6

\* What a filling bucket gains in a tick.
LEMMA FilledLater ==
  ASSUME R!RateLimitsAssumption, RatesInv, NEW k \in Clientele, buckets' = buckets, hour' = hour + 1
  PROVE  /\ Level(k) \in 0 .. R!Full /\ Level(k)' \in 0 .. R!Full
         /\ Level(k)' <= Level(k) + BucketRpm
         /\ Level(k)' = R!Full \/ Level(k)' = Level(k) + BucketRpm
<1>1. /\ R!Full \in Nat /\ R!Full' = R!Full /\ BucketRpm \in Nat /\ hour \in Nat
  BY RateTypes, RateState DEF R!Full
<1>2. Level(k) \in 0 .. R!Full
  BY DEF RatesInv, BucketsInv, BucketKept
<1>3. CASE k \notin DOMAIN buckets
  BY <1>1, <1>2, <1>3 DEF Level
<1>4. CASE k \in DOMAIN buckets
  <2>1. PICK b \in [tokens : 0 .. R!Full, lastFill : 0 .. hour] : b = buckets[k]
    BY <1>4, RateState
  <2>2. PICK t \in Nat, l \in Nat : t = b.tokens /\ l = b.lastFill
    BY <1>1, <2>1
  <2>3. PICK x \in Int : x = (hour - l) * BucketRpm /\ x + BucketRpm = (hour + 1 - l) * BucketRpm
    BY <1>1, <2>2, OneMoreTime
  <2>4. Level(k) = (IF t + x > R!Full THEN R!Full ELSE t + x)
    BY <1>4, <2>1, <2>2, <2>3 DEF Level, R!Filled
  <2>5. Level(k)' = (IF t + (x + BucketRpm) > R!Full THEN R!Full ELSE t + (x + BucketRpm))
    BY <1>1, <1>4, <2>1, <2>2, <2>3 DEF Level, R!Filled
  <2>6. QED
    BY <1>1, <1>2, <2>2, <2>3, <2>4, <2>5
<1>5. QED
  BY <1>3, <1>4

LEMMA BucketsLater ==
  ASSUME R!RateLimitsAssumption, RatesInv, R!Tick
  PROVE  BucketsInv'
<1>1. /\ MinuteTicks \in Nat \ {0} /\ R!Full \in Nat /\ R!Full' = R!Full /\ BucketRpm \in Nat /\ hour \in Nat
  BY RateTypes, RateState DEF R!Full
<1>2. /\ buckets' = buckets /\ hour' = hour + 1
      /\ \A k \in Clientele : passed'.bucket[k] = R!Since(passed.bucket[k], hour + 1 - MinuteTicks)
  BY DEF R!Tick
<1>3. SUFFICES ASSUME NEW k \in Clientele
               PROVE  /\ IsFiniteSet(passed'.bucket[k]) /\ Told(passed.bucket[k])' /\ Lately(passed.bucket[k])'
                      /\ BucketKept(k)'
  BY DEF BucketsInv
<1>4. PICK old \in SUBSET Passing : /\ old = passed.bucket[k] /\ IsFiniteSet(old) /\ Told(old) /\ Lately(old)
                                    /\ BucketKept(k)
  BY RateState DEF RatesInv, BucketsInv
<1>5. PICK new : new = passed'.bucket[k] /\ new = R!Since(old, hour + 1 - MinuteTicks)
  BY <1>2, <1>4
<1>6. IsFiniteSet(new) /\ Told(new)
  BY <1>4, <1>5, ToldSince
<1>7. \A e \in new : hour + 1 - MinuteTicks < e.at /\ e.at <= hour
  BY <1>1, <1>4, <1>5 DEF R!Since, Lately, Passing
<1>8. Lately(passed.bucket[k])' /\ Told(passed.bucket[k])'
  <2>1. new \in SUBSET Passing
    BY <1>4, <1>5 DEF R!Since
  <2>2. \A e \in new : hour' - MinuteTicks < e.at /\ e.at <= hour'
    BY <1>1, <1>2, <1>7, <2>1 DEF Passing
  <2>3. QED
    BY <1>5, <1>6, <2>2 DEF Lately, Told
<1>9. Level(k) \in 0 .. R!Full /\ Level(k)' \in 0 .. R!Full
      /\ Level(k)' <= Level(k) + BucketRpm /\ (Level(k)' = R!Full \/ Level(k)' = Level(k) + BucketRpm)
  BY <1>2, FilledLater
<1>10. ASSUME NEW u \in hour' - MinuteTicks .. hour'
       PROVE  /\ (MinuteTicks * After(k, u)' + Level(k)' <= R!Full + (hour' - u) * BucketRpm)
              /\ \/ R!Full - Level(k)' <= MinuteTicks * After(k, u)'
                 \/ R!Full - Level(k)' <= MinuteTicks * After(k, u)' + (R!Full - (hour' - u) * BucketRpm)
  <2>1. u \in Int /\ After(k, u)' = Cardinality(R!Since(new, u))
    BY <1>1, <1>2, <1>5 DEF After, R!Since
  <2>2. CASE u = hour + 1
    <3>1. R!Since(new, u) = {}
      <4>1. ASSUME NEW e \in R!Since(new, u) PROVE FALSE
        <5>1. e \in new /\ e.at > u
          BY <4>1 DEF R!Since
        <5>2. e.at \in Nat
          BY <1>4, <1>5, <5>1 DEF R!Since, Passing
        <5>3. QED
          BY <1>1, <1>7, <2>2, <5>1, <5>2
      <4>2. QED
        BY <4>1
    <3>2. After(k, u)' = 0 /\ MinuteTicks * 0 = 0 /\ (hour' - u) * BucketRpm = 0
      <4>1. After(k, u)' = 0
        BY <2>1, <3>1, FS_EmptySet
      <4>2. hour' - u = 0 /\ MinuteTicks * 0 = 0 /\ 0 * BucketRpm = 0
        BY <1>1, <1>2, <2>2
      <4>3. QED
        BY <4>1, <4>2
    <3>3. QED
      BY <1>1, <1>9, <3>2
  <2>3. CASE u <= hour
    <3>1. u \in hour - MinuteTicks .. hour
      BY <1>1, <1>2, <2>1, <2>3
    <3>2. R!Since(new, u) = R!Since(old, u)
      BY <1>1, <1>2, <1>4, <1>5, <2>1 DEF R!Since, Passing
    <3>3. After(k, u)' = After(k, u) /\ After(k, u) \in Nat
      BY <1>4, <2>1, <3>2, RateState DEF After
    <3>4. PICK a \in Nat : a = MinuteTicks * After(k, u)
      BY <1>1, <3>3
    <3>5. PICK x \in Int : x = (hour - u) * BucketRpm /\ (hour' - u) * BucketRpm = x + BucketRpm
      BY <1>1, <1>2, <2>1, OneMoreTime
    <3>6. /\ a + Level(k) <= R!Full + x
          /\ (R!Full - Level(k) <= a \/ R!Full - Level(k) <= a + (R!Full - x))
      BY <1>4, <3>1, <3>4, <3>5 DEF BucketKept
    <3>7. /\ a + Level(k)' <= R!Full + (x + BucketRpm)
          /\ (R!Full - Level(k)' <= a \/ R!Full - Level(k)' <= a + (R!Full - (x + BucketRpm)))
      <4>1. PICK f \in Nat, g \in Nat : f = Level(k) /\ g = Level(k)' /\ f <= R!Full /\ g <= R!Full
                                     /\ (g = R!Full \/ g = f + BucketRpm)
        BY <1>1, <1>9
      <4>2. a + g <= R!Full + (x + BucketRpm)
        BY <1>1, <1>9, <3>6, <4>1
      <4>3. R!Full - g <= a \/ R!Full - g <= a + (R!Full - (x + BucketRpm))
        BY <1>1, <3>6, <4>1
      <4>4. QED
        BY <4>1, <4>2, <4>3
    <3>8. QED
      BY <3>3, <3>4, <3>5, <3>7
  <2>4. QED
    BY <1>1, <1>2, <2>1, <2>2, <2>3
<1>11. BucketKept(k)'
  BY <1>1, <1>9, <1>10 DEF BucketKept
<1>12. QED
  BY <1>5, <1>6, <1>8, <1>11

LEMMA BucketsAsked ==
  ASSUME R!RateLimitsAssumption, RatesInv, NEW k \in Clientele, R!AllowByBucket(k)
  PROVE  BucketsInv'
<1>1. /\ MinuteTicks \in Nat \ {0} /\ R!Full \in Nat /\ R!Full' = R!Full /\ BucketRpm \in Nat /\ hour \in Nat
      /\ hour' = hour
  BY RateTypes, RateState DEF R!Full, R!AllowByBucket
<1>2. PICK f \in 0 .. R!Full : f = Level(k)
  BY DEF RatesInv, BucketsInv, BucketKept
<1>3. PICK allowed \in BOOLEAN : (allowed = TRUE) <=> (f >= MinuteTicks)
  OBVIOUS
<1>4. PICK t \in 0 .. R!Full : t = IF allowed THEN f - MinuteTicks ELSE f
  BY <1>1, <1>2, <1>3
<1>5. /\ buckets' = [a \in DOMAIN buckets \cup {k} |->
                       IF a # k THEN buckets[a] ELSE [tokens |-> t, lastFill |-> hour]]
      /\ passed' = IF allowed
                     THEN [passed EXCEPT !.bucket[k] = @ \cup {R!Numbered(passed.bucket[k], hour)}] ELSE passed
  BY <1>1, <1>2, <1>3, <1>4 DEF R!AllowByBucket, Level
<1>6. PICK old \in SUBSET Passing : /\ old = passed.bucket[k] /\ IsFiniteSet(old) /\ Told(old) /\ Lately(old)
                                    /\ BucketKept(k)
  BY RateState DEF RatesInv, BucketsInv
<1>7. PICK new \in SUBSET Passing :
        new = IF allowed THEN old \cup {R!Numbered(old, hour)} ELSE old
  BY <1>1, <1>6, NewNumber
<1>8. passed'.bucket[k] = new /\ \A a \in Clientele \ {k} : passed'.bucket[a] = passed.bucket[a]
  <2>1. passed \in Histories
    BY DEF RatesInv
  <2>2. QED
    BY <1>5, <1>6, <1>7, <2>1 DEF Histories
<1>9. ASSUME NEW a \in Clientele \ {k}
      PROVE  /\ IsFiniteSet(passed'.bucket[a]) /\ Told(passed.bucket[a])' /\ Lately(passed.bucket[a])'
             /\ BucketKept(a)'
  <2>1. /\ IsFiniteSet(passed.bucket[a]) /\ Told(passed.bucket[a]) /\ Lately(passed.bucket[a])
        /\ BucketKept(a)
    BY DEF RatesInv, BucketsInv
  <2>2. passed'.bucket[a] = passed.bucket[a] /\ Level(a)' = Level(a)
    BY <1>1, <1>5, <1>8 DEF Level, R!Filled
  <2>3. \A u : After(a, u)' = After(a, u)
    BY <2>2 DEF After, R!Since
  <2>4. BucketKept(a)'
    BY <1>1, <2>1, <2>2, <2>3 DEF BucketKept
  <2>5. QED
    BY <1>1, <2>1, <2>2, <2>4 DEF Told, Lately
<1>10. Level(k)' = t
  <2>1. k \in DOMAIN buckets' /\ buckets'[k] = [tokens |-> t, lastFill |-> hour]
    BY <1>5
  <2>2. t + (hour - hour) * BucketRpm = t /\ ~(t > R!Full)
    BY <1>1
  <2>3. QED
    BY <1>1, <2>1, <2>2 DEF Level, R!Filled
<1>11. CASE allowed = FALSE
  <2>1. new = old /\ t = f
    BY <1>4, <1>7, <1>11
  <2>2. \A u : After(k, u)' = After(k, u)
    BY <1>6, <1>8, <2>1 DEF After, R!Since
  <2>3. BucketKept(k)'
    BY <1>1, <1>2, <1>6, <1>10, <2>1, <2>2 DEF BucketKept
  <2>4. IsFiniteSet(passed'.bucket[k]) /\ Told(passed.bucket[k])' /\ Lately(passed.bucket[k])'
    BY <1>1, <1>6, <1>8, <2>1 DEF Told, Lately
  <2>5. QED
    BY <1>9, <2>3, <2>4 DEF BucketsInv
<1>12. CASE allowed = TRUE
  <2>1. f >= MinuteTicks /\ t = f - MinuteTicks
    BY <1>3, <1>4, <1>12
  <2>2. PICK e : /\ e = R!Numbered(old, hour) /\ e \in Passing /\ e.at = hour /\ e \notin old /\ new = old \cup {e}
                 /\ IsFiniteSet(new) /\ Told(new)
    <3>1. PICK e : e = R!Numbered(old, hour) /\ new = old \cup {e}
      BY <1>7, <1>12
    <3>2. QED
      BY <1>1, <1>6, <3>1, NewNumber
  <2>3. Lately(passed.bucket[k])' /\ IsFiniteSet(passed'.bucket[k]) /\ Told(passed.bucket[k])'
    BY <1>1, <1>6, <1>8, <2>2 DEF Lately, Told
  <2>4. ASSUME NEW u \in hour' - MinuteTicks .. hour'
        PROVE  /\ (MinuteTicks * After(k, u)' + t <= R!Full + (hour' - u) * BucketRpm)
               /\ \/ R!Full - t <= MinuteTicks * After(k, u)'
                  \/ R!Full - t <= MinuteTicks * After(k, u)' + (R!Full - (hour' - u) * BucketRpm)
    <3>1. u \in Int /\ u \in hour - MinuteTicks .. hour /\ After(k, u) \in Nat
      BY <1>1, RateState
    <3>2. CASE u = hour
      <4>1. hour' - u = 0 /\ 0 * BucketRpm = 0
        BY <1>1, <3>2
      <4>2. After(k, u)' \in Nat
        BY <1>8, <2>2, ToldSince, FS_CardinalityType DEF After, R!Since
      <4>3. R!Since(new, u) = {}
        BY <1>1, <1>6, <1>7, <2>2, <3>2 DEF R!Since, Lately, Passing
      <4>4. After(k, u)' = 0
        BY <1>8, <4>3, FS_EmptySet DEF After, R!Since
      <4>5. MinuteTicks * 0 = 0
        BY <1>1
      <4>6. QED
        BY <1>1, <4>1, <4>4, <4>5
    <3>3. CASE u < hour
      <4>1. R!Since(new, u) = R!Since(old, u) \cup {e} /\ e \notin R!Since(old, u)
        BY <1>1, <2>2, <3>1, <3>3 DEF R!Since
      <4>2. IsFiniteSet(R!Since(old, u))
        BY <1>6, ToldSince
      <4>3. Cardinality(R!Since(new, u)) = Cardinality(R!Since(old, u)) + 1
        BY <4>1, <4>2, FS_AddElement
      <4>4. After(k, u)' = After(k, u) + 1
        BY <1>6, <1>8, <4>3 DEF After, R!Since
      <4>5. PICK a \in Nat : a = MinuteTicks * After(k, u) /\ MinuteTicks * After(k, u)' = a + MinuteTicks
        BY <1>1, <3>1, <4>4
      <4>6. PICK x \in Int : x = (hour - u) * BucketRpm /\ (hour' - u) * BucketRpm = x
        BY <1>1, <3>1
      <4>7. /\ a + f <= R!Full + x
            /\ (R!Full - f <= a \/ R!Full - f <= a + (R!Full - x))
        BY <1>2, <1>6, <3>1, <4>5, <4>6 DEF BucketKept
      <4>8. /\ (a + MinuteTicks) + t <= R!Full + x
            /\ (R!Full - t <= a + MinuteTicks \/ R!Full - t <= (a + MinuteTicks) + (R!Full - x))
        BY <1>1, <1>2, <2>1, <4>7
      <4>9. QED
        BY <4>5, <4>6, <4>8
    <3>4. QED
      BY <1>1, <3>1, <3>2, <3>3
  <2>5. BucketKept(k)'
    BY <1>1, <1>10, <2>4 DEF BucketKept
  <2>6. QED
    BY <1>9, <2>3, <2>5 DEF BucketsInv
<1>13. QED
  BY <1>11, <1>12

\* What is thrown away had filled.
LEMMA BucketsCleaned ==
  ASSUME R!RateLimitsAssumption, RatesInv, R!CleanBuckets
  PROVE  BucketsInv'
<1>1. /\ MinuteTicks \in Nat \ {0} /\ R!Full \in Nat /\ R!Full' = R!Full /\ BucketRpm \in Nat /\ hour \in Nat
      /\ hour' = hour /\ BucketOld \in Nat /\ BucketOld >= MinuteTicks /\ R!Full = BucketRpm * MinuteTicks
      /\ passed' = passed
      /\ buckets' = [k \in {a \in DOMAIN buckets : buckets[a].lastFill + BucketOld >= hour} |-> buckets[k]]
  BY RateTypes, RateState DEF R!Full, R!CleanBuckets
<1>2. ASSUME NEW k \in Clientele PROVE Level(k)' = Level(k)
  <2>1. CASE k \in DOMAIN buckets' \/ k \notin DOMAIN buckets
    BY <1>1, <2>1 DEF Level, R!Filled
  <2>2. CASE k \in DOMAIN buckets /\ k \notin DOMAIN buckets'
    <3>1. PICK b \in [tokens : 0 .. R!Full, lastFill : 0 .. hour] : b = buckets[k]
      BY <2>2, RateState
    <3>2. PICK t \in Nat, l \in Nat : t = b.tokens /\ l = b.lastFill
      BY <1>1, <3>1
    <3>3. l + BucketOld < hour
      BY <1>1, <2>2, <3>1, <3>2
    <3>4. PICK d \in Nat : hour - l = MinuteTicks + d
      <4>1. (hour - l) - MinuteTicks \in Nat /\ hour - l = MinuteTicks + ((hour - l) - MinuteTicks)
        BY <1>1, <3>2, <3>3
      <4>2. QED
        BY <4>1
    <3>5. (hour - l) * BucketRpm = R!Full + d * BucketRpm /\ d * BucketRpm \in Nat
      BY <1>1, <3>4
    <3>6. PICK x \in Nat : x = d * BucketRpm
      BY <3>5
    <3>7. Level(k) = (IF t + (R!Full + x) > R!Full THEN R!Full ELSE t + (R!Full + x))
      BY <2>2, <3>1, <3>2, <3>5, <3>6 DEF Level, R!Filled
    <3>8. Level(k) = R!Full
      BY <1>1, <3>2, <3>6, <3>7
    <3>9. Level(k)' = R!Full
      BY <1>1, <2>2 DEF Level
    <3>10. QED
      BY <3>8, <3>9
  <2>3. QED
    BY <2>1, <2>2
<1>3. BucketsInv
  BY DEF RatesInv
<1>4. QED
  BY <1>1, <1>2, <1>3, BucketsStay

LEMMA BucketsNext ==
  ASSUME R!RateLimitsAssumption, RatesInv, R!Next
  PROVE  BucketsInv'
<1>1. BucketsInv /\ passed \in Histories
  BY DEF RatesInv
<1>2. ASSUME UNCHANGED <<buckets, hour>>, passed'.bucket = passed.bucket
      PROVE  BucketsInv'
  BY <1>1, <1>2, BucketsStay DEF Level, R!Filled, R!Full
<1>3. CASE R!Tick
  BY <1>3, BucketsLater
<1>4. CASE R!CleanBuckets
  BY <1>4, BucketsCleaned
<1>5. CASE R!CleanWindows
  BY <1>2, <1>5 DEF R!CleanWindows
<1>6. CASE \E k \in Clientele : R!AllowByBucket(k)
  BY <1>6, BucketsAsked
<1>7. CASE \E k \in Clientele : R!AllowByWindow(k)
  <2>1. PICK k \in Clientele : R!AllowByWindow(k)
    BY <1>7
  <2>2. passed'.bucket = passed.bucket
    BY <1>1, <2>1 DEF R!AllowByWindow, Histories
  <2>3. QED
    BY <1>2, <2>1, <2>2 DEF R!AllowByWindow
<1>8. CASE \E w \in Processes : R!ReadClock(w) \/ R!GiveUp(w) \/ R!CountEntries(w)
  BY <1>2, <1>8 DEF R!ReadClock, R!GiveUp, R!CountEntries
<1>9. CASE \E w \in Processes : R!CountFails(w) \/ R!Add(w)
  <2>1. PICK w \in Processes : R!CountFails(w) \/ R!Add(w)
    BY <1>9
  <2>2. UNCHANGED <<buckets, hour>> /\ \E counted, n : R!Pass(w, counted, n)
    BY <2>1, Zenon DEF R!CountFails, R!Add
  <2>3. passed'.bucket = passed.bucket
    BY <1>1, <2>2, Zenon DEF R!Pass, Histories
  <2>4. QED
    BY <1>2, <2>2, <2>3
<1>10. QED
  BY <1>3, <1>4, <1>5, <1>6, <1>7, <1>8, <1>9 DEF R!Next

LEMMA ValidTwice ==
  ASSUME NEW requests, NEW u \in Int, NEW v \in Int, v >= u, \A e \in requests : e.at \in Nat
  PROVE  R!Since(R!Since(requests, u), v) = R!Since(requests, v)
BY DEF R!Since

LEMMA WindowsAsked ==
  ASSUME R!RateLimitsAssumption, RatesInv, NEW k \in Clientele, R!AllowByWindow(k)
  PROVE  WindowsInv'
<1>1. MinuteTicks \in Nat \ {0} /\ hour \in Nat /\ hour' = hour /\ WindowLimit \in Nat
  BY RateTypes, RateState DEF R!AllowByWindow
<1>2. WindowsInv /\ passed \in Histories
  BY DEF RatesInv
<1>3. PICK old \in SUBSET Passing :
        /\ old = passed.window[k] /\ old = IF k \in DOMAIN windows THEN R!Valid(windows[k]) ELSE {}
        /\ IsFiniteSet(old) /\ Cardinality(old) <= WindowLimit /\ Cardinality(old) \in Nat
  BY <1>2, RateState, FS_CardinalityType DEF WindowsInv
<1>4. \A e \in old : e.at > hour - MinuteTicks /\ e.at \in Nat
  BY <1>3 DEF R!Valid, R!Since, Passing
<1>5. R!Cardinality(old) = Cardinality(old)
  BY Zenon DEF R!Cardinality, Cardinality
<1>6. PICK new : /\ new = IF Cardinality(old) < WindowLimit THEN old \cup {R!Numbered(old, hour)} ELSE old
                 /\ windows' = [a \in DOMAIN windows \cup {k} |-> IF a # k THEN windows[a] ELSE new]
  BY <1>3, <1>5 DEF R!AllowByWindow
<1>7. PICK e : e = R!Numbered(old, hour)
  OBVIOUS
<1>8. e.at = hour
  BY <1>7 DEF R!Numbered
<1>9. \A g \in new : g.at > hour - MinuteTicks /\ g.at \in Nat
  BY <1>1, <1>4, <1>6, <1>7, <1>8
<1>10. R!Valid(new) = new /\ R!Valid(new)' = new'
  BY <1>1, <1>9 DEF R!Since, R!Valid
<1>11. IsFiniteSet(new) /\ Cardinality(new) <= WindowLimit
  <2>1. CASE Cardinality(old) < WindowLimit
    <3>1. new = old \cup {e}
      BY <1>6, <1>7, <2>1
    <3>2. IsFiniteSet(new) /\ (Cardinality(new) = Cardinality(old) \/ Cardinality(new) = Cardinality(old) + 1)
      BY <1>3, <3>1, FS_AddElement
    <3>3. QED
      BY <1>1, <1>3, <2>1, <3>2
  <2>2. CASE ~(Cardinality(old) < WindowLimit)
    BY <1>3, <1>6, <2>2
  <2>3. QED
    BY <2>1, <2>2
<1>12. passed'.window[k] = new /\ \A a \in Clientele \ {k} : passed'.window[a] = passed.window[a]
  <2>1. PICK allowed \in BOOLEAN : (allowed = TRUE) <=> (Cardinality(old) < WindowLimit)
    OBVIOUS
  <2>2. passed' = IF allowed THEN [passed EXCEPT !.window[k] = @ \cup {R!Numbered(passed.window[k], hour)}]
                  ELSE passed
    BY <1>3, <1>5, <2>1 DEF R!AllowByWindow
  <2>3. QED
    BY <1>2, <1>3, <1>6, <2>1, <2>2 DEF Histories
<1>13. \A a \in DOMAIN windows' : \A g \in windows'[a] : g.at \in Nat
  <2>1. TAKE a \in DOMAIN windows'
  <2>2. CASE a = k
    BY <1>6, <1>9, <2>2
  <2>3. CASE a # k
    BY <1>2, <1>6, <2>3 DEF WindowsInv
  <2>4. QED
    BY <2>2, <2>3
<1>14. ASSUME NEW a \in Clientele
       PROVE  /\ passed'.window[a] = IF a \in DOMAIN windows' THEN R!Valid(windows[a])' ELSE {}
              /\ IsFiniteSet(passed'.window[a]) /\ Cardinality(passed'.window[a]) <= WindowLimit
  <2>1. CASE a = k
    <3>1. a \in DOMAIN windows' /\ windows'[a] = new
      BY <1>6, <2>1
    <3>2. R!Valid(windows[a])' = new
      BY <1>1, <1>10, <3>1 DEF R!Valid, R!Since
    <3>3. QED
      BY <1>11, <1>12, <2>1, <3>1, <3>2
  <2>2. CASE a # k
    <3>1. /\ a \in DOMAIN windows' <=> a \in DOMAIN windows
          /\ a \in DOMAIN windows => windows'[a] = windows[a]
      BY <1>6, <2>2
    <3>2. a \in DOMAIN windows => R!Valid(windows[a])' = R!Valid(windows[a])
      BY <1>1, <3>1 DEF R!Valid, R!Since
    <3>3. QED
      BY <1>2, <1>12, <2>2, <3>1, <3>2 DEF WindowsInv
  <2>3. QED
    BY <2>1, <2>2
<1>15. QED
  BY <1>13, <1>14 DEF WindowsInv

LEMMA WindowsCleaned ==
  ASSUME R!RateLimitsAssumption, RatesInv, R!CleanWindows
  PROVE  WindowsInv'
<1>1. /\ MinuteTicks \in Nat \ {0} /\ hour \in Nat /\ hour' = hour /\ passed' = passed
      /\ windows' = [k \in {a \in DOMAIN windows : R!Valid(windows[a]) # {}} |-> R!Valid(windows[k])]
  BY RateTypes, RateState DEF R!CleanWindows
<1>2. WindowsInv
  BY DEF RatesInv
<1>3. \A k \in DOMAIN windows' : /\ k \in DOMAIN windows /\ windows'[k] = R!Valid(windows[k])
                                 /\ \A e \in windows'[k] : e.at \in Nat
  BY <1>1, <1>2 DEF WindowsInv, R!Valid, R!Since
<1>4. ASSUME NEW k \in Clientele
      PROVE  /\ passed'.window[k] = IF k \in DOMAIN windows' THEN R!Valid(windows[k])' ELSE {}
             /\ IsFiniteSet(passed'.window[k]) /\ Cardinality(passed'.window[k]) <= WindowLimit
  <2>1. /\ passed.window[k] = IF k \in DOMAIN windows THEN R!Valid(windows[k]) ELSE {}
        /\ IsFiniteSet(passed'.window[k]) /\ Cardinality(passed'.window[k]) <= WindowLimit
    BY <1>1, <1>2 DEF WindowsInv
  <2>2. CASE k \in DOMAIN windows'
    <3>1. R!Valid(windows[k])' = R!Valid(windows[k])
      BY <1>1, <1>3, <2>2 DEF R!Since, R!Valid
    <3>2. QED
      BY <1>1, <1>3, <2>1, <2>2, <3>1
  <2>3. CASE k \notin DOMAIN windows'
    BY <1>1, <2>1, <2>3
  <2>4. QED
    BY <2>2, <2>3
<1>5. QED
  BY <1>3, <1>4 DEF WindowsInv

LEMMA WindowsLater ==
  ASSUME R!RateLimitsAssumption, RatesInv, R!Tick
  PROVE  WindowsInv'
<1>1. /\ MinuteTicks \in Nat \ {0} /\ hour \in Nat /\ hour' = hour + 1 /\ windows' = windows
      /\ WindowLimit \in Nat
      /\ \A k \in Clientele : passed'.window[k] = R!Since(passed.window[k], hour + 1 - MinuteTicks)
  BY RateTypes, RateState DEF R!Tick
<1>2. WindowsInv
  BY DEF RatesInv
<1>3. ASSUME NEW k \in Clientele
      PROVE  /\ passed'.window[k] = IF k \in DOMAIN windows' THEN R!Valid(windows[k])' ELSE {}
             /\ IsFiniteSet(passed'.window[k]) /\ Cardinality(passed'.window[k]) <= WindowLimit
  <2>1. /\ passed.window[k] = IF k \in DOMAIN windows THEN R!Valid(windows[k]) ELSE {}
        /\ IsFiniteSet(passed.window[k]) /\ Cardinality(passed.window[k]) <= WindowLimit
    BY <1>2 DEF WindowsInv
  <2>2. passed'.window[k] \in SUBSET passed.window[k]
    BY <1>1 DEF R!Since
  <2>3. /\ IsFiniteSet(passed'.window[k]) /\ Cardinality(passed'.window[k]) <= Cardinality(passed.window[k])
        /\ Cardinality(passed.window[k]) \in Nat /\ Cardinality(passed'.window[k]) \in Nat
    BY <2>1, <2>2, FS_Subset, FS_CardinalityType
  <2>4. Cardinality(passed'.window[k]) <= WindowLimit
    BY <1>1, <2>1, <2>3
  <2>5. CASE k \in DOMAIN windows
    <3>1. R!Since(R!Since(windows[k], hour - MinuteTicks), hour + 1 - MinuteTicks)
            = R!Since(windows[k], hour + 1 - MinuteTicks)
      BY <1>1, <1>2, <2>5, ValidTwice DEF WindowsInv
    <3>2. R!Valid(windows[k])' = R!Since(windows[k], hour + 1 - MinuteTicks)
      BY <1>1 DEF R!Valid, R!Since
    <3>3. QED
      BY <1>1, <2>1, <2>3, <2>4, <2>5, <3>1, <3>2 DEF R!Valid
  <2>6. CASE k \notin DOMAIN windows
    BY <1>1, <2>1, <2>3, <2>4, <2>6 DEF R!Since
  <2>7. QED
    BY <2>5, <2>6
<1>4. QED
  BY <1>1, <1>2, <1>3 DEF WindowsInv

LEMMA WindowsNext ==
  ASSUME R!RateLimitsAssumption, RatesInv, R!Next
  PROVE  WindowsInv'
<1>1. WindowsInv /\ passed \in Histories
  BY DEF RatesInv
<1>2. ASSUME UNCHANGED <<windows, hour>>, passed'.window = passed.window
      PROVE  WindowsInv'
  BY <1>1, <1>2 DEF WindowsInv, R!Valid, R!Since
<1>3. CASE R!Tick
  BY <1>3, WindowsLater
<1>4. CASE R!CleanWindows
  BY <1>4, WindowsCleaned
<1>5. CASE R!CleanBuckets
  BY <1>2, <1>5 DEF R!CleanBuckets
<1>6. CASE \E k \in Clientele : R!AllowByWindow(k)
  BY <1>6, WindowsAsked
<1>7. CASE \E k \in Clientele : R!AllowByBucket(k)
  <2>1. PICK k \in Clientele : R!AllowByBucket(k)
    BY <1>7
  <2>2. passed'.window = passed.window
    BY <1>1, <2>1 DEF R!AllowByBucket, Histories
  <2>3. QED
    BY <1>2, <2>1, <2>2 DEF R!AllowByBucket
<1>8. CASE \E w \in Processes : R!ReadClock(w) \/ R!GiveUp(w) \/ R!CountEntries(w)
  BY <1>2, <1>8 DEF R!ReadClock, R!GiveUp, R!CountEntries
<1>9. CASE \E w \in Processes : R!CountFails(w) \/ R!Add(w)
  <2>1. PICK w \in Processes : R!CountFails(w) \/ R!Add(w)
    BY <1>9
  <2>2. UNCHANGED <<windows, hour>> /\ \E counted, n : R!Pass(w, counted, n)
    BY <2>1, Zenon DEF R!CountFails, R!Add
  <2>3. passed'.window = passed.window
    BY <1>1, <2>2, Zenon DEF R!Pass, Histories
  <2>4. QED
    BY <1>2, <2>2, <2>3
<1>10. QED
  BY <1>3, <1>4, <1>5, <1>6, <1>7, <1>8, <1>9 DEF R!Next

LEMMA FewerThan ==
  ASSUME NEW S, IsFiniteSet(S), NEW T \in SUBSET S
  PROVE  /\ IsFiniteSet(T) /\ Cardinality(T) <= Cardinality(S)
         /\ Cardinality(T) \in Nat /\ Cardinality(S) \in Nat
BY FS_Subset, FS_CardinalityType

\* What a time may have forgotten, and one that is let through.
LEMMA EntriesPassed ==
  ASSUME R!RateLimitsAssumption, RatesInv, NEW w \in Processes, NEW counted \in BOOLEAN, NEW n \in Nat,
         R!Pass(w, counted, n), hour' = hour
  PROVE  /\ passed'.redis \in SUBSET Entered /\ IsFiniteSet(passed'.redis) /\ Lately(passed.redis)'
         /\ passed'.redis \subseteq passed.redis \cup {[at |-> worker[w].at, n |-> n, counted |-> counted]}
         /\ Cardinality(passed'.redis) <= Cardinality(passed.redis) + 1
         /\ Cardinality(Uncounted(passed'.redis)) <= Cardinality(Uncounted(passed.redis)) + 1
         /\ counted = TRUE => Cardinality(Uncounted(passed'.redis)) <= Cardinality(Uncounted(passed.redis))
         /\ Cardinality(passed'.redis) \in Nat /\ Cardinality(passed.redis) \in Nat
         /\ Cardinality(Uncounted(passed'.redis)) \in Nat /\ Cardinality(Uncounted(passed.redis)) \in Nat
<1>1. PICK e : e = [at |-> worker[w].at, n |-> n, counted |-> counted]
  OBVIOUS
<1>2. passed'.redis = R!Valid(passed.redis \cup {e})
  BY <1>1 DEF R!Pass, RatesInv, Histories
<1>3. PICK old, new : /\ old \in SUBSET Entered /\ old = passed.redis /\ new = passed'.redis
                        /\ IsFiniteSet(old) /\ Lately(old)
  BY RateState DEF RatesInv, EntriesInv
<1>4. hour \in Nat /\ worker[w].at \in 0 .. hour /\ MinuteTicks \in Nat
  BY RateState, RateTypes
<1>5. e \in Entered /\ e.at = worker[w].at /\ e.counted = counted
  BY <1>1, <1>4 DEF Entered
<1>6. new \in SUBSET (old \cup {e}) /\ \A g \in new : g.at > hour - MinuteTicks
  BY <1>2, <1>3 DEF R!Valid, R!Since
<1>7. /\ IsFiniteSet(old \cup {e}) /\ Cardinality(old \cup {e}) <= Cardinality(old) + 1
      /\ Cardinality(old) \in Nat /\ Cardinality(old \cup {e}) \in Nat
  <2>1. /\ IsFiniteSet(old \cup {e}) /\ Cardinality(old) \in Nat
        /\ (Cardinality(old \cup {e}) = Cardinality(old) \/ Cardinality(old \cup {e}) = Cardinality(old) + 1)
    BY <1>3, FS_AddElement, FS_CardinalityType
  <2>2. QED
    BY <2>1
<1>8. IsFiniteSet(new) /\ Cardinality(new) <= Cardinality(old \cup {e}) /\ Cardinality(new) \in Nat
  BY <1>6, <1>7, FewerThan
<1>9. Cardinality(new) <= Cardinality(old) + 1
  BY <1>7, <1>8
<1>10. /\ IsFiniteSet(Uncounted(old)) /\ Cardinality(Uncounted(old)) \in Nat
       /\ Cardinality(Uncounted(new)) \in Nat
       /\ Cardinality(Uncounted(new)) <= Cardinality(Uncounted(old)) + 1
       /\ counted = TRUE => Cardinality(Uncounted(new)) <= Cardinality(Uncounted(old))
  <2>1. Uncounted(old) \in SUBSET old /\ Uncounted(new) \in SUBSET (Uncounted(old) \cup {e})
    BY <1>6 DEF Uncounted
  <2>2. IsFiniteSet(Uncounted(old)) /\ Cardinality(Uncounted(old)) \in Nat
    BY <1>3, <2>1, FewerThan
  <2>3. /\ IsFiniteSet(Uncounted(old) \cup {e})
        /\ \/ Cardinality(Uncounted(old) \cup {e}) = Cardinality(Uncounted(old))
           \/ Cardinality(Uncounted(old) \cup {e}) = Cardinality(Uncounted(old)) + 1
    BY <2>2, FS_AddElement
  <2>4. /\ Cardinality(Uncounted(new)) <= Cardinality(Uncounted(old) \cup {e})
        /\ Cardinality(Uncounted(new)) \in Nat
    BY <2>1, <2>3, FewerThan
  <2>5. counted = TRUE => Cardinality(Uncounted(new)) <= Cardinality(Uncounted(old))
    <3>1. SUFFICES ASSUME counted = TRUE PROVE Cardinality(Uncounted(new)) <= Cardinality(Uncounted(old))
      OBVIOUS
    <3>2. Uncounted(new) \in SUBSET Uncounted(old)
      BY <1>5, <1>6, <3>1 DEF Uncounted
    <3>3. QED
      BY <2>2, <3>2, FewerThan
  <2>6. QED
    BY <2>2, <2>3, <2>4, <2>5
<1>11. Lately(passed.redis)' /\ new \in SUBSET Entered
  <2>1. new \in SUBSET Entered
    BY <1>3, <1>5, <1>6
  <2>2. \A g \in new : hour - MinuteTicks < g.at /\ g.at <= hour
    <3>1. TAKE g \in new
    <3>2. g.at <= hour
      BY <1>3, <1>4, <1>5, <1>6 DEF Lately
    <3>3. QED
      BY <1>4, <1>6, <2>1, <3>2 DEF Entered
  <2>3. QED
    BY <1>3, <2>1, <2>2 DEF Lately
<1>12. QED
  BY <1>1, <1>3, <1>6, <1>7, <1>8, <1>9, <1>10, <1>11

\* Those that are about to add, after one of them has moved.
LEMMA AddersMove ==
  ASSUME R!RateLimitsAssumption, NEW old \in [Processes -> [pc : {"idle", "count", "add", "refused"}, at : Nat]],
         NEW w \in Processes, NEW new, \A x \in Processes \ {w} : new[x] = old[x]
  PROVE  /\ Cardinality(Adding(old)) \in Nat /\ Cardinality(Adding(new)) \in Nat
         /\ Cardinality(Adding(new)) <= Cardinality(Processes) /\ Cardinality(Adding(old)) <= Cardinality(Processes)
         /\ new[w].pc # "add" => Cardinality(Adding(new)) <= Cardinality(Adding(old))
         /\ new[w].pc # "add" /\ old[w].pc = "add" => Cardinality(Adding(new)) = Cardinality(Adding(old)) - 1
<1>1. /\ IsFiniteSet(Processes) /\ Adding(old) \in SUBSET Processes /\ Adding(new) \in SUBSET Processes
  BY RateTypes DEF Adding
<1>2. /\ Cardinality(Adding(old)) \in Nat /\ Cardinality(Adding(new)) \in Nat
      /\ Cardinality(Adding(new)) <= Cardinality(Processes) /\ Cardinality(Adding(old)) <= Cardinality(Processes)
      /\ IsFiniteSet(Adding(old)) /\ IsFiniteSet(Adding(new))
  BY <1>1, FewerThan
<1>3. ASSUME new[w].pc # "add" PROVE Cardinality(Adding(new)) <= Cardinality(Adding(old))
  BY <1>2, <1>3, FewerThan DEF Adding
<1>4. ASSUME new[w].pc # "add", old[w].pc = "add"
      PROVE  Cardinality(Adding(new)) = Cardinality(Adding(old)) - 1
  <2>1. Adding(new) = Adding(old) \ {w} /\ w \in Adding(old)
    BY <1>4 DEF Adding
  <2>2. QED
    BY <1>2, <2>1, FS_RemoveElement
<1>5. QED
  BY <1>2, <1>3, <1>4

\* Who counts finds those that counted before.
LEMMA CountedAreFound ==
  ASSUME NEW entries \in SUBSET Passing, IsFiniteSet(entries), NEW requests \in SUBSET Entered, IsFiniteSet(requests),
         \A e \in requests : e.counted = TRUE => [at |-> e.at, n |-> e.n] \in entries
  PROVE  /\ Cardinality(requests) <= Cardinality(entries) + Cardinality(Uncounted(requests))
         /\ Cardinality(requests) \in Nat /\ Cardinality(entries) \in Nat /\ Cardinality(Uncounted(requests)) \in Nat
<1>1. PICK c \in SUBSET requests : c = {e \in requests : e.counted = TRUE}
  OBVIOUS
<1>2. Uncounted(requests) \in SUBSET requests
  BY DEF Uncounted
<1>3. /\ IsFiniteSet(c) /\ IsFiniteSet(Uncounted(requests)) /\ Cardinality(c) \in Nat
      /\ Cardinality(Uncounted(requests)) \in Nat /\ Cardinality(entries) \in Nat
  BY <1>2, FewerThan, FS_CardinalityType
<1>4. Cardinality(c) <= Cardinality(entries)
  <2>1. PICK f : f = [e \in c |-> [at |-> e.at, n |-> e.n]]
    OBVIOUS
  <2>2. f \in [c -> entries]
    BY <1>1, <2>1
  <2>3. \A e, g \in c : f[e] = f[g] => e = g
    BY <1>1, <2>1 DEF Entered
  <2>4. f \in Injection(c, entries)
    BY <2>2, <2>3 DEF Injection, IsInjective
  <2>5. QED
    BY <1>3, <2>4, FS_Injection
<1>5. c \cup Uncounted(requests) = requests /\ c \cap Uncounted(requests) = {}
  BY <1>1 DEF Uncounted, Entered
<1>6. Cardinality(requests) = Cardinality(c) + Cardinality(Uncounted(requests))
  <2>1. Cardinality(c \cup Uncounted(requests))
          = Cardinality(c) + Cardinality(Uncounted(requests)) - Cardinality(c \cap Uncounted(requests))
    BY <1>3, FS_Union
  <2>2. Cardinality(c \cap Uncounted(requests)) = 0
    BY <1>5, FS_EmptySet
  <2>3. QED
    BY <1>3, <1>5, <2>1, <2>2
<1>7. QED
  BY <1>3, <1>4, <1>6

LEMMA EntriesOfOthers ==
  ASSUME EntriesInv, UNCHANGED <<zset, hour, fault, merged>>, passed'.redis = passed.redis,
         Cardinality(Adding(worker')) <= Cardinality(Adding(worker)), Cardinality(Adding(worker)) \in Nat,
         Cardinality(Adding(worker')) \in Nat, BurstMax \in Nat, Cardinality(Processes) \in Nat, fault \in Nat, merged \in Nat
  PROVE  EntriesInv'
  BY FS_CardinalityType DEF EntriesInv, Lately

LEMMA EntriesLater ==
  ASSUME R!RateLimitsAssumption, RatesInv, R!Tick
  PROVE  EntriesInv'
<1>1. /\ hour \in Nat /\ fault \in Nat /\ merged \in Nat /\ BurstMax \in Nat /\ Cardinality(Processes) \in Nat
      /\ MinuteTicks \in Nat
  BY RateState, RateTypes
<1>2. hour' = hour + 1 /\ passed'.redis = R!Since(passed.redis, hour + 1 - MinuteTicks)
      /\ UNCHANGED <<zset, worker, fault, merged>>
  BY DEF R!Tick
<1>3. PICK old, new :
        /\ old \in SUBSET Entered /\ new \in SUBSET old /\ old = passed.redis /\ new = passed'.redis /\ IsFiniteSet(old) /\ Lately(old)
        /\ new = R!Since(old, hour + 1 - MinuteTicks)
  BY <1>2, RateState DEF RatesInv, EntriesInv, R!Since
<1>4. Lately(passed.redis)'
  <2>1. \A e \in new : hour + 1 - MinuteTicks < e.at /\ e.at <= hour + 1
    BY <1>1, <1>3 DEF Lately, R!Since, Entered
  <2>2. \A e \in new : hour' - MinuteTicks < e.at /\ e.at <= hour'
    <3>1. TAKE e \in new
    <3>2. hour + 1 - MinuteTicks < e.at /\ e.at <= hour + 1
      BY <2>1
    <3>3. hour' - MinuteTicks = hour + 1 - MinuteTicks
      BY <1>1, <1>2
    <3>4. QED
      BY <1>2, <3>2, <3>3
  <2>3. QED
    BY <1>3, <2>2 DEF Lately
<1>5. /\ zset \in SUBSET Passing /\ IsFiniteSet(zset)
      /\ \A e \in old : e.counted = TRUE => [at |-> e.at, n |-> e.n] \in zset
      /\ Cardinality(Uncounted(old)) <= fault + merged
      /\ Cardinality(old) + Cardinality(Adding(worker)) <= BurstMax - 1 + Cardinality(Processes) + fault + merged
  BY <1>3 DEF RatesInv, EntriesInv
<1>6. /\ IsFiniteSet(new) /\ Cardinality(new) <= Cardinality(old) /\ Cardinality(new) \in Nat /\ Cardinality(old) \in Nat
  BY <1>3, FewerThan
<1>7. Cardinality(Uncounted(new)) <= Cardinality(Uncounted(old)) /\ Cardinality(Uncounted(new)) \in Nat
      /\ Cardinality(Uncounted(old)) \in Nat
  BY <1>3, FewerThan DEF Uncounted
<1>8. Cardinality(Adding(worker)) \in Nat
  BY RateTypes, FewerThan DEF Adding
<1>9. /\ Cardinality(Uncounted(new)) <= fault + merged
      /\ Cardinality(new) + Cardinality(Adding(worker)) <= BurstMax - 1 + Cardinality(Processes) + fault + merged
  BY <1>1, <1>5, <1>6, <1>7, <1>8
<1>10. QED
  BY <1>2, <1>3, <1>4, <1>5, <1>6, <1>9 DEF EntriesInv

LEMMA EntriesCounted ==
  ASSUME R!RateLimitsAssumption, RatesInv, NEW w \in Processes, R!CountEntries(w)
  PROVE  EntriesInv'
<1>1. /\ hour \in Nat /\ fault \in Nat /\ merged \in Nat /\ BurstMax \in Nat /\ Cardinality(Processes) \in Nat
      /\ MinuteTicks \in Nat /\ IsFiniteSet(Processes) /\ worker[w].at \in 0 .. hour
      /\ worker \in [Processes -> [pc : {"idle", "count", "add", "refused"}, at : 0 .. hour]]
  BY RateState, RateTypes
<1>2. /\ zset' = R!Since(zset, worker[w].at - MinuteTicks) /\ UNCHANGED <<hour, fault, merged, passed>>
      /\ worker' = [worker EXCEPT ![w].pc = IF R!Cardinality(zset') >= BurstMax THEN "refused" ELSE "add"]
  BY DEF R!CountEntries
<1>3. R!Cardinality(zset') = Cardinality(zset')
  BY Zenon DEF R!Cardinality, Cardinality
<1>4. EntriesInv
  BY DEF RatesInv
<1>5. zset' \in SUBSET Passing /\ IsFiniteSet(zset')
  <2>1. zset' \in SUBSET zset
    BY <1>2 DEF R!Since
  <2>2. QED
    BY <1>4, <2>1, FewerThan DEF EntriesInv
<1>6. \A e \in passed.redis : e.counted = TRUE => [at |-> e.at, n |-> e.n] \in zset'
  <2>1. TAKE e \in passed.redis
  <2>2. e \in Entered /\ hour - MinuteTicks < e.at
    BY <1>4, RateState DEF EntriesInv, Lately
  <2>3. e.at > worker[w].at - MinuteTicks
    BY <1>1, <2>2 DEF Entered
  <2>4. QED
    BY <1>2, <1>4, <2>3 DEF EntriesInv, R!Since
<1>7. Lately(passed.redis)'
  BY <1>2, <1>4 DEF EntriesInv, Lately
<1>8. PICK old \in SUBSET Entered : old = passed.redis /\ passed'.redis = old /\ IsFiniteSet(old)
                                    /\ Cardinality(Uncounted(old)) <= fault + merged
  BY <1>2, <1>4, RateState DEF EntriesInv
<1>9. PICK d \in {"refused", "add"} : worker' = [worker EXCEPT ![w].pc = d] /\ (d = "add" => Cardinality(zset') < BurstMax)
  <2>1. Cardinality(zset') \in Nat
    BY <1>5, FS_CardinalityType
  <2>2. PICK d : d = IF R!Cardinality(zset') >= BurstMax THEN "refused" ELSE "add"
    OBVIOUS
  <2>3. d \in {"refused", "add"} /\ (d = "add" => Cardinality(zset') < BurstMax)
    BY <1>1, <1>3, <2>1, <2>2
  <2>4. QED
    BY <1>2, <2>2, <2>3
<1>10. worker \in [Processes -> [pc : {"idle", "count", "add", "refused"}, at : Nat]]
  BY <1>1
<1>11. PICK workers : workers = worker' /\ workers[w].pc = d /\ \A x \in Processes \ {w} : workers[x] = worker[x]
  BY <1>1, <1>9
<1>12. /\ Cardinality(Adding(worker)) \in Nat /\ Cardinality(Adding(workers)) \in Nat
       /\ Cardinality(Adding(workers)) <= Cardinality(Processes)
       /\ d # "add" => Cardinality(Adding(workers)) <= Cardinality(Adding(worker))
  BY <1>10, <1>11, AddersMove
<1>13. Cardinality(old) + Cardinality(Adding(workers)) <= BurstMax - 1 + Cardinality(Processes) + fault + merged
  <2>1. /\ Cardinality(old) <= Cardinality(zset') + Cardinality(Uncounted(old))
        /\ Cardinality(old) \in Nat /\ Cardinality(zset') \in Nat /\ Cardinality(Uncounted(old)) \in Nat
    BY <1>5, <1>6, <1>8, CountedAreFound
  <2>2. CASE d = "add"
    BY <1>1, <1>8, <1>9, <1>12, <2>1, <2>2
  <2>3. CASE d # "add"
    BY <1>1, <1>4, <1>8, <1>12, <2>1, <2>3 DEF EntriesInv
  <2>4. QED
    BY <2>2, <2>3
<1>14. QED
  BY <1>2, <1>5, <1>6, <1>7, <1>8, <1>11, <1>13 DEF EntriesInv

LEMMA EntriesLetThrough ==
  ASSUME R!RateLimitsAssumption, RatesInv, NEW w \in Processes, NEW counted \in BOOLEAN, NEW n \in Nat,
         R!Pass(w, counted, n), hour' = hour, fault' \in Nat, merged' \in Nat,
         zset \subseteq zset', zset' \in SUBSET Passing, IsFiniteSet(zset'),
         IF counted THEN /\ fault' + merged' = fault + merged /\ worker[w].pc = "add"
                         /\ [at |-> worker[w].at, n |-> n] \in zset'
         ELSE fault' + merged' = fault + merged + 1
  PROVE  EntriesInv'
<1>1. /\ hour \in Nat /\ fault \in Nat /\ merged \in Nat /\ BurstMax \in Nat /\ Cardinality(Processes) \in Nat
      /\ worker \in [Processes -> [pc : {"idle", "count", "add", "refused"}, at : 0 .. hour]]
  BY RateState, RateTypes
<1>2. PICK old, new : /\ old = passed.redis /\ new = passed'.redis
                      /\ new \in SUBSET Entered /\ IsFiniteSet(new) /\ Lately(passed.redis)'
                      /\ new \subseteq old \cup {[at |-> worker[w].at, n |-> n, counted |-> counted]}
                      /\ Cardinality(new) <= Cardinality(old) + 1
                      /\ Cardinality(Uncounted(new)) <= Cardinality(Uncounted(old)) + 1
                      /\ counted = TRUE => Cardinality(Uncounted(new)) <= Cardinality(Uncounted(old))
                      /\ Cardinality(new) \in Nat /\ Cardinality(old) \in Nat
                      /\ Cardinality(Uncounted(new)) \in Nat /\ Cardinality(Uncounted(old)) \in Nat
  BY EntriesPassed
<1>3. EntriesInv
  BY DEF RatesInv
<1>4. \A e \in new : e.counted = TRUE => [at |-> e.at, n |-> e.n] \in zset'
  <2>1. SUFFICES ASSUME NEW e \in new, e.counted = TRUE PROVE [at |-> e.at, n |-> e.n] \in zset'
    OBVIOUS
  <2>2. CASE e \in old
    BY <1>2, <1>3, <2>1, <2>2 DEF EntriesInv
  <2>3. CASE e = [at |-> worker[w].at, n |-> n, counted |-> counted]
    BY <2>1, <2>3
  <2>4. QED
    BY <1>2, <2>1, <2>2, <2>3
<1>5. PICK workers : /\ workers = worker' /\ workers[w].pc = "idle"
                     /\ \A x \in Processes \ {w} : workers[x] = worker[x]
  BY <1>1 DEF R!Pass
<1>6. worker \in [Processes -> [pc : {"idle", "count", "add", "refused"}, at : Nat]]
  BY <1>1
<1>7. /\ Cardinality(Adding(worker)) \in Nat /\ Cardinality(Adding(workers)) \in Nat
      /\ Cardinality(Adding(workers)) <= Cardinality(Adding(worker))
      /\ worker[w].pc = "add" => Cardinality(Adding(workers)) = Cardinality(Adding(worker)) - 1
  BY <1>5, <1>6, AddersMove
<1>8. /\ Cardinality(Uncounted(old)) <= fault + merged
      /\ Cardinality(old) + Cardinality(Adding(worker)) <= BurstMax - 1 + Cardinality(Processes) + fault + merged
  BY <1>2, <1>3 DEF EntriesInv
<1>9. /\ Cardinality(Uncounted(new)) <= fault' + merged'
      /\ Cardinality(new) + Cardinality(Adding(workers)) <= BurstMax - 1 + Cardinality(Processes) + fault' + merged'
  <2>1. CASE counted = TRUE
    BY <1>1, <1>2, <1>7, <1>8, <2>1
  <2>2. CASE counted = FALSE
    <3>1. PICK x \in Nat, y \in Nat : x = fault' /\ y = merged'
      OBVIOUS
    <3>2. fault \in Nat /\ merged \in Nat /\ x + y = fault + merged + 1
      BY <1>1, <2>2, <3>1
    <3>3. PICK b \in Nat, a \in Nat, p \in Nat : /\ b = BurstMax /\ p = Cardinality(Processes)
                                             /\ a = Cardinality(Adding(worker))
      BY <1>1, <1>7
    <3>4. PICK c \in Nat, o \in Nat, v \in Nat, z \in Nat :
             /\ c = Cardinality(Uncounted(new)) /\ o = Cardinality(Uncounted(old))
             /\ v = Cardinality(new) /\ z = Cardinality(old) /\ c <= o + 1 /\ v <= z + 1
      BY <1>2
    <3>5. o <= fault + merged /\ z + a <= b - 1 + p + fault + merged /\ Cardinality(Adding(workers)) <= a
          /\ Cardinality(Adding(workers)) \in Nat
      BY <1>7, <1>8, <3>3, <3>4
    <3>6. c <= x + y /\ v + Cardinality(Adding(workers)) <= b - 1 + p + x + y
      BY <3>2, <3>4, <3>5
    <3>7. QED
      BY <3>1, <3>3, <3>4, <3>6
  <2>3. QED
    BY <2>1, <2>2
<1>10. QED
  BY <1>2, <1>4, <1>5, <1>9 DEF EntriesInv

LEMMA EntriesAdded ==
  ASSUME R!RateLimitsAssumption, RatesInv, NEW w \in Processes, R!CountFails(w) \/ R!Add(w)
  PROVE  EntriesInv' /\ fault' \in 0 .. MaxFaults /\ merged' \in 0 .. MaxFaults
         /\ \E counted \in BOOLEAN, n \in Nat : R!Pass(w, counted, n)
         /\ zset' \subseteq zset \cup {R!Numbered(zset, worker[w].at)}
<1>1. /\ hour \in Nat /\ fault \in Nat /\ merged \in Nat /\ MaxFaults \in Nat /\ worker[w].at \in 0 .. hour
      /\ fault \in 0 .. MaxFaults /\ merged \in 0 .. MaxFaults
  BY RateState, RateTypes DEF RatesInv, R!TypeOK
<1>2. zset \in SUBSET Passing /\ IsFiniteSet(zset)
  BY DEF RatesInv, EntriesInv
<1>3. fault + merged \in Nat
  BY <1>1
<1>4. CASE R!CountFails(w)
  <2>1. /\ UNCHANGED <<zset, merged, hour>> /\ fault' = fault + 1 /\ R!Pass(w, FALSE, fault + merged) /\ fault < MaxFaults
    BY <1>4 DEF R!CountFails
  <2>2. fault' \in Nat /\ merged' \in Nat /\ fault' + merged' = fault + merged + 1 /\ fault' \in 0 .. MaxFaults
    BY <1>1, <2>1
  <2>3. EntriesInv'
    BY <1>2, <1>3, <2>1, <2>2, EntriesLetThrough
  <2>4. QED
    BY <1>1, <1>3, <2>1, <2>2, <2>3
<1>5. CASE R!Add(w)
  <2>1. PICK e : e = R!Numbered(zset, worker[w].at)
    OBVIOUS
  <2>2. PICK c \in Nat : e = [at |-> worker[w].at, n |-> c]
    <3>1. PICK same \in SUBSET zset : same = {f \in zset : f.at = worker[w].at}
      OBVIOUS
    <3>2. IsFiniteSet(same) /\ Cardinality(same) \in Nat
      BY <1>2, <3>1, FewerThan
    <3>3. R!Cardinality(same) = Cardinality(same)
      BY Zenon DEF R!Cardinality, Cardinality
    <3>4. QED
      BY <2>1, <3>1, <3>2, <3>3 DEF R!Numbered
  <2>3. worker[w].pc = "add" /\ hour' = hour
    BY <1>5 DEF R!Add
  <2>4. CASE R!Pass(w, TRUE, e.n) /\ zset' = zset \cup {e} /\ UNCHANGED <<merged, fault>>
    <3>1. e \in Passing /\ e.n = c /\ e = [at |-> worker[w].at, n |-> e.n]
      BY <1>1, <2>2 DEF Passing
    <3>2. zset' \in SUBSET Passing /\ IsFiniteSet(zset') /\ zset \subseteq zset'
          /\ [at |-> worker[w].at, n |-> e.n] \in zset'
      BY <1>2, <2>4, <3>1, FS_AddElement
    <3>3. fault' + merged' = fault + merged /\ fault' \in Nat /\ merged' \in Nat /\ e.n \in Nat
      BY <1>1, <2>4, <3>1
    <3>4. EntriesInv'
      BY <2>3, <2>4, <3>2, <3>3, EntriesLetThrough
    <3>5. QED
      BY <1>1, <2>1, <2>4, <3>3, <3>4
  <2>5. CASE /\ R!Pass(w, FALSE, fault + merged) /\ merged < MaxFaults /\ merged' = merged + 1
             /\ UNCHANGED <<zset, fault>>
    <3>1. fault' \in Nat /\ merged' \in Nat /\ fault' + merged' = fault + merged + 1 /\ merged' \in 0 .. MaxFaults
      BY <1>1, <2>5
    <3>2. EntriesInv'
      BY <1>2, <1>3, <2>3, <2>5, <3>1, EntriesLetThrough
    <3>3. QED
      BY <1>1, <1>3, <2>5, <3>1, <3>2
  <2>6. CASE /\ R!Pass(w, FALSE, fault + merged) /\ fault < MaxFaults /\ fault' = fault + 1
             /\ UNCHANGED <<zset, merged>>
    <3>1. fault' \in Nat /\ merged' \in Nat /\ fault' + merged' = fault + merged + 1 /\ fault' \in 0 .. MaxFaults
      BY <1>1, <2>6
    <3>2. EntriesInv'
      BY <1>2, <1>3, <2>3, <2>6, <3>1, EntriesLetThrough
    <3>3. QED
      BY <1>1, <1>3, <2>6, <3>1, <3>2
  <2>7. QED
    BY <1>5, <2>1, <2>4, <2>5, <2>6, Zenon DEF R!Add
<1>6. QED
  BY <1>4, <1>5

LEMMA EntriesNext ==
  ASSUME R!RateLimitsAssumption, RatesInv, R!Next
  PROVE  EntriesInv'
<1>1. EntriesInv /\ passed \in Histories
  BY DEF RatesInv
<1>2. /\ hour \in Nat /\ fault \in Nat /\ merged \in Nat /\ BurstMax \in Nat /\ Cardinality(Processes) \in Nat
      /\ IsFiniteSet(Processes)
      /\ worker \in [Processes -> [pc : {"idle", "count", "add", "refused"}, at : 0 .. hour]]
  BY RateState, RateTypes
<1>3. Cardinality(Adding(worker)) \in Nat
  BY <1>2, FewerThan DEF Adding
<1>4. ASSUME UNCHANGED <<zset, hour, fault, merged, worker>>, passed'.redis = passed.redis
      PROVE  EntriesInv'
  BY <1>1, <1>2, <1>3, <1>4, EntriesOfOthers
<1>5. CASE R!Tick
  BY <1>5, EntriesLater
<1>6. CASE R!CleanBuckets \/ R!CleanWindows
  BY <1>4, <1>6 DEF R!CleanBuckets, R!CleanWindows
<1>7. CASE \E k \in Clientele : R!AllowByBucket(k) \/ R!AllowByWindow(k)
  <2>1. PICK k \in Clientele : R!AllowByBucket(k) \/ R!AllowByWindow(k)
    BY <1>7
  <2>2. passed'.redis = passed.redis
    BY <1>1, <2>1 DEF R!AllowByBucket, R!AllowByWindow, Histories
  <2>3. QED
    BY <1>4, <2>1, <2>2 DEF R!AllowByBucket, R!AllowByWindow
<1>8. CASE \E w \in Processes : R!ReadClock(w) \/ R!GiveUp(w)
  <2>1. PICK w \in Processes : R!ReadClock(w) \/ R!GiveUp(w)
    BY <1>8
  <2>2. worker \in [Processes -> [pc : {"idle", "count", "add", "refused"}, at : Nat]]
    BY <1>2
  <2>3. PICK workers : /\ workers = worker' /\ workers[w].pc # "add"
                       /\ \A x \in Processes \ {w} : workers[x] = worker[x]
    BY <1>2, <2>1 DEF R!ReadClock, R!GiveUp
  <2>4. Cardinality(Adding(workers)) <= Cardinality(Adding(worker)) /\ Cardinality(Adding(workers)) \in Nat
    BY <2>2, <2>3, AddersMove
  <2>5. UNCHANGED <<zset, hour, fault, merged>> /\ passed'.redis = passed.redis
    BY <2>1 DEF R!ReadClock, R!GiveUp
  <2>6. QED
    BY <1>1, <1>2, <1>3, <2>3, <2>4, <2>5, EntriesOfOthers
<1>9. CASE \E w \in Processes : R!CountEntries(w)
  BY <1>9, EntriesCounted
<1>10. CASE \E w \in Processes : R!CountFails(w) \/ R!Add(w)
  BY <1>10, EntriesAdded
<1>11. QED
  BY <1>5, <1>6, <1>7, <1>8, <1>9, <1>10 DEF R!Next

LEMMA RateTypesNext ==
  ASSUME R!RateLimitsAssumption, RatesInv, R!Next
  PROVE  R!TypeOK' /\ passed' \in Histories
<1>1. R!TypeOK /\ passed \in Histories
  BY DEF RatesInv
<1>2. /\ hour \in Nat /\ fault \in Nat /\ merged \in Nat /\ MinuteTicks \in Nat \ {0} /\ RateTime \in Nat
      /\ worker \in [Processes -> [pc : {"idle", "count", "add", "refused"}, at : 0 .. hour]]
      /\ \A e \in zset \cup passed.redis : e.at \in 0 .. hour
      /\ hour \in 0 .. RateTime /\ fault \in 0 .. MaxFaults /\ merged \in 0 .. MaxFaults
      /\ DOMAIN buckets \subseteq Clientele /\ DOMAIN windows \subseteq Clientele
      /\ \A k \in DOMAIN buckets : buckets[k] \in [tokens : 0 .. R!Full, lastFill : 0 .. hour]
      /\ passed.redis \in SUBSET Entered /\ R!Full \in Nat /\ R!Full' = R!Full
  BY <1>1, RateState, RateTypes DEF R!TypeOK, R!Full
<1>3. CASE R!Tick
  <2>1. /\ hour' = hour + 1 /\ hour' \in 0 .. RateTime /\ UNCHANGED <<buckets, windows, zset, worker, merged, fault>>
        /\ hour < RateTime
    BY <1>2, <1>3 DEF R!Tick
  <2>2. 0 .. hour \subseteq 0 .. hour'
    BY <1>2, <2>1
  <2>3. \A k \in DOMAIN buckets' : buckets'[k] \in [tokens : 0 .. R!Full', lastFill : 0 .. hour']
    BY <1>2, <2>1, <2>2
  <2>4. worker' \in [Processes -> [pc : {"idle", "count", "add", "refused"}, at : 0 .. hour']]
    BY <1>2, <2>1, <2>2
  <2>5. /\ passed'.redis \subseteq passed.redis /\ passed' \in Histories
    BY <1>1, <1>2, <1>3 DEF R!Tick, R!Since, Histories
  <2>6. \A e \in zset' \cup passed'.redis : e.at \in 0 .. hour'
    BY <1>2, <2>1, <2>2, <2>5
  <2>7. QED
    BY <1>2, <2>1, <2>3, <2>4, <2>5, <2>6 DEF R!TypeOK
<1>4. CASE R!CleanBuckets
  BY <1>1, <1>2, <1>4 DEF R!TypeOK, R!CleanBuckets
<1>5. CASE R!CleanWindows
  BY <1>1, <1>2, <1>5 DEF R!TypeOK, R!CleanWindows
<1>6. CASE \E k \in Clientele : R!AllowByBucket(k)
  <2>1. PICK k \in Clientele : R!AllowByBucket(k)
    BY <1>6
  <2>2. PICK f \in 0 .. R!Full : f = Level(k)
    BY DEF RatesInv, BucketsInv, BucketKept
  <2>3. PICK t \in 0 .. R!Full : t = IF f >= MinuteTicks THEN f - MinuteTicks ELSE f
    BY <1>2, <2>2
  <2>4. buckets' = [a \in DOMAIN buckets \cup {k} |->
                      IF a # k THEN buckets[a] ELSE [tokens |-> t, lastFill |-> hour]]
        /\ UNCHANGED <<windows, zset, worker, merged, hour, fault>>
    BY <2>1, <2>2, <2>3 DEF R!AllowByBucket, Level
  <2>5. passed.bucket[k] \in SUBSET Passing /\ IsFiniteSet(passed.bucket[k]) /\ Told(passed.bucket[k])
    BY RateState DEF RatesInv, BucketsInv
  <2>6. PICK new \in SUBSET Passing : new = passed.bucket[k] \cup {R!Numbered(passed.bucket[k], hour)}
    BY <1>2, <2>5, NewNumber
  <2>7. passed' = passed \/ passed' = [passed EXCEPT !.bucket[k] = new]
    BY <2>1, <2>6 DEF R!AllowByBucket
  <2>8. passed' \in Histories /\ passed'.redis = passed.redis
    BY <1>1, <2>7 DEF Histories
  <2>9. QED
    BY <1>1, <1>2, <2>4, <2>8 DEF R!TypeOK
<1>7. CASE \E k \in Clientele : R!AllowByWindow(k)
  <2>1. PICK k \in Clientele : R!AllowByWindow(k)
    BY <1>7
  <2>2. DOMAIN windows' = DOMAIN windows \cup {k} /\ UNCHANGED <<buckets, zset, worker, merged, hour, fault>>
    BY <2>1 DEF R!AllowByWindow
  <2>3. PICK old \in SUBSET Passing : old = passed.window[k] /\ IsFiniteSet(old)
    BY RateState DEF RatesInv, WindowsInv
  <2>4. PICK e : e = R!Numbered(old, hour)
    OBVIOUS
  <2>5. e \in Passing
    <3>1. PICK same \in SUBSET old : same = {f \in old : f.at = hour}
      OBVIOUS
    <3>2. Cardinality(same) \in Nat
      BY <2>3, <3>1, FewerThan
    <3>3. R!Cardinality(same) = Cardinality(same)
      BY Zenon DEF R!Cardinality, Cardinality
    <3>4. QED
      BY <1>2, <2>4, <3>1, <3>2, <3>3 DEF R!Numbered, Passing
  <2>6. passed' = passed \/ passed' = [passed EXCEPT !.window[k] = old \cup {e}]
    BY <2>1, <2>3, <2>4 DEF R!AllowByWindow
  <2>7. passed' \in Histories /\ passed'.redis = passed.redis
    BY <1>1, <2>3, <2>5, <2>6 DEF Histories
  <2>8. QED
    BY <1>1, <1>2, <2>2, <2>7 DEF R!TypeOK
<1>8. CASE \E w \in Processes : R!ReadClock(w) \/ R!GiveUp(w)
  <2>1. PICK w \in Processes : R!ReadClock(w) \/ R!GiveUp(w)
    BY <1>8
  <2>2. UNCHANGED <<buckets, windows, zset, passed, merged, hour, fault>>
    BY <2>1 DEF R!ReadClock, R!GiveUp
  <2>3. PICK d \in [pc : {"idle", "count", "add", "refused"}, at : 0 .. hour] : worker' = [worker EXCEPT ![w] = d]
    <3>1. CASE R!ReadClock(w)
      <4>1. PICK d : d = [pc |-> "count", at |-> hour]
        OBVIOUS
      <4>2. d \in [pc : {"idle", "count", "add", "refused"}, at : 0 .. hour]
        BY <1>2, <4>1
      <4>3. QED
        BY <3>1, <4>1, <4>2 DEF R!ReadClock
    <3>2. CASE R!GiveUp(w)
      <4>1. PICK d : d = [worker[w] EXCEPT !.pc = "idle"]
        OBVIOUS
      <4>2. d \in [pc : {"idle", "count", "add", "refused"}, at : 0 .. hour]
        BY <1>2, <4>1
      <4>3. QED
        BY <3>2, <4>1, <4>2 DEF R!GiveUp
    <3>3. QED
      BY <2>1, <3>1, <3>2
  <2>4. worker' \in [Processes -> [pc : {"idle", "count", "add", "refused"}, at : 0 .. hour]]
    BY <1>2, <2>3
  <2>5. QED
    BY <1>1, <1>2, <2>2, <2>4 DEF R!TypeOK
<1>9. CASE \E w \in Processes : R!CountEntries(w)
  <2>1. PICK w \in Processes : R!CountEntries(w)
    BY <1>9
  <2>2. UNCHANGED <<buckets, windows, passed, merged, hour, fault>> /\ zset' \subseteq zset
    BY <2>1 DEF R!CountEntries, R!Since
  <2>3. PICK p \in {"refused", "add"} : worker' = [worker EXCEPT ![w].pc = p]
    BY <2>1 DEF R!CountEntries
  <2>4. PICK d : d = [worker[w] EXCEPT !.pc = p] /\ worker' = [worker EXCEPT ![w] = d]
    BY <2>3
  <2>5. d \in [pc : {"idle", "count", "add", "refused"}, at : 0 .. hour]
    BY <1>2, <2>4
  <2>6. worker' \in [Processes -> [pc : {"idle", "count", "add", "refused"}, at : 0 .. hour]]
    BY <1>2, <2>4, <2>5
  <2>7. QED
    BY <1>1, <1>2, <2>2, <2>6 DEF R!TypeOK
<1>10. CASE \E w \in Processes : R!CountFails(w) \/ R!Add(w)
  <2>1. PICK w \in Processes : R!CountFails(w) \/ R!Add(w)
    BY <1>10
  <2>2. UNCHANGED <<buckets, windows, hour>>
    BY <2>1, Zenon DEF R!CountFails, R!Add
  <2>3. PICK counted \in BOOLEAN, n \in Nat : R!Pass(w, counted, n)
    BY <2>1, EntriesAdded
  <2>4. /\ fault' \in 0 .. MaxFaults /\ merged' \in 0 .. MaxFaults
        /\ zset' \subseteq zset \cup {R!Numbered(zset, worker[w].at)}
    BY <2>1, EntriesAdded
  <2>5. PICK d : d = [worker[w] EXCEPT !.pc = "idle"] /\ worker' = [worker EXCEPT ![w] = d]
    BY <2>3 DEF R!Pass
  <2>6. d \in [pc : {"idle", "count", "add", "refused"}, at : 0 .. hour]
    BY <1>2, <2>5
  <2>7. worker' \in [Processes -> [pc : {"idle", "count", "add", "refused"}, at : 0 .. hour]]
    BY <1>2, <2>5, <2>6
  <2>8. /\ passed'.redis \in SUBSET Entered
        /\ passed'.redis \subseteq passed.redis \cup {[at |-> worker[w].at, n |-> n, counted |-> counted]}
    BY <2>2, <2>3, EntriesPassed
  <2>9. worker[w].at \in 0 .. hour
    BY <1>2
  <2>10. \A e \in zset' \cup passed'.redis : e.at \in 0 .. hour
    <3>1. R!Numbered(zset, worker[w].at).at = worker[w].at
      BY DEF R!Numbered
    <3>2. \A e \in zset' : e \in zset \/ e.at = worker[w].at
      BY <2>4, <3>1
    <3>3. \A e \in passed'.redis : e \in passed.redis \/ e.at = worker[w].at
      BY <2>8
    <3>4. QED
      BY <1>2, <2>9, <3>2, <3>3
  <2>11. PICK r \in SUBSET Entered : passed' = [passed EXCEPT !.redis = r]
    <3>1. PICK r : passed' = [passed EXCEPT !.redis = r]
      BY <2>3, Zenon DEF R!Pass
    <3>2. passed'.redis = r
      BY <1>1, <3>1 DEF Histories
    <3>3. QED
      BY <2>8, <3>1, <3>2
  <2>12. passed' \in Histories
    BY <1>1, <2>11 DEF Histories
  <2>13. QED
    BY <1>1, <1>2, <2>2, <2>4, <2>7, <2>10, <2>12 DEF R!TypeOK
<1>11. QED
  BY <1>3, <1>4, <1>5, <1>6, <1>7, <1>8, <1>9, <1>10 DEF R!Next

LEMMA RatesNext == ASSUME R!RateLimitsAssumption, RatesInv, R!Next PROVE RatesInv'
  BY BucketsNext, WindowsNext, EntriesNext, RateTypesNext DEF RatesInv

LEMMA RatesInit == ASSUME R!RateLimitsAssumption, R!Init PROVE RatesInv
<1>1. /\ buckets = <<>> /\ windows = <<>> /\ zset = {} /\ merged = 0 /\ hour = 0 /\ fault = 0
      /\ worker = [w \in Processes |-> [pc |-> "idle", at |-> 0]]
      /\ passed = [bucket |-> [k \in Clientele |-> {}], window |-> [k \in Clientele |-> {}], redis |-> {}]
  BY DEF R!Init
<1>2. /\ MinuteTicks \in Nat \ {0} /\ R!Full \in Nat /\ BucketRpm \in Nat /\ WindowLimit \in Nat /\ BurstMax \in Nat \ {0}
      /\ RateTime \in Nat /\ MaxFaults \in Nat /\ Cardinality(Processes) \in Nat /\ IsFiniteSet(Processes)
  BY RateTypes
<1>3. DOMAIN buckets = {} /\ DOMAIN windows = {} /\ passed.redis = {}
      /\ \A k \in Clientele : passed.bucket[k] = {} /\ passed.window[k] = {}
  BY <1>1
<1>4. R!TypeOK
  BY <1>1, <1>2, <1>3 DEF R!TypeOK
<1>5. passed \in Histories
  BY <1>1 DEF Histories
<1>6. IsFiniteSet({}) /\ Cardinality({}) = 0
  BY FS_EmptySet
<1>7. ASSUME NEW k \in Clientele
      PROVE  /\ IsFiniteSet(passed.bucket[k]) /\ Told(passed.bucket[k]) /\ Lately(passed.bucket[k])
             /\ BucketKept(k)
  <2>1. Level(k) = R!Full
    BY <1>3 DEF Level
  <2>2. \A u : After(k, u) = 0
    BY <1>3, <1>6 DEF After, R!Since
  <2>3. ASSUME NEW u \in hour - MinuteTicks .. hour
        PROVE  /\ (MinuteTicks * After(k, u) + Level(k) <= R!Full + (hour - u) * BucketRpm)
               /\ (R!Full - Level(k) <= MinuteTicks * After(k, u))
    BY <1>1, <1>2, <2>1, <2>2
  <2>4. BucketKept(k)
    BY <1>2, <2>1, <2>3 DEF BucketKept
  <2>5. QED
    BY <1>3, <1>6, <2>4 DEF Told, Lately
<1>8. WindowsInv
  <2>1. \A k \in DOMAIN windows : \A e \in windows[k] : e.at \in Nat
    BY <1>3
  <2>2. ASSUME NEW k \in Clientele
        PROVE  /\ passed.window[k] = IF k \in DOMAIN windows THEN R!Valid(windows[k]) ELSE {}
               /\ IsFiniteSet(passed.window[k]) /\ Cardinality(passed.window[k]) <= WindowLimit
    <3>1. passed.window[k] = {} /\ k \notin DOMAIN windows
      BY <1>3
    <3>2. Cardinality({}) <= WindowLimit
      BY <1>2, <1>6
    <3>3. QED
      BY <1>6, <3>1, <3>2
  <2>3. QED
    BY <2>1, <2>2 DEF WindowsInv
<1>9. EntriesInv
  <2>1. Uncounted(passed.redis) = {} /\ Adding(worker) = {}
    BY <1>1, <1>3 DEF Uncounted, Adding
  <2>2. 0 + 0 <= BurstMax - 1 + Cardinality(Processes) + 0 + 0
    BY <1>2
  <2>3. QED
    <3>1. Lately(passed.redis) /\ \A e \in passed.redis : e.counted = TRUE => [at |-> e.at, n |-> e.n] \in zset
      BY <1>3 DEF Lately
    <3>2. zset \in SUBSET Passing /\ IsFiniteSet(zset) /\ IsFiniteSet(passed.redis)
      BY <1>1, <1>3, <1>6
    <3>3. Cardinality(Uncounted(passed.redis)) = 0 /\ Cardinality(passed.redis) = 0 /\ Cardinality(Adding(worker)) = 0
      BY <1>3, <1>6, <2>1
    <3>4. Cardinality(Uncounted(passed.redis)) <= fault + merged
      BY <1>1, <3>3
    <3>5. Cardinality(passed.redis) + Cardinality(Adding(worker))
            <= BurstMax - 1 + Cardinality(Processes) + fault + merged
      BY <1>1, <2>2, <3>3
    <3>6. QED
      BY <3>1, <3>2, <3>4, <3>5 DEF EntriesInv
<1>10. QED
  BY <1>4, <1>5, <1>7, <1>8, <1>9 DEF RatesInv, BucketsInv

LEMMA RatesHolds == ASSUME R!RateLimitsAssumption, RatesInv PROVE R!RatesHold
<1>1. /\ MinuteTicks \in Nat \ {0} /\ R!Full \in Nat /\ R!Full = BucketRpm * MinuteTicks /\ BucketRpm \in Nat \ {0}
      /\ hour \in Nat /\ fault \in Nat /\ merged \in Nat /\ BurstMax \in Nat /\ Cardinality(Processes) \in Nat
      /\ IsFiniteSet(Processes) /\ WindowLimit \in Nat
  BY RateState, RateTypes
<1>2. R!Cardinality(passed.redis) = Cardinality(passed.redis) /\ R!Cardinality(Processes) = Cardinality(Processes)
      /\ \A k \in Clientele : /\ R!Cardinality(passed.bucket[k]) = Cardinality(passed.bucket[k])
                              /\ R!Cardinality(passed.window[k]) = Cardinality(passed.window[k])
  BY Zenon DEF R!Cardinality, Cardinality
<1>3. ASSUME NEW k \in Clientele
      PROVE  /\ R!Cardinality(passed.bucket[k]) <= 2 * BucketRpm
             /\ k \in DOMAIN buckets /\ R!Filled(buckets[k]) < MinuteTicks
                  => R!Cardinality(passed.bucket[k]) >= BucketRpm
  <2>1. PICK old \in SUBSET Passing : /\ old = passed.bucket[k] /\ IsFiniteSet(old) /\ Lately(old) /\ BucketKept(k)
    BY RateState DEF RatesInv, BucketsInv
  <2>2. PICK u \in hour - MinuteTicks .. hour : u = hour - MinuteTicks
    BY <1>1
  <2>3. R!Since(old, u) = old
    BY <1>1, <2>1, <2>2 DEF R!Since, Lately, Passing
  <2>4. PICK c \in Nat : c = Cardinality(old) /\ After(k, u) = c
    BY <2>1, <2>3, FS_CardinalityType DEF After
  <2>5. (hour - u) * BucketRpm = R!Full
    BY <1>1, <2>2
  <2>6. PICK f \in Nat : f = Level(k) /\ f <= R!Full
    BY <1>1, <2>1 DEF BucketKept
  <2>7. /\ MinuteTicks * c + f <= R!Full + R!Full
        /\ (R!Full - f <= MinuteTicks * c \/ R!Full - f <= MinuteTicks * c + (R!Full - R!Full))
    BY <2>1, <2>4, <2>5, <2>6 DEF BucketKept
  <2>8. PICK m \in Nat : m = MinuteTicks * c /\ m + f <= R!Full + R!Full /\ R!Full - f <= m
    BY <1>1, <2>4, <2>6, <2>7
  <2>9. c <= 2 * BucketRpm
    <3>1. SUFFICES ASSUME ~(c <= 2 * BucketRpm) PROVE FALSE
      OBVIOUS
    <3>2. PICK d \in Nat : c = 2 * BucketRpm + 1 + d
      <4>1. c - (2 * BucketRpm + 1) \in Nat /\ c = 2 * BucketRpm + 1 + (c - (2 * BucketRpm + 1))
        BY <1>1, <2>4, <3>1
      <4>2. QED
        BY <4>1
    <3>3. MinuteTicks * (2 * BucketRpm + 1 + d)
            = 2 * (BucketRpm * MinuteTicks) + MinuteTicks + MinuteTicks * d /\ MinuteTicks * d \in Nat
      BY <1>1, <3>2
    <3>4. PICK x \in Nat : x = MinuteTicks * d
      BY <3>3
    <3>5. m = 2 * R!Full + MinuteTicks + x
      BY <1>1, <2>8, <3>2, <3>3, <3>4
    <3>6. QED
      BY <1>1, <2>6, <2>8, <3>4, <3>5
  <2>10. ASSUME f < MinuteTicks PROVE c >= BucketRpm
    <3>1. SUFFICES ASSUME ~(c >= BucketRpm) PROVE FALSE
      OBVIOUS
    <3>2. PICK d \in Nat : BucketRpm = c + 1 + d
      <4>1. BucketRpm - (c + 1) \in Nat /\ BucketRpm = c + 1 + (BucketRpm - (c + 1))
        BY <1>1, <2>4, <3>1
      <4>2. QED
        BY <4>1
    <3>3. (c + 1 + d) * MinuteTicks = MinuteTicks * c + MinuteTicks + d * MinuteTicks /\ d * MinuteTicks \in Nat
      BY <1>1, <2>4, <3>2
    <3>4. PICK x \in Nat : x = d * MinuteTicks
      BY <3>3
    <3>5. R!Full = m + MinuteTicks + x
      BY <1>1, <2>8, <3>2, <3>3, <3>4
    <3>6. QED
      BY <1>1, <2>6, <2>8, <2>10, <3>4, <3>5
  <2>11. k \in DOMAIN buckets => R!Filled(buckets[k]) = f
    BY <2>6 DEF Level
  <2>12. QED
    BY <1>2, <2>1, <2>4, <2>9, <2>10, <2>11
<1>4. R!BucketHolds
  BY <1>3 DEF R!BucketHolds
<1>5. R!WindowHolds
  BY <1>2, Zenon DEF R!WindowHolds, RatesInv, WindowsInv
<1>6. R!RedisHolds
  <2>1. /\ Cardinality(passed.redis) + Cardinality(Adding(worker))
             <= BurstMax - 1 + Cardinality(Processes) + fault + merged
        /\ IsFiniteSet(passed.redis)
    BY DEF RatesInv, EntriesInv
  <2>2. Cardinality(Adding(worker)) \in Nat /\ Cardinality(passed.redis) \in Nat
    BY <1>1, <2>1, FewerThan, FS_CardinalityType DEF Adding
  <2>3. Cardinality(passed.redis) <= BurstMax + Cardinality(Processes) - 1 + fault + merged
    BY <1>1, <2>1, <2>2
  <2>4. QED
    BY <1>2, <2>3 DEF R!RedisHolds
<1>7. QED
  BY <1>4, <1>5, <1>6 DEF RatesInv, R!RatesHold
-------------------------------------------------------------------------------
(* What is computed about the behaviour.                                    *)

Step == {"idle", "daily", "sum", "week", "balance", "snapshot", "alert", "trigger", "publish", "mark",
         "contacts", "upsert", "declines"}
AtSteps(runs, pcs) == {r \in Processes : runs[r].pc \in pcs}
OfLate == {a \in alerts : a.day + AlertDays > hour}
Unmarked == {a \in alerts : \A d \in alerted : a.day > d}

RunsInv ==
  /\ DOMAIN compute = Processes
  /\ \A r \in Processes : /\ DOMAIN compute[r] = {"pc", "day", "began", "read"} /\ compute[r].pc \in Step
                          /\ compute[r].pc = "snapshot" => /\ compute[r].day \in DOMAIN daily
                                                           /\ compute[r].read \in 20 .. 100
  /\ \A d \in DOMAIN past : past[d].load \in Loads /\ past[d].level \in MailLevels \cup {B!None}
  /\ overlapped \in BOOLEAN

\* What a week lacks is what the only run is about to add.
Complete(w) == weekly[w] = B!MailsOf(B!DaysOf(w))
WeeksInv ==
  /\ \A d \in DOMAIN daily : daily[d] = past[d].load
  /\ \A w \in DOMAIN weekly : \E days \in SUBSET B!DaysOf(w) : weekly[w] = B!MailsOf(days)
  /\ \A r \in Processes : compute[r].pc = "week" =>
       \E days \in SUBSET B!DaysOf(B!WeekOf(compute[r].day)) : compute[r].read = B!MailsOf(days)
  /\ fault = 0 /\ overlapped = FALSE =>
       /\ \A r, o \in Processes : r = o \/ compute[r].pc = "idle" \/ compute[o].pc = "idle"
       /\ \A w \in DOMAIN weekly :
            \/ Complete(w)
            \/ \E r \in Processes : compute[r].pc \in {"sum", "week"} /\ B!WeekOf(compute[r].day) = w
       /\ \A r \in Processes : compute[r].pc = "week" =>
            compute[r].read = B!MailsOf(B!DaysOf(B!WeekOf(compute[r].day)))

\* Alerts that no mark has followed are of runs that have yet to mark, or have
\* failed to; and those of late leave room for who has passed the check.
AlertsInv ==
  /\ IsFiniteSet(alerts)
  /\ Cardinality(OfLate) + Cardinality(AtSteps(compute, {"trigger", "publish"})) <= Cardinality(Processes) + fault
  /\ Cardinality(Unmarked) <= Cardinality(AtSteps(compute, {"mark"})) + fault

DeclinesInv ==
  \A r \in Processes : compute[r].pc = "declines" =>
    contact.at >= compute[r].began \/ past[compute[r].day].level = B!None \/ fault > 0

BehaviorInv == B!TypeOK /\ RunsInv /\ WeeksInv /\ AlertsInv /\ DeclinesInv

LEMMA BehaviorTypes ==
  ASSUME B!BehaviorAssumption
  PROVE  /\ \A l \in Loads : l \in [after : 0 .. 100, weekend : Nat, first : 0 .. 23, last : 0 .. 23,
                                    sent : Nat, received : Nat]
         /\ {LateWorker, WeekendOk, HasAI} \subseteq BOOLEAN /\ MailLevels \subseteq 0 .. 4
         /\ {MetricWeek, AlertDays, AlertWindow} \subseteq Nat \ {0} /\ {KeepDays, BehaviorDays, MaxFaults} \subseteq Nat
         /\ IsFiniteSet(Processes) /\ Processes # {} /\ Cardinality(Processes) \in Nat
  BY FS_CardinalityType DEF B!BehaviorAssumption, B!IsFiniteSet, IsFiniteSet

LEMMA BehaviorState ==
  ASSUME B!BehaviorAssumption, BehaviorInv
  PROVE  /\ hour \in Nat /\ fault \in Nat /\ hour \in 0 .. BehaviorDays /\ fault \in 0 .. MaxFaults
         /\ BehaviorDays \in Nat /\ MaxFaults \in Nat
         /\ DOMAIN past = 0 .. hour - 1 /\ DOMAIN daily \subseteq DOMAIN past
         /\ \A r \in Processes : compute[r].pc # "idle" =>
              /\ compute[r].began \in 1 .. hour /\ compute[r].day = compute[r].began - 1
              /\ compute[r].day \in DOMAIN past /\ compute[r].day \in Nat
         /\ \A a \in alerts : a.day \in 0 .. hour
<1>1. BehaviorDays \in Nat /\ MaxFaults \in Nat
  BY BehaviorTypes
<1>2. /\ hour \in 0 .. BehaviorDays /\ fault \in 0 .. MaxFaults
      /\ DOMAIN past = 0 .. hour - 1 /\ DOMAIN daily \subseteq DOMAIN past
      /\ \A r \in Processes : compute[r].pc # "idle" =>
           compute[r].began \in 1 .. hour /\ compute[r].day = compute[r].began - 1
      /\ \A a \in alerts : a.day \in 0 .. hour
  BY DEF BehaviorInv, B!TypeOK
<1>3. hour \in Nat /\ fault \in Nat
  BY <1>1, <1>2
<1>4. \A r \in Processes : compute[r].pc # "idle" => compute[r].day \in DOMAIN past /\ compute[r].day \in Nat
  BY <1>2, <1>3
<1>5. QED
  BY <1>1, <1>2, <1>3, <1>4

\* A run that goes on keeps its day.
Others(r) == \A o \in Processes \ {r} : compute'[o] = compute[o]
Kept(r) == /\ DOMAIN compute' = Processes /\ Others(r)
           /\ \A o \in Processes : DOMAIN compute'[o] = {"pc", "day", "began", "read"}
           /\ compute'[r].day = compute[r].day /\ compute'[r].began = compute[r].began

LEMMA RunGoes ==
  ASSUME RunsInv, NEW r \in Processes, NEW pc, B!Goto(r, pc)
  PROVE  Kept(r) /\ compute'[r].pc = pc /\ compute'[r].read = compute[r].read
<1>1. compute' = [compute EXCEPT ![r].pc = pc]
  BY DEF B!Goto
<1>2. PICK d : d = [compute[r] EXCEPT !.pc = pc]
  OBVIOUS
<1>3. compute' = [compute EXCEPT ![r] = d]
  BY <1>1, <1>2
<1>4. /\ DOMAIN compute = Processes
      /\ \A o \in Processes : DOMAIN compute[o] = {"pc", "day", "began", "read"}
  BY DEF RunsInv
<1>5. DOMAIN d = {"pc", "day", "began", "read"} /\ d.pc = pc /\ d.day = compute[r].day
      /\ d.began = compute[r].began /\ d.read = compute[r].read
  BY <1>2, <1>4
<1>6. QED
  BY <1>3, <1>4, <1>5 DEF Kept, Others

LEMMA RunReads ==
  ASSUME RunsInv, NEW r \in Processes, NEW pc, NEW v, B!Reads(r, pc, v)
  PROVE  Kept(r) /\ compute'[r].pc = pc /\ compute'[r].read = v
<1>1. compute' = [compute EXCEPT ![r].pc = pc, ![r].read = v]
  BY DEF B!Reads
<1>2. PICK d : d = [[compute[r] EXCEPT !.pc = pc] EXCEPT !.read = v]
  OBVIOUS
<1>3. /\ DOMAIN compute = Processes
      /\ \A o \in Processes : DOMAIN compute[o] = {"pc", "day", "began", "read"}
  BY DEF RunsInv
<1>4. compute' = [compute EXCEPT ![r] = d]
  BY <1>1, <1>2, <1>3
<1>5. DOMAIN d = {"pc", "day", "began", "read"} /\ d.pc = pc /\ d.day = compute[r].day
      /\ d.began = compute[r].began /\ d.read = v
  BY <1>2, <1>3
<1>6. QED
  BY <1>3, <1>4, <1>5 DEF Kept, Others

LEMMA RunBegins ==
  ASSUME RunsInv, NEW r \in Processes, B!Begin(r)
  PROVE  /\ DOMAIN compute' = Processes /\ Others(r)
         /\ \A o \in Processes : DOMAIN compute'[o] = {"pc", "day", "began", "read"}
         /\ compute'[r].pc = "daily" /\ compute'[r].day = hour - 1 /\ compute'[r].began = hour
<1>1. PICK d : d = [[[B!Idle EXCEPT !.pc = "daily"] EXCEPT !.day = hour - 1] EXCEPT !.began = hour]
  OBVIOUS
<1>2. compute' = [compute EXCEPT ![r] = d]
  BY <1>1 DEF B!Begin
<1>3. DOMAIN d = {"pc", "day", "began", "read"} /\ d.pc = "daily" /\ d.day = hour - 1 /\ d.began = hour
  BY <1>1 DEF B!Idle
<1>4. /\ DOMAIN compute = Processes
      /\ \A o \in Processes : DOMAIN compute[o] = {"pc", "day", "began", "read"}
  BY DEF RunsInv
<1>5. QED
  BY <1>2, <1>3, <1>4 DEF Others

\* The score is of its range.
LEMMA SmallerOf ==
  ASSUME NEW a \in Int, NEW b \in Int
  PROVE  B!Min({a, b}) = IF a <= b THEN a ELSE b
<1>1. PICK m : m = IF a <= b THEN a ELSE b
  OBVIOUS
<1>2. m \in {a, b} /\ \A y \in {a, b} : m <= y
  BY <1>1
<1>3. \A x \in {a, b} : (\A y \in {a, b} : x <= y) => x = m
  BY <1>2
<1>4. QED
  BY <1>1, <1>2, <1>3 DEF B!Min

LEMMA LargerOf ==
  ASSUME NEW a \in Int, NEW b \in Int
  PROVE  B!Max({a, b}) = IF a >= b THEN a ELSE b
<1>1. PICK m : m = IF a >= b THEN a ELSE b
  OBVIOUS
<1>2. m \in {a, b} /\ \A y \in {a, b} : m >= y
  BY <1>1
<1>3. \A x \in {a, b} : (\A y \in {a, b} : x >= y) => x = m
  BY <1>2
<1>4. QED
  BY <1>1, <1>2, <1>3 DEF B!Max

LEMMA ScoreRange ==
  ASSUME B!BehaviorAssumption, NEW l \in Loads, NEW busy \in BOOLEAN
  PROVE  B!Score(l, busy) \in 20 .. 100
<1>1. PICK a \in 0 .. 100, k \in Nat : a = l.after /\ k = l.weekend
  BY BehaviorTypes
<1>2. PICK x \in Nat : x <= 3000 /\ x = B!Min({l.after * 60, 3000})
  BY <1>1, SmallerOf
<1>3. PICK y \in Nat : y <= 2000 /\ y = B!Min({l.weekend * 200, 2000})
  BY <1>1, SmallerOf
<1>4. PICK p \in Nat : p <= 3000 /\ p = x \div (IF LateWorker THEN 2 ELSE 1)
  <2>1. x \in Nat /\ x <= 3000
    BY <1>2
  <2>2. x \div 2 \in Nat /\ x \div 2 <= 3000 /\ x \div 1 \in Nat /\ x \div 1 <= 3000
    BY <2>1
  <2>3. PICK m : m = x \div (IF LateWorker THEN 2 ELSE 1)
    OBVIOUS
  <2>4. m = x \div 2 \/ m = x \div 1
    BY <2>3
  <2>5. QED
    BY <2>2, <2>3, <2>4
<1>5. PICK q \in Nat : q <= 2000 /\ q = y \div (IF WeekendOk THEN 2 ELSE 1)
  <2>1. y \in Nat /\ y <= 2000
    BY <1>3
  <2>2. y \div 2 \in Nat /\ y \div 2 <= 2000 /\ y \div 1 \in Nat /\ y \div 1 <= 2000
    BY <2>1
  <2>3. PICK m : m = y \div (IF WeekendOk THEN 2 ELSE 1)
    OBVIOUS
  <2>4. m = y \div 2 \/ m = y \div 1
    BY <2>3
  <2>5. QED
    BY <2>2, <2>3, <2>4
<1>6. PICK b \in Nat : b <= 2000 /\ b = (IF l.first < 7 THEN 1000 ELSE 0) + (IF l.last >= 22 THEN 1000 ELSE 0)
  <2>1. PICK m \in Nat, n \in Nat : /\ m = (IF l.first < 7 THEN 1000 ELSE 0) /\ m <= 1000
                                    /\ n = (IF l.last >= 22 THEN 1000 ELSE 0) /\ n <= 1000
    <3>1. PICK m, n : m = (IF l.first < 7 THEN 1000 ELSE 0) /\ n = (IF l.last >= 22 THEN 1000 ELSE 0)
      OBVIOUS
    <3>2. m \in {0, 1000} /\ n \in {0, 1000}
      BY <3>1
    <3>3. QED
      BY <3>1, <3>2
  <2>2. m + n \in Nat /\ m + n <= 2000
    BY <2>1
  <2>3. QED
    BY <2>1, <2>2
<1>7. PICK z \in Nat : z <= 1000 /\ z = IF busy THEN 1000 ELSE 0
  <2>1. CASE busy = TRUE
    BY <2>1
  <2>2. CASE busy = FALSE
    BY <2>2
  <2>3. QED
    BY <2>1, <2>2
<1>8. PICK t \in Nat : t <= 8000 /\ t = p + q + b + z
  BY <1>4, <1>5, <1>6, <1>7
<1>9. PICK h \in Nat : h <= 80 /\ h = (t + 50) \div 100
  BY <1>8
<1>10. B!Score(l, busy) = B!Max({0, 100 - h})
  <2>1. B!Score(l, busy)
          = B!Max({0, 100 - (((B!Min({l.after * 60, 3000}) \div (IF LateWorker THEN 2 ELSE 1))
                              + (B!Min({l.weekend * 200, 2000}) \div (IF WeekendOk THEN 2 ELSE 1))
                              + ((IF l.first < 7 THEN 1000 ELSE 0) + (IF l.last >= 22 THEN 1000 ELSE 0))
                              + (IF busy THEN 1000 ELSE 0)) + 50) \div 100})
    BY Zenon DEF B!Score
  <2>2. /\ x = B!Min({l.after * 60, 3000}) /\ y = B!Min({l.weekend * 200, 2000})
        /\ p = x \div (IF LateWorker THEN 2 ELSE 1) /\ q = y \div (IF WeekendOk THEN 2 ELSE 1)
        /\ b = (IF l.first < 7 THEN 1000 ELSE 0) + (IF l.last >= 22 THEN 1000 ELSE 0)
        /\ z = (IF busy THEN 1000 ELSE 0)
    BY <1>2, <1>3, <1>4, <1>5, <1>6, <1>7
  <2>3. /\ p = B!Min({l.after * 60, 3000}) \div (IF LateWorker THEN 2 ELSE 1)
        /\ q = B!Min({l.weekend * 200, 2000}) \div (IF WeekendOk THEN 2 ELSE 1)
    BY <2>2, Zenon
  <2>4. B!Score(l, busy) = B!Max({0, 100 - ((p + q + b + z) + 50) \div 100})
    BY <2>1, <2>2, <2>3
  <2>5. t = p + q + b + z /\ h = (t + 50) \div 100
    BY <1>8, <1>9
  <2>6. QED
    BY <2>4, <2>5
<1>11. 0 \in Int /\ 100 - h \in 20 .. 100
  BY <1>9
<1>12. B!Max({0, 100 - h}) = 100 - h
  BY <1>11, LargerOf
<1>13. QED
  BY <1>10, <1>11, <1>12

\* What a run does after it has begun.
Going(r) ==
  \/ B!StoreDaily(r) \/ B!SumWeek(r) \/ B!StoreWeek(r) \/ B!ComputeWLB(r) \/ B!StoreSnapshot(r)
  \/ B!CheckWLBAlerts(r) \/ B!ReadSnapshots(r) \/ B!PublishAlert(r) \/ B!MarkAlert(r)
  \/ B!ReadContact(r) \/ B!UpsertContact(r) \/ B!CleanupWLBSnapshots(r) \/ B!StepFails(r) \/ B!Cut(r)
Timed(runs, t) ==
  \A r \in Processes : runs[r].pc = "idle" \/ (runs[r].day = runs[r].began - 1 /\ runs[r].began \in 1 .. t)

LEMMA RunGoesOn ==
  ASSUME B!BehaviorAssumption, BehaviorInv, NEW r \in Processes, Going(r)
  PROVE  /\ Kept(r) /\ compute[r].pc # "idle" /\ compute'[r].pc \in Step
         /\ UNCHANGED <<past, overlapped, hour>>
         /\ compute'[r].pc = "snapshot" => compute[r].day \in DOMAIN daily /\ compute'[r].read \in 20 .. 100
         /\ fault' \in 0 .. MaxFaults /\ (fault' = fault \/ fault' = fault + 1)
<1>1. RunsInv /\ fault \in Nat /\ fault \in 0 .. MaxFaults /\ MaxFaults \in Nat
  BY BehaviorState DEF BehaviorInv
<1>2. ASSUME NEW pc \in Step \ {"snapshot"}, B!Goto(r, pc)
      PROVE  /\ Kept(r) /\ compute'[r].pc \in Step
             /\ compute'[r].pc = "snapshot" => compute[r].day \in DOMAIN daily /\ compute'[r].read \in 20 .. 100
  BY <1>1, <1>2, RunGoes
<1>3. ASSUME NEW pc \in Step \ {"snapshot"}, NEW v, B!Reads(r, pc, v)
      PROVE  /\ Kept(r) /\ compute'[r].pc \in Step
             /\ compute'[r].pc = "snapshot" => compute[r].day \in DOMAIN daily /\ compute'[r].read \in 20 .. 100
  BY <1>1, <1>3, RunReads
<1>4. B!Fault => fault' \in 0 .. MaxFaults /\ fault' = fault + 1
  BY <1>1 DEF B!Fault
<1>5. fault' = fault => fault' \in 0 .. MaxFaults
  BY <1>1
<1>6. CASE B!StoreDaily(r) \/ B!StoreSnapshot(r) \/ B!MarkAlert(r) \/ B!UpsertContact(r) \/ B!CleanupWLBSnapshots(r)
           \/ B!StoreWeek(r)
  <2>1. \E pc \in Step \ {"snapshot"} : B!Goto(r, pc)
    BY <1>6 DEF B!StoreDaily, B!StoreSnapshot, B!MarkAlert, B!UpsertContact, B!CleanupWLBSnapshots, B!StoreWeek, Step
  <2>2. fault' = fault /\ UNCHANGED <<past, overlapped, hour>> /\ compute[r].pc # "idle"
    BY <1>6 DEF B!StoreDaily, B!StoreSnapshot, B!MarkAlert, B!UpsertContact, B!CleanupWLBSnapshots, B!StoreWeek
  <2>3. QED
    BY <1>2, <1>5, <2>1, <2>2
<1>7. CASE B!CheckWLBAlerts(r) \/ B!ReadSnapshots(r) \/ B!PublishAlert(r)
  <2>1. \E pc \in Step \ {"snapshot"} : B!Goto(r, pc)
    BY <1>7 DEF B!CheckWLBAlerts, B!ReadSnapshots, B!PublishAlert, Step
  <2>2. (fault' = fault \/ B!Fault) /\ UNCHANGED <<past, overlapped, hour>> /\ compute[r].pc # "idle"
    BY <1>7 DEF B!CheckWLBAlerts, B!ReadSnapshots, B!PublishAlert
  <2>3. QED
    BY <1>2, <1>4, <1>5, <2>1, <2>2
<1>8. CASE B!SumWeek(r)
  BY <1>3, <1>5, <1>8 DEF B!SumWeek, Step
<1>9. CASE B!ReadContact(r)
  BY <1>2, <1>3, <1>5, <1>9 DEF B!ReadContact, Step
<1>10. CASE B!ComputeWLB(r)
  <2>1. fault' = fault /\ UNCHANGED <<past, overlapped, hour>> /\ compute[r].pc # "idle"
    BY <1>10 DEF B!ComputeWLB
  <2>2. PICK d : d = compute[r].day
    OBVIOUS
  <2>3. IF d \in DOMAIN daily THEN B!Reads(r, "snapshot", B!Score(daily[d], B!Busy(d))) ELSE B!Goto(r, "alert")
    BY <1>10, <2>2 DEF B!ComputeWLB
  <2>4. CASE d \notin DOMAIN daily
    BY <1>2, <1>5, <2>1, <2>3, <2>4 DEF Step
  <2>5. CASE d \in DOMAIN daily
    <3>1. daily[d] \in Loads
      BY <1>1, <2>5, BehaviorState DEF BehaviorInv, WeeksInv, RunsInv
    <3>2. B!Busy(d) \in BOOLEAN
      BY DEF B!Busy
    <3>3. B!Score(daily[d], B!Busy(d)) \in 20 .. 100
      BY <3>1, <3>2, ScoreRange
    <3>4. Kept(r) /\ compute'[r].pc = "snapshot" /\ compute'[r].read = B!Score(daily[d], B!Busy(d))
      BY <1>1, <2>3, <2>5, RunReads
    <3>5. QED
      BY <1>5, <2>1, <2>2, <2>5, <3>3, <3>4 DEF Step
  <2>6. QED
    BY <2>4, <2>5
<1>11. CASE B!StepFails(r) \/ B!Cut(r)
  BY <1>2, <1>4, <1>11 DEF B!StepFails, B!Cut, B!After, Step
<1>12. QED
  BY <1>6, <1>7, <1>8, <1>9, <1>10, <1>11 DEF Going

LEMMA RunsGoOn ==
  ASSUME B!BehaviorAssumption, BehaviorInv, NEW r \in Processes, Going(r), DOMAIN daily \subseteq DOMAIN daily'
  PROVE  RunsInv' /\ Timed(compute', hour')
<1>1. /\ Kept(r) /\ compute[r].pc # "idle" /\ compute'[r].pc \in Step
      /\ UNCHANGED <<past, overlapped, hour>>
      /\ compute'[r].pc = "snapshot" => compute[r].day \in DOMAIN daily /\ compute'[r].read \in 20 .. 100
  BY RunGoesOn
<1>2. RunsInv /\ Timed(compute, hour)
  BY DEF BehaviorInv, B!TypeOK, Timed
<1>3. ASSUME NEW o \in Processes
      PROVE  /\ DOMAIN compute'[o] = {"pc", "day", "began", "read"} /\ compute'[o].pc \in Step
             /\ compute'[o].pc = "snapshot" => compute'[o].day \in DOMAIN daily' /\ compute'[o].read \in 20 .. 100
             /\ compute'[o].pc = "idle" \/ (compute'[o].day = compute'[o].began - 1 /\ compute'[o].began \in 1 .. hour')
  <2>1. CASE o = r
    BY <1>1, <1>2, <2>1 DEF Kept, Timed
  <2>2. CASE o # r
    BY <1>1, <1>2, <2>2 DEF Kept, Others, RunsInv, Timed
  <2>3. QED
    BY <2>1, <2>2
<1>4. QED
  BY <1>1, <1>2, <1>3 DEF RunsInv, Timed, Kept

LEMMA DayPasses ==
  ASSUME B!BehaviorAssumption, BehaviorInv, B!NextDay
  PROVE  /\ hour' = hour + 1 /\ hour' \in 0 .. BehaviorDays /\ 0 .. hour \subseteq 0 .. hour'
         /\ DOMAIN past' = 0 .. hour' - 1 /\ DOMAIN past \subseteq DOMAIN past'
         /\ \A d \in DOMAIN past : past'[d] = past[d]
         /\ \A d \in DOMAIN past' : past'[d].load \in Loads /\ past'[d].level \in MailLevels \cup {B!None}
         /\ UNCHANGED <<daily, weekly, snapshot, alerted, contact, compute, alerts, overlapped, fault>>
<1>1. /\ hour \in Nat /\ BehaviorDays \in Nat /\ DOMAIN past = 0 .. hour - 1
  BY BehaviorState
<1>2. PICK l \in Loads, v \in MailLevels \cup {B!None} : past' = B!With(past, hour, [load |-> l, level |-> v])
  BY DEF B!NextDay
<1>3. hour < BehaviorDays /\ hour' = hour + 1
      /\ UNCHANGED <<daily, weekly, snapshot, alerted, contact, compute, alerts, overlapped, fault>>
  BY DEF B!NextDay
<1>4. DOMAIN past' = DOMAIN past \cup {hour}
      /\ \A d \in DOMAIN past' : past'[d] = IF d = hour THEN [load |-> l, level |-> v] ELSE past[d]
  BY <1>2 DEF B!With
<1>5. (0 .. hour - 1) \cup {hour} = 0 .. hour' - 1 /\ hour \notin 0 .. hour - 1
  BY <1>1, <1>3
<1>6. \A d \in DOMAIN past : past[d].load \in Loads /\ past[d].level \in MailLevels \cup {B!None}
  BY DEF BehaviorInv, RunsInv
<1>7. hour' \in 0 .. BehaviorDays /\ 0 .. hour \subseteq 0 .. hour'
  BY <1>1, <1>3
<1>8. \A d \in DOMAIN past : d # hour /\ d \in DOMAIN past'
  BY <1>1, <1>4, <1>5
<1>9. \A d \in DOMAIN past' : past'[d].load \in Loads /\ past'[d].level \in MailLevels \cup {B!None}
  <2>1. TAKE d \in DOMAIN past'
  <2>2. CASE d = hour
    BY <1>2, <1>4, <2>2
  <2>3. CASE d # hour
    BY <1>4, <1>6, <2>3
  <2>4. QED
    BY <2>2, <2>3
<1>10. QED
  BY <1>1, <1>3, <1>4, <1>5, <1>7, <1>8, <1>9

LEMMA RunsNext ==
  ASSUME B!BehaviorAssumption, BehaviorInv, B!Next
  PROVE  RunsInv' /\ Timed(compute', hour') /\ DOMAIN past' = 0 .. hour' - 1
         /\ hour' \in 0 .. BehaviorDays /\ fault' \in 0 .. MaxFaults /\ 0 .. hour \subseteq 0 .. hour'
         /\ DOMAIN daily \subseteq DOMAIN daily' /\ DOMAIN daily' \subseteq DOMAIN past'
<1>1. /\ hour \in Nat /\ DOMAIN past = 0 .. hour - 1 /\ DOMAIN daily \subseteq DOMAIN past
      /\ hour \in 0 .. BehaviorDays /\ fault \in 0 .. MaxFaults
      /\ \A r \in Processes : compute[r].pc # "idle" => compute[r].day \in DOMAIN past
  BY BehaviorState
<1>2. RunsInv /\ Timed(compute, hour)
  BY DEF BehaviorInv, B!TypeOK, Timed
<1>3. CASE B!NextDay
  BY <1>1, <1>2, <1>3, DayPasses DEF Timed, RunsInv
<1>4. CASE \E r \in Processes : B!Begin(r)
  <2>1. PICK r \in Processes : B!Begin(r)
    BY <1>4
  <2>2. /\ DOMAIN compute' = Processes /\ Others(r)
        /\ \A o \in Processes : DOMAIN compute'[o] = {"pc", "day", "began", "read"}
        /\ compute'[r].pc = "daily" /\ compute'[r].day = hour - 1 /\ compute'[r].began = hour
    BY <1>2, <2>1, RunBegins
  <2>3. hour > 0 /\ UNCHANGED <<past, daily, hour, fault>> /\ overlapped' \in BOOLEAN
    BY <2>1 DEF B!Begin
  <2>4. hour \in 1 .. hour
    BY <1>1, <2>3
  <2>5. ASSUME NEW o \in Processes
        PROVE  /\ compute'[o].pc \in Step
               /\ compute'[o].pc = "snapshot" => compute'[o].day \in DOMAIN daily' /\ compute'[o].read \in 20 .. 100
               /\ compute'[o].pc = "idle" \/ (compute'[o].day = compute'[o].began - 1 /\ compute'[o].began \in 1 .. hour')
    <3>1. CASE o = r
      BY <2>2, <2>3, <2>4, <3>1 DEF Step
    <3>2. CASE o # r
      BY <1>2, <2>2, <2>3, <3>2 DEF RunsInv, Timed, Others
    <3>3. QED
      BY <3>1, <3>2
  <2>6. RunsInv' /\ Timed(compute', hour')
    BY <1>2, <2>2, <2>3, <2>5 DEF RunsInv, Timed
  <2>7. QED
    BY <1>1, <2>3, <2>6
<1>5. CASE \E r \in Processes : Going(r)
  <2>1. PICK r \in Processes : Going(r)
    BY <1>5
  <2>2. UNCHANGED <<past, hour>> /\ fault' \in 0 .. MaxFaults /\ compute[r].pc # "idle"
    BY <2>1, RunGoesOn
  <2>3. DOMAIN daily' = DOMAIN daily \/ DOMAIN daily' = DOMAIN daily \cup {compute[r].day}
    BY <2>1 DEF Going, B!StoreDaily, B!SumWeek, B!StoreWeek, B!ComputeWLB, B!StoreSnapshot, B!CheckWLBAlerts,
                B!ReadSnapshots, B!PublishAlert, B!MarkAlert, B!ReadContact, B!UpsertContact,
                B!CleanupWLBSnapshots, B!StepFails, B!Cut, B!With
  <2>4. RunsInv' /\ Timed(compute', hour')
    BY <2>1, <2>3, RunsGoOn
  <2>5. QED
    BY <1>1, <2>2, <2>3, <2>4
<1>6. QED
  BY <1>3, <1>4, <1>5 DEF B!Next, Going

LEMMA BehaviorTypeNext ==
  ASSUME B!BehaviorAssumption, BehaviorInv, B!Next
  PROVE  B!TypeOK'
<1>1. B!TypeOK /\ RunsInv
  BY DEF BehaviorInv
<1>2. /\ DOMAIN past' = 0 .. hour' - 1 /\ hour' \in 0 .. BehaviorDays /\ fault' \in 0 .. MaxFaults
      /\ 0 .. hour \subseteq 0 .. hour' /\ Timed(compute', hour')
      /\ DOMAIN daily \subseteq DOMAIN daily' /\ DOMAIN daily' \subseteq DOMAIN past'
  BY RunsNext
<1>3. hour \in Nat /\ \A r \in Processes : compute[r].pc # "idle" => compute[r].day \in DOMAIN past
  BY BehaviorState
<1>4. SUFFICES /\ DOMAIN snapshot' \subseteq DOMAIN daily' /\ \A d \in DOMAIN snapshot' : snapshot'[d] \in 20 .. 100
               /\ alerted' \in {{}} \cup {{d} : d \in 0 .. hour'} /\ contact'.level \in MailLevels \cup {B!None}
               /\ \A a \in alerts' : a.day \in 0 .. hour'
  BY <1>2, Zenon DEF B!TypeOK, Timed
<1>5. /\ DOMAIN snapshot \subseteq DOMAIN daily' /\ \A d \in DOMAIN snapshot : snapshot[d] \in 20 .. 100
      /\ contact.level \in MailLevels \cup {B!None} /\ \A a \in alerts : a.day \in 0 .. hour'
  BY <1>1, <1>2 DEF B!TypeOK
<1>6. alerted \in {{}} \cup {{d} : d \in 0 .. hour'}
  BY <1>1, <1>2 DEF B!TypeOK
<1>7. CASE UNCHANGED <<snapshot, alerted, contact, alerts>>
  BY <1>5, <1>6, <1>7
<1>8. CASE \E r \in Processes : B!StoreSnapshot(r)
  <2>1. PICK r \in Processes : B!StoreSnapshot(r)
    BY <1>8
  <2>2. UNCHANGED <<alerted, contact, alerts>> /\ snapshot' = B!With(snapshot, compute[r].day, compute[r].read)
    BY <2>1 DEF B!StoreSnapshot
  <2>3. compute[r].day \in DOMAIN daily /\ compute[r].read \in 20 .. 100
    BY <1>1, <2>1 DEF B!StoreSnapshot, RunsInv
  <2>4. DOMAIN snapshot' \subseteq DOMAIN daily' /\ \A d \in DOMAIN snapshot' : snapshot'[d] \in 20 .. 100
    BY <1>2, <1>5, <2>2, <2>3 DEF B!With
  <2>5. QED
    BY <1>5, <1>6, <2>2, <2>4
<1>9. CASE \E r \in Processes : B!CleanupWLBSnapshots(r)
  BY <1>5, <1>6, <1>9 DEF B!CleanupWLBSnapshots
<1>10. CASE \E r \in Processes : B!PublishAlert(r)
  <2>1. PICK r \in Processes : B!PublishAlert(r)
    BY <1>10
  <2>2. UNCHANGED <<alerted, contact, snapshot, hour>>
        /\ (alerts' = alerts \/ \E n : alerts' = alerts \cup {[day |-> hour, n |-> n]})
    BY <2>1 DEF B!PublishAlert
  <2>3. hour \in 0 .. hour'
    BY <1>3, <2>2
  <2>4. \A a \in alerts' : a.day \in 0 .. hour'
    BY <1>5, <2>2, <2>3
  <2>5. QED
    BY <1>5, <1>6, <2>2, <2>4
<1>11. CASE \E r \in Processes : B!MarkAlert(r)
  BY <1>3, <1>5, <1>11 DEF B!MarkAlert
<1>12. CASE \E r \in Processes : B!UpsertContact(r)
  <2>1. PICK r \in Processes : B!UpsertContact(r)
    BY <1>12
  <2>2. UNCHANGED <<alerted, alerts, snapshot>> /\ contact'.level = past[compute[r].day].level /\ compute[r].pc # "idle"
    BY <2>1 DEF B!UpsertContact
  <2>3. contact'.level \in MailLevels \cup {B!None}
    BY <1>1, <1>3, <2>2 DEF RunsInv
  <2>4. QED
    BY <1>5, <1>6, <2>2, <2>3
<1>13. CASE B!NextDay
  BY <1>7, <1>13 DEF B!NextDay
<1>14. CASE \E r \in Processes :
              \/ B!Begin(r) \/ B!StoreDaily(r) \/ B!SumWeek(r) \/ B!StoreWeek(r) \/ B!ComputeWLB(r)
              \/ B!CheckWLBAlerts(r) \/ B!ReadSnapshots(r) \/ B!ReadContact(r) \/ B!StepFails(r) \/ B!Cut(r)
  BY <1>7, <1>14 DEF B!Begin, B!StoreDaily, B!SumWeek, B!StoreWeek, B!ComputeWLB, B!CheckWLBAlerts,
                     B!ReadSnapshots, B!ReadContact, B!StepFails, B!Cut
<1>15. QED
  BY <1>8, <1>9, <1>10, <1>11, <1>12, <1>13, <1>14 DEF B!Next

LEMMA DeclinesNext ==
  ASSUME B!BehaviorAssumption, BehaviorInv, B!Next
  PROVE  DeclinesInv'
<1>1. DeclinesInv /\ RunsInv
  BY DEF BehaviorInv
<1>2. /\ hour \in Nat /\ fault \in Nat /\ MaxFaults \in Nat
      /\ \A r \in Processes : compute[r].pc # "idle" =>
           compute[r].day \in DOMAIN past /\ compute[r].began \in 1 .. hour
  BY BehaviorState
<1>3. CASE B!NextDay
  BY <1>1, <1>2, <1>3, DayPasses DEF DeclinesInv
<1>4. CASE \E r \in Processes : B!Begin(r)
  <2>1. PICK r \in Processes : B!Begin(r)
    BY <1>4
  <2>2. Others(r) /\ compute'[r].pc = "daily" /\ UNCHANGED <<past, contact, fault>>
    BY <1>1, <2>1, RunBegins DEF B!Begin
  <2>3. QED
    BY <1>1, <2>2 DEF DeclinesInv, Others
<1>5. CASE \E r \in Processes : Going(r)
  <2>1. PICK r \in Processes : Going(r)
    BY <1>5
  <2>2. Kept(r) /\ UNCHANGED <<past, hour>> /\ (fault' = fault \/ fault' = fault + 1) /\ compute[r].pc # "idle"
    BY <2>1, RunGoesOn
  <2>3. contact' = contact \/ contact'.at = hour
    BY <2>1 DEF Going, B!StoreDaily, B!SumWeek, B!StoreWeek, B!ComputeWLB, B!StoreSnapshot, B!CheckWLBAlerts,
                B!ReadSnapshots, B!PublishAlert, B!MarkAlert, B!ReadContact, B!UpsertContact,
                B!CleanupWLBSnapshots, B!StepFails, B!Cut
  <2>4. ASSUME NEW o \in Processes \ {r}, compute'[o].pc = "declines"
        PROVE  contact'.at >= compute'[o].began \/ past'[compute'[o].day].level = B!None \/ fault' > 0
    <3>1. compute'[o] = compute[o] /\ past' = past
      BY <2>2 DEF Kept, Others
    <3>2. contact.at >= compute[o].began \/ past[compute[o].day].level = B!None \/ fault > 0
      BY <1>1, <2>4, <3>1 DEF DeclinesInv
    <3>3. compute[o].began \in 1 .. hour
      BY <1>2, <2>4, <3>1
    <3>4. hour >= compute[o].began
      BY <1>2, <3>3
    <3>5. fault > 0 => fault' > 0
      BY <1>2, <2>2
    <3>6. QED
      BY <2>3, <3>1, <3>2, <3>4, <3>5
  <2>5. ASSUME compute'[r].pc = "declines"
        PROVE  contact'.at >= compute'[r].began \/ past'[compute'[r].day].level = B!None \/ fault' > 0
    <3>1. compute'[r].began = compute[r].began /\ compute'[r].day = compute[r].day /\ hour >= compute[r].began
      BY <1>2, <2>2 DEF Kept
    <3>2. CASE B!ReadContact(r)
      <4>1. past[compute[r].day].level = B!None
        <5>1. ASSUME past[compute[r].day].level # B!None PROVE FALSE
          BY <1>1, <2>5, <3>2, <5>1, RunReads DEF B!ReadContact
        <5>2. QED
          BY <5>1
      <4>2. QED
        BY <2>2, <3>1, <4>1
    <3>3. CASE B!UpsertContact(r)
      BY <3>1, <3>3 DEF B!UpsertContact
    <3>4. CASE B!StepFails(r) \/ B!Cut(r)
      BY <1>2, <3>4 DEF B!StepFails, B!Cut, B!Fault
    <3>5. CASE B!SumWeek(r)
      BY <1>1, <2>5, <3>5, RunReads DEF B!SumWeek
    <3>6. CASE B!ComputeWLB(r)
      BY <1>1, <2>5, <3>6, RunReads, RunGoes DEF B!ComputeWLB
    <3>7. CASE B!StoreDaily(r) \/ B!StoreWeek(r) \/ B!StoreSnapshot(r) \/ B!CheckWLBAlerts(r)
               \/ B!ReadSnapshots(r) \/ B!PublishAlert(r) \/ B!MarkAlert(r) \/ B!CleanupWLBSnapshots(r)
      <4>1. \E pc : pc # "declines" /\ B!Goto(r, pc)
        BY <3>7 DEF B!StoreDaily, B!StoreWeek, B!StoreSnapshot, B!CheckWLBAlerts, B!ReadSnapshots,
                    B!PublishAlert, B!MarkAlert, B!CleanupWLBSnapshots
      <4>2. QED
        BY <1>1, <2>5, <4>1, RunGoes
    <3>8. QED
      BY <2>1, <3>2, <3>3, <3>4, <3>5, <3>6, <3>7 DEF Going
  <2>6. QED
    BY <2>4, <2>5 DEF DeclinesInv
<1>6. QED
  BY <1>3, <1>4, <1>5 DEF B!Next, Going

LEMMA StepsMove ==
  ASSUME B!BehaviorAssumption, NEW pcs, NEW old, NEW new, NEW r \in Processes,
         \A o \in Processes \ {r} : new[o] = old[o]
  PROVE  /\ Cardinality(AtSteps(old, pcs)) \in Nat /\ Cardinality(AtSteps(new, pcs)) \in Nat
         /\ new[r].pc \in pcs /\ old[r].pc \notin pcs
              => Cardinality(AtSteps(new, pcs)) = Cardinality(AtSteps(old, pcs)) + 1
         /\ new[r].pc \notin pcs /\ old[r].pc \in pcs
              => Cardinality(AtSteps(new, pcs)) = Cardinality(AtSteps(old, pcs)) - 1
         /\ (new[r].pc \in pcs <=> old[r].pc \in pcs)
              => Cardinality(AtSteps(new, pcs)) = Cardinality(AtSteps(old, pcs))
<1>1. IsFiniteSet(Processes) /\ AtSteps(old, pcs) \in SUBSET Processes /\ AtSteps(new, pcs) \in SUBSET Processes
  BY BehaviorTypes DEF AtSteps
<1>2. /\ IsFiniteSet(AtSteps(old, pcs)) /\ IsFiniteSet(AtSteps(new, pcs))
      /\ Cardinality(AtSteps(old, pcs)) \in Nat /\ Cardinality(AtSteps(new, pcs)) \in Nat
  BY <1>1, FS_Subset, FS_CardinalityType
<1>3. ASSUME new[r].pc \in pcs, old[r].pc \notin pcs
      PROVE  Cardinality(AtSteps(new, pcs)) = Cardinality(AtSteps(old, pcs)) + 1
  <2>1. AtSteps(new, pcs) = AtSteps(old, pcs) \cup {r} /\ r \notin AtSteps(old, pcs)
    BY <1>3 DEF AtSteps
  <2>2. QED
    BY <1>2, <2>1, FS_AddElement
<1>4. ASSUME new[r].pc \notin pcs, old[r].pc \in pcs
      PROVE  Cardinality(AtSteps(new, pcs)) = Cardinality(AtSteps(old, pcs)) - 1
  <2>1. AtSteps(new, pcs) = AtSteps(old, pcs) \ {r} /\ r \in AtSteps(old, pcs)
    BY <1>4 DEF AtSteps
  <2>2. QED
    BY <1>2, <2>1, FS_RemoveElement
<1>5. ASSUME new[r].pc \in pcs <=> old[r].pc \in pcs
      PROVE  Cardinality(AtSteps(new, pcs)) = Cardinality(AtSteps(old, pcs))
  BY <1>5 DEF AtSteps
<1>6. QED
  BY <1>2, <1>3, <1>4, <1>5

\* Who is to mark is not about to publish.
LEMMA StepsApart ==
  ASSUME B!BehaviorAssumption, NEW runs
  PROVE  Cardinality(AtSteps(runs, {"mark"})) + Cardinality(AtSteps(runs, {"trigger", "publish"}))
           <= Cardinality(Processes)
<1>1. PICK x, y : /\ x = AtSteps(runs, {"mark"}) /\ y = AtSteps(runs, {"trigger", "publish"})
  OBVIOUS
<1>2. x \cap y = {} /\ x \cup y \in SUBSET Processes /\ x \in SUBSET Processes /\ y \in SUBSET Processes
      /\ IsFiniteSet(Processes)
  BY <1>1, BehaviorTypes DEF AtSteps
<1>3. IsFiniteSet(x) /\ IsFiniteSet(y) /\ Cardinality(x) \in Nat /\ Cardinality(y) \in Nat
      /\ Cardinality(x \cup y) <= Cardinality(Processes) /\ Cardinality(Processes) \in Nat
  BY <1>2, FS_Subset, FS_CardinalityType
<1>4. Cardinality(x \cup y) = Cardinality(x) + Cardinality(y) - Cardinality(x \cap y)
  BY <1>3, FS_Union
<1>5. Cardinality(x \cap y) = 0
  BY <1>2, FS_EmptySet
<1>6. QED
  BY <1>1, <1>3, <1>4, <1>5

LEMMA AlertCounts ==
  ASSUME B!BehaviorAssumption, BehaviorInv
  PROVE  /\ IsFiniteSet(OfLate) /\ IsFiniteSet(Unmarked)
         /\ Cardinality(OfLate) \in Nat /\ Cardinality(Unmarked) \in Nat
         /\ Cardinality(Processes) \in Nat /\ fault \in Nat /\ hour \in Nat /\ AlertDays \in Nat \ {0}
         /\ Cardinality(AtSteps(compute, {"trigger", "publish"})) \in Nat
         /\ Cardinality(AtSteps(compute, {"mark"})) \in Nat
<1>1. OfLate \in SUBSET alerts /\ Unmarked \in SUBSET alerts /\ IsFiniteSet(alerts)
  BY DEF OfLate, Unmarked, BehaviorInv, AlertsInv
<1>2. AtSteps(compute, {"trigger", "publish"}) \in SUBSET Processes /\ AtSteps(compute, {"mark"}) \in SUBSET Processes
      /\ IsFiniteSet(Processes)
  BY BehaviorTypes DEF AtSteps
<1>3. Cardinality(Processes) \in Nat /\ fault \in Nat /\ hour \in Nat /\ AlertDays \in Nat \ {0}
  BY BehaviorTypes, BehaviorState
<1>4. QED
  BY <1>1, <1>2, <1>3, FS_Subset, FS_CardinalityType

LEMMA AlertsOfOthers ==
  ASSUME B!BehaviorAssumption, BehaviorInv, UNCHANGED <<alerts, alerted, hour>>, NEW more \in Nat, fault' = fault + more,
         Cardinality(AtSteps(compute', {"trigger", "publish"}))
           <= Cardinality(AtSteps(compute, {"trigger", "publish"})) + more,
         Cardinality(AtSteps(compute, {"mark"})) <= Cardinality(AtSteps(compute', {"mark"})) + more,
         Cardinality(AtSteps(compute', {"trigger", "publish"})) \in Nat,
         Cardinality(AtSteps(compute', {"mark"})) \in Nat
  PROVE  AlertsInv'
  BY AlertCounts DEF OfLate, Unmarked, BehaviorInv, AlertsInv

\* The marks are behind by as many days as there must be.
LEMMA AlertsUnmarked ==
  ASSUME B!BehaviorAssumption, BehaviorInv, ~B!Recent
  PROVE  Cardinality(OfLate) <= Cardinality(Unmarked)
<1>1. hour \in Nat /\ AlertDays \in Nat \ {0} /\ IsFiniteSet(Unmarked) /\ \A a \in alerts : a.day \in 0 .. hour
  BY AlertCounts, BehaviorState
<1>2. \A d \in alerted : d \in Nat /\ ~(hour < d + AlertDays)
  BY <1>1 DEF BehaviorInv, B!TypeOK, B!Recent
<1>3. OfLate \in SUBSET Unmarked
  <2>1. SUFFICES ASSUME NEW a \in OfLate, NEW d \in alerted PROVE a.day > d
    BY DEF OfLate, Unmarked
  <2>2. a.day \in Nat /\ a.day + AlertDays > hour
    BY <1>1 DEF OfLate
  <2>3. QED
    BY <1>1, <1>2, <2>2
<1>4. QED
  BY <1>1, <1>3, FS_Subset

LEMMA AlertsPublished ==
  ASSUME B!BehaviorAssumption, BehaviorInv, NEW r \in Processes, B!PublishAlert(r)
  PROVE  AlertsInv'
<1>1. RunsInv /\ AlertsInv
  BY DEF BehaviorInv
<1>2. PICK tp \in Nat, m \in Nat, tp2 \in Nat, m2 \in Nat :
        /\ tp = Cardinality(AtSteps(compute, {"trigger", "publish"})) /\ m = Cardinality(AtSteps(compute, {"mark"}))
        /\ tp2 = Cardinality(AtSteps(compute', {"trigger", "publish"})) /\ m2 = Cardinality(AtSteps(compute', {"mark"}))
        /\ tp2 = tp - 1 /\ m2 = m + 1
  <2>1. compute[r].pc = "publish" /\ compute'[r].pc = "mark" /\ \A o \in Processes \ {r} : compute'[o] = compute[o]
    BY <1>1, RunGoes DEF B!PublishAlert, Kept, Others
  <2>2. PICK new : new = compute'
    OBVIOUS
  <2>3. new[r].pc = "mark" /\ \A o \in Processes \ {r} : new[o] = compute[o]
    BY <2>1, <2>2
  <2>4. /\ Cardinality(AtSteps(compute, {"trigger", "publish"})) \in Nat
        /\ Cardinality(AtSteps(new, {"trigger", "publish"})) \in Nat
        /\ Cardinality(AtSteps(new, {"trigger", "publish"})) = Cardinality(AtSteps(compute, {"trigger", "publish"})) - 1
    BY <2>1, <2>3, StepsMove
  <2>5. /\ Cardinality(AtSteps(compute, {"mark"})) \in Nat /\ Cardinality(AtSteps(new, {"mark"})) \in Nat
        /\ Cardinality(AtSteps(new, {"mark"})) = Cardinality(AtSteps(compute, {"mark"})) + 1
    BY <2>1, <2>3, StepsMove
  <2>6. QED
    BY <2>2, <2>4, <2>5
<1>3. CASE alerts' = alerts
  <2>1. UNCHANGED <<alerts, alerted, hour>> /\ \E more \in Nat : fault' = fault + more
    BY <1>3, AlertCounts DEF B!PublishAlert, B!Fault
  <2>2. PICK more \in Nat : fault' = fault + more
    BY <2>1
  <2>3. tp2 <= tp + more /\ m <= m2 + more
    BY <1>2
  <2>4. QED
    BY <1>2, <2>1, <2>2, <2>3, AlertsOfOthers
<1>4. CASE alerts' # alerts
  <2>1. PICK e : alerts' = alerts \cup {e} /\ UNCHANGED <<alerted, hour, fault>>
    BY <1>4 DEF B!PublishAlert
  <2>2. OfLate' \subseteq OfLate \cup {e} /\ Unmarked' \subseteq Unmarked \cup {e}
    BY <2>1 DEF OfLate, Unmarked
  <2>3. /\ IsFiniteSet(OfLate) /\ IsFiniteSet(Unmarked)
        /\ Cardinality(OfLate) \in Nat /\ Cardinality(Unmarked) \in Nat
        /\ Cardinality(Processes) \in Nat /\ fault \in Nat
    BY AlertCounts
  <2>4. /\ IsFiniteSet(OfLate \cup {e}) /\ Cardinality(OfLate \cup {e}) <= Cardinality(OfLate) + 1
        /\ IsFiniteSet(Unmarked \cup {e}) /\ Cardinality(Unmarked \cup {e}) <= Cardinality(Unmarked) + 1
    <3>1. /\ IsFiniteSet(OfLate \cup {e})
          /\ (Cardinality(OfLate \cup {e}) = Cardinality(OfLate) \/ Cardinality(OfLate \cup {e}) = Cardinality(OfLate) + 1)
      BY <2>3, FS_AddElement
    <3>2. /\ IsFiniteSet(Unmarked \cup {e})
          /\ \/ Cardinality(Unmarked \cup {e}) = Cardinality(Unmarked)
             \/ Cardinality(Unmarked \cup {e}) = Cardinality(Unmarked) + 1
      BY <2>3, FS_AddElement
    <3>3. QED
      BY <2>3, <3>1, <3>2
  <2>5. PICK x, y : x = OfLate' /\ y = Unmarked'
    OBVIOUS
  <2>6. /\ Cardinality(x) <= Cardinality(OfLate \cup {e}) /\ Cardinality(y) <= Cardinality(Unmarked \cup {e})
        /\ Cardinality(x) \in Nat /\ Cardinality(y) \in Nat
        /\ Cardinality(OfLate \cup {e}) \in Nat /\ Cardinality(Unmarked \cup {e}) \in Nat
    BY <2>2, <2>4, <2>5, FS_Subset, FS_CardinalityType
  <2>7. Cardinality(x) <= Cardinality(OfLate) + 1 /\ Cardinality(y) <= Cardinality(Unmarked) + 1
    BY <2>3, <2>4, <2>6
  <2>8. Cardinality(OfLate) + tp <= Cardinality(Processes) + fault /\ Cardinality(Unmarked) <= m + fault
        /\ IsFiniteSet(alerts)
    BY <1>1, <1>2 DEF AlertsInv
  <2>9. Cardinality(x) + tp2 <= Cardinality(Processes) + fault /\ Cardinality(y) <= m2 + fault
    BY <1>2, <2>3, <2>6, <2>7, <2>8
  <2>10. IsFiniteSet(alerts')
    BY <2>1, <2>8, FS_AddElement
  <2>11. QED
    BY <1>2, <2>1, <2>5, <2>9, <2>10 DEF AlertsInv
<1>5. QED
  BY <1>3, <1>4

LEMMA AlertsMarked ==
  ASSUME B!BehaviorAssumption, BehaviorInv, NEW r \in Processes, B!MarkAlert(r)
  PROVE  AlertsInv'
<1>1. RunsInv /\ AlertsInv
  BY DEF BehaviorInv
<1>2. /\ UNCHANGED <<alerts, hour, fault>> /\ alerted' = {hour} /\ compute[r].pc = "mark" /\ compute'[r].pc = "contacts"
      /\ \A o \in Processes \ {r} : compute'[o] = compute[o]
  BY <1>1, RunGoes DEF B!MarkAlert, Kept, Others
<1>3. PICK new : new = compute' /\ new[r].pc = "contacts" /\ \A o \in Processes \ {r} : new[o] = compute[o]
  BY <1>2
<1>4. /\ Cardinality(AtSteps(new, {"trigger", "publish"})) = Cardinality(AtSteps(compute, {"trigger", "publish"}))
  <2>1. new[r].pc \in {"trigger", "publish"} <=> compute[r].pc \in {"trigger", "publish"}
    BY <1>2, <1>3
  <2>2. AtSteps(new, {"trigger", "publish"}) = AtSteps(compute, {"trigger", "publish"})
    BY <1>3, <2>1 DEF AtSteps
  <2>3. QED
    BY <2>2
<1>5. Cardinality(AtSteps(new, {"mark"})) \in Nat
  BY <1>2, <1>3, StepsMove
<1>6. OfLate' = OfLate
  BY <1>2 DEF OfLate
<1>7. hour \in Nat /\ fault \in Nat /\ \A a \in alerts : a.day \in 0 .. hour
  BY BehaviorState
<1>8. Unmarked' = {}
  BY <1>2, <1>7 DEF Unmarked
<1>9. Cardinality(Unmarked') <= Cardinality(AtSteps(new, {"mark"})) + fault
  BY <1>5, <1>7, <1>8, FS_EmptySet
<1>10. /\ IsFiniteSet(alerts')
       /\ Cardinality(OfLate') + Cardinality(AtSteps(new, {"trigger", "publish"})) <= Cardinality(Processes) + fault
  BY <1>1, <1>2, <1>4, <1>6 DEF AlertsInv
<1>11. QED
  BY <1>2, <1>3, <1>9, <1>10 DEF AlertsInv

LEMMA AlertsNext ==
  ASSUME B!BehaviorAssumption, BehaviorInv, B!Next
  PROVE  AlertsInv'
<1>1. RunsInv /\ AlertsInv
  BY DEF BehaviorInv
<1>2. PICK tp \in Nat, m \in Nat :
        /\ tp = Cardinality(AtSteps(compute, {"trigger", "publish"})) /\ m = Cardinality(AtSteps(compute, {"mark"}))
        /\ fault \in Nat /\ hour \in Nat /\ Cardinality(Processes) \in Nat /\ AlertDays \in Nat \ {0}
        /\ Cardinality(OfLate) \in Nat /\ Cardinality(Unmarked) \in Nat /\ IsFiniteSet(OfLate)
  BY AlertCounts
<1>3. /\ IsFiniteSet(alerts) /\ Cardinality(OfLate) + tp <= Cardinality(Processes) + fault
      /\ Cardinality(Unmarked) <= m + fault
  BY <1>1, <1>2 DEF AlertsInv
<1>4. CASE B!NextDay
  <2>1. UNCHANGED <<alerts, alerted, compute, fault>> /\ hour' = hour + 1
    BY <1>4, DayPasses
  <2>2. PICK x : x = OfLate'
    OBVIOUS
  <2>3. x \in SUBSET OfLate /\ Unmarked' = Unmarked
    BY <1>2, <2>1, <2>2, BehaviorState DEF OfLate, Unmarked
  <2>4. Cardinality(x) <= Cardinality(OfLate) /\ Cardinality(x) \in Nat
    BY <1>2, <2>3, FS_Subset, FS_CardinalityType
  <2>5. Cardinality(x) + tp <= Cardinality(Processes) + fault
    BY <1>2, <1>3, <2>4
  <2>6. QED
    BY <1>2, <1>3, <2>1, <2>2, <2>3, <2>5 DEF AlertsInv
<1>5. ASSUME NEW r \in Processes, \A o \in Processes \ {r} : compute'[o] = compute[o],
             UNCHANGED <<alerts, alerted, hour>>, fault' = fault \/ fault' = fault + 1,
             compute'[r].pc \in {"trigger", "publish"} /\ compute[r].pc \notin {"trigger", "publish"} => fault' = fault + 1,
             compute[r].pc = "mark" /\ compute'[r].pc # "mark" => fault' = fault + 1
      PROVE  AlertsInv'
  <2>1. PICK new : new = compute' /\ \A o \in Processes \ {r} : new[o] = compute[o]
    BY <1>5
  <2>2. PICK more \in {0, 1} : fault' = fault + more
    BY <1>2, <1>5
  <2>3. /\ Cardinality(AtSteps(new, {"trigger", "publish"})) \in Nat
        /\ Cardinality(AtSteps(new, {"trigger", "publish"})) <= tp + more
    <3>1. /\ Cardinality(AtSteps(new, {"trigger", "publish"})) \in Nat
          /\ new[r].pc \in {"trigger", "publish"} /\ compute[r].pc \notin {"trigger", "publish"}
               => Cardinality(AtSteps(new, {"trigger", "publish"})) = tp + 1
          /\ new[r].pc \notin {"trigger", "publish"} /\ compute[r].pc \in {"trigger", "publish"}
               => Cardinality(AtSteps(new, {"trigger", "publish"})) = tp - 1
          /\ (new[r].pc \in {"trigger", "publish"} <=> compute[r].pc \in {"trigger", "publish"})
               => Cardinality(AtSteps(new, {"trigger", "publish"})) = tp
      BY <1>2, <2>1, StepsMove
    <3>2. CASE new[r].pc \in {"trigger", "publish"} /\ compute[r].pc \notin {"trigger", "publish"}
      BY <1>2, <1>5, <2>1, <2>2, <3>1, <3>2
    <3>3. CASE ~(new[r].pc \in {"trigger", "publish"} /\ compute[r].pc \notin {"trigger", "publish"})
      BY <1>2, <2>2, <3>1, <3>3
    <3>4. QED
      BY <3>2, <3>3
  <2>4. /\ Cardinality(AtSteps(new, {"mark"})) \in Nat
        /\ m <= Cardinality(AtSteps(new, {"mark"})) + more
    <3>1. /\ Cardinality(AtSteps(new, {"mark"})) \in Nat
          /\ new[r].pc \in {"mark"} /\ compute[r].pc \notin {"mark"} => Cardinality(AtSteps(new, {"mark"})) = m + 1
          /\ new[r].pc \notin {"mark"} /\ compute[r].pc \in {"mark"} => Cardinality(AtSteps(new, {"mark"})) = m - 1
          /\ (new[r].pc \in {"mark"} <=> compute[r].pc \in {"mark"}) => Cardinality(AtSteps(new, {"mark"})) = m
      BY <1>2, <2>1, StepsMove
    <3>2. CASE new[r].pc # "mark" /\ compute[r].pc = "mark"
      BY <1>2, <1>5, <2>1, <2>2, <3>1, <3>2
    <3>3. CASE ~(new[r].pc # "mark" /\ compute[r].pc = "mark")
      BY <1>2, <2>2, <3>1, <3>3
    <3>4. QED
      BY <3>2, <3>3
  <2>5. more \in Nat
    BY <2>2
  <2>6. QED
    BY <1>2, <1>5, <2>1, <2>2, <2>3, <2>4, <2>5, AlertsOfOthers
<1>6. CASE \E r \in Processes : B!Begin(r)
  <2>1. PICK r \in Processes : B!Begin(r)
    BY <1>6
  <2>2. \A o \in Processes \ {r} : compute'[o] = compute[o]
    BY <1>1, <2>1, RunBegins DEF Others
  <2>3. compute'[r].pc = "daily" /\ compute[r].pc = "idle" /\ UNCHANGED <<alerts, alerted, hour, fault>>
    BY <1>1, <2>1, RunBegins DEF B!Begin
  <2>4. QED
    BY <1>5, <2>2, <2>3
<1>7. ASSUME NEW r \in Processes, Going(r) PROVE AlertsInv'
  <2>1. Kept(r) /\ hour' = hour /\ (fault' = fault \/ fault' = fault + 1) /\ \A o \in Processes \ {r} : compute'[o] = compute[o]
    BY <1>7, RunGoesOn DEF Kept, Others
  <2>2. CASE B!PublishAlert(r)
    BY <2>2, AlertsPublished
  <2>3. CASE B!MarkAlert(r)
    BY <2>3, AlertsMarked
  <2>4. CASE B!CheckWLBAlerts(r)
    <3>1. compute[r].pc = "alert" /\ UNCHANGED <<alerts, alerted>>
      BY <2>4 DEF B!CheckWLBAlerts
    <3>2. CASE fault' = fault + 1
      BY <1>5, <2>1, <3>1, <3>2
    <3>3. CASE fault' # fault + 1 /\ B!Recent
      <4>1. B!Goto(r, "contacts")
        BY <2>4, <3>3 DEF B!CheckWLBAlerts, B!Fault
      <4>2. compute'[r].pc = "contacts"
        BY <1>1, <4>1, RunGoes
      <4>3. QED
        BY <1>5, <2>1, <3>1, <4>2
    <3>4. CASE fault' # fault + 1 /\ ~B!Recent
      <4>1. B!Goto(r, "trigger") /\ fault' = fault
        BY <2>1, <2>4, <3>4 DEF B!CheckWLBAlerts
      <4>2. compute'[r].pc = "trigger"
        BY <1>1, <4>1, RunGoes
      <4>3. PICK new : new = compute' /\ new[r].pc = "trigger" /\ \A o \in Processes \ {r} : new[o] = compute[o]
        BY <2>1, <4>2
      <4>4. Cardinality(AtSteps(new, {"mark"})) = m
        <5>1. new[r].pc \notin {"mark"} /\ compute[r].pc \notin {"mark"}
          BY <3>1, <4>3
        <5>2. AtSteps(new, {"mark"}) = AtSteps(compute, {"mark"})
          BY <4>3, <5>1 DEF AtSteps
        <5>3. QED
          BY <1>2, <5>2
      <4>5. Cardinality(AtSteps(new, {"trigger", "publish"})) \in Nat
        BY <4>3, StepsMove
      <4>6. m + Cardinality(AtSteps(new, {"trigger", "publish"})) <= Cardinality(Processes)
        BY <4>4, StepsApart
      <4>7. Cardinality(OfLate) <= Cardinality(Unmarked)
        BY <3>4, AlertsUnmarked
      <4>8. Cardinality(OfLate) + Cardinality(AtSteps(new, {"trigger", "publish"})) <= Cardinality(Processes) + fault
        BY <1>2, <1>3, <4>5, <4>6, <4>7
      <4>9. OfLate' = OfLate /\ Unmarked' = Unmarked
        BY <2>1, <3>1 DEF OfLate, Unmarked
      <4>10. QED
        BY <1>2, <1>3, <3>1, <4>1, <4>3, <4>4, <4>8, <4>9 DEF AlertsInv
    <3>5. QED
      BY <3>2, <3>3, <3>4
  <2>5. CASE B!ReadSnapshots(r) \/ B!StoreDaily(r) \/ B!StoreWeek(r) \/ B!StoreSnapshot(r) \/ B!UpsertContact(r)
             \/ B!CleanupWLBSnapshots(r)
    <3>1. /\ UNCHANGED <<alerts, alerted>>
          /\ \/ \E pc : B!Goto(r, pc) /\ pc \notin {"trigger", "publish"} /\ compute[r].pc # "mark"
             \/ B!Goto(r, "publish") /\ compute[r].pc = "trigger"
      BY <2>5 DEF B!ReadSnapshots, B!StoreDaily, B!StoreWeek, B!StoreSnapshot, B!UpsertContact, B!CleanupWLBSnapshots
    <3>2. /\ compute'[r].pc \notin {"trigger", "publish"} \/ compute[r].pc = "trigger"
          /\ compute[r].pc # "mark"
      BY <1>1, <3>1, RunGoes
    <3>3. QED
      BY <1>5, <2>1, <3>1, <3>2
  <2>6. CASE B!SumWeek(r) \/ B!ComputeWLB(r) \/ B!ReadContact(r)
    <3>1. /\ UNCHANGED <<alerts, alerted>> /\ compute[r].pc # "mark"
          /\ \E pc, v : (B!Goto(r, pc) \/ B!Reads(r, pc, v)) /\ pc \notin {"trigger", "publish"}
      BY <2>6 DEF B!SumWeek, B!ComputeWLB, B!ReadContact
    <3>2. compute'[r].pc \notin {"trigger", "publish"}
      BY <1>1, <3>1, RunGoes, RunReads
    <3>3. QED
      BY <1>5, <2>1, <3>1, <3>2
  <2>7. CASE B!StepFails(r) \/ B!Cut(r)
    BY <1>5, <2>1, <2>7 DEF B!StepFails, B!Cut, B!Fault
  <2>8. QED
    BY <1>7, <2>2, <2>3, <2>4, <2>5, <2>6, <2>7 DEF Going
<1>8. QED
  BY <1>4, <1>6, <1>7 DEF B!Next, Going

\* A sum is of its days and of what is stored about them.
LEMMA SumsStay ==
  ASSUME NEW days, days \subseteq DOMAIN daily, \A d \in days : daily'[d] = daily[d]
  PROVE  B!MailsOf(days)' = B!MailsOf(days)
<1>1. PICK f, g : f = [d \in days |-> B!Mails(daily[d])] /\ g = [d \in days |-> B!Mails(daily'[d])]
  OBVIOUS
<1>2. f = g
  BY <1>1
<1>3. B!MailsOf(days) = B!Total(f) /\ B!MailsOf(days)' = B!Total(g)
  BY <1>1, Zenon DEF B!MailsOf, B!Mails
<1>4. QED
  BY <1>2, <1>3

\* Of the week: what is said of the weeks while a run moves that stores no metrics.
LEMMA WeeksOfOthers ==
  ASSUME RunsInv, WeeksInv, UNCHANGED <<daily, weekly>>, \A d \in DOMAIN daily : past'[d] = past[d],
         NEW r \in Processes, Others(r), compute'[r].pc # "week",
         fault' = 0 /\ overlapped' = FALSE =>
           /\ fault = 0 /\ overlapped = FALSE /\ compute[r].pc \notin {"sum", "week"}
           /\ \A o \in Processes \ {r} : compute[o].pc = "idle"
  PROVE  WeeksInv'
<1>1. \A w : B!DaysOf(w)' = B!DaysOf(w)
  BY DEF B!DaysOf, B!WeekOf
<1>2. \A days : B!MailsOf(days)' = B!MailsOf(days)
  BY DEF B!MailsOf, B!Mails
<1>3. \A d \in DOMAIN daily' : daily'[d] = past'[d].load
  BY DEF WeeksInv
<1>4. \A w \in DOMAIN weekly' : \E days \in SUBSET B!DaysOf(w)' : weekly'[w] = B!MailsOf(days)'
  BY <1>1, <1>2 DEF WeeksInv
<1>5. ASSUME NEW o \in Processes, compute'[o].pc = "week"
      PROVE  o # r /\ compute'[o] = compute[o] /\ compute[o].pc = "week"
  BY <1>5 DEF Others
<1>6. \A o \in Processes : compute'[o].pc = "week" =>
        \E days \in SUBSET B!DaysOf(B!WeekOf(compute[o].day))' : compute'[o].read = B!MailsOf(days)'
  <2>1. SUFFICES ASSUME NEW o \in Processes, compute'[o].pc = "week"
                 PROVE  \E days \in SUBSET B!DaysOf(B!WeekOf(compute[o].day))' : compute'[o].read = B!MailsOf(days)'
    OBVIOUS
  <2>2. compute'[o] = compute[o] /\ compute[o].pc = "week"
    BY <1>5, <2>1
  <2>3. PICK days \in SUBSET B!DaysOf(B!WeekOf(compute[o].day)) : compute[o].read = B!MailsOf(days)
    BY <2>2 DEF WeeksInv
  <2>4. days \in SUBSET B!DaysOf(B!WeekOf(compute[o].day))'
    BY <2>2, <2>3 DEF B!DaysOf, B!WeekOf
  <2>5. QED
    BY <1>2, <2>2, <2>3, <2>4
<1>7. ASSUME fault' = 0, overlapped' = FALSE
      PROVE  /\ \A x, o \in Processes : x = o \/ compute'[x].pc = "idle" \/ compute'[o].pc = "idle"
             /\ \A w \in DOMAIN weekly' : Complete(w)'
             /\ \A o \in Processes : compute'[o].pc # "week"
  <2>1. /\ fault = 0 /\ overlapped = FALSE /\ compute[r].pc \notin {"sum", "week"}
        /\ \A o \in Processes \ {r} : compute[o].pc = "idle" /\ compute'[o].pc = "idle"
    BY <1>7 DEF Others
  <2>2. \A w \in DOMAIN weekly : Complete(w)
    BY <2>1 DEF WeeksInv
  <2>3. \A w \in DOMAIN weekly' : Complete(w)'
    BY <1>1, <1>2, <2>2 DEF Complete
  <2>4. \A o \in Processes : compute'[o].pc # "week"
    BY <2>1
  <2>5. QED
    BY <2>1, <2>3, <2>4
<1>8. QED
  BY <1>3, <1>4, <1>6, <1>7 DEF WeeksInv

\* Nobody else runs while nothing has failed or overlapped.
LEMMA Alone ==
  ASSUME WeeksInv, fault = 0, overlapped = FALSE, NEW r \in Processes, compute[r].pc # "idle"
  PROVE  \A o \in Processes \ {r} : compute[o].pc = "idle"
BY DEF WeeksInv

LEMMA WeeksDaily ==
  ASSUME B!BehaviorAssumption, BehaviorInv, NEW r \in Processes, B!StoreDaily(r)
  PROVE  WeeksInv'
<1>1. RunsInv /\ WeeksInv
  BY DEF BehaviorInv
<1>2. PICK d \in DOMAIN past : d = compute[r].day
  BY BehaviorState DEF B!StoreDaily
<1>3. /\ daily' = B!With(daily, d, past[d].load) /\ UNCHANGED <<past, weekly, overlapped, fault>>
      /\ compute[r].pc = "daily" /\ Kept(r) /\ compute'[r].pc = "sum"
  BY <1>1, <1>2, RunGoes DEF B!StoreDaily
<1>4. /\ DOMAIN daily' = DOMAIN daily \cup {d} /\ \A e \in DOMAIN daily : daily'[e] = daily[e]
      /\ \A e \in DOMAIN daily' : daily'[e] = past[e].load
  BY <1>1, <1>3 DEF B!With, WeeksInv
<1>5. ASSUME NEW w
      PROVE  /\ B!DaysOf(w) \subseteq B!DaysOf(w)' /\ B!DaysOf(w) \subseteq DOMAIN daily
             /\ w # B!WeekOf(d) => B!DaysOf(w)' = B!DaysOf(w)
  BY <1>4 DEF B!DaysOf, B!WeekOf
<1>6. ASSUME NEW days, days \subseteq DOMAIN daily PROVE B!MailsOf(days)' = B!MailsOf(days)
  BY <1>4, <1>6, SumsStay
<1>7. ASSUME NEW w \in DOMAIN weekly' PROVE \E days \in SUBSET B!DaysOf(w)' : weekly'[w] = B!MailsOf(days)'
  <2>1. PICK days \in SUBSET B!DaysOf(w) : weekly[w] = B!MailsOf(days)
    BY <1>1, <1>3, <1>7 DEF WeeksInv
  <2>2. days \subseteq DOMAIN daily /\ days \in SUBSET B!DaysOf(w)'
    BY <1>5, <2>1
  <2>3. B!MailsOf(days)' = B!MailsOf(days)
    BY <1>6, <2>2
  <2>4. QED
    BY <1>3, <2>1, <2>2, <2>3
<1>8. ASSUME NEW o \in Processes, compute'[o].pc = "week"
      PROVE  \E days \in SUBSET B!DaysOf(B!WeekOf(compute[o].day))' : compute'[o].read = B!MailsOf(days)'
  <2>1. compute'[o] = compute[o] /\ compute[o].pc = "week"
    BY <1>3, <1>8 DEF Kept, Others
  <2>2. PICK w : w = B!WeekOf(compute[o].day)
    OBVIOUS
  <2>3. w = B!WeekOf(compute'[o].day)
    BY <2>1, <2>2
  <2>4. PICK days \in SUBSET B!DaysOf(w) : compute[o].read = B!MailsOf(days)
    BY <1>1, <2>1, <2>2 DEF WeeksInv
  <2>5. days \subseteq DOMAIN daily /\ days \in SUBSET B!DaysOf(w)'
    BY <1>5, <2>4
  <2>6. B!MailsOf(days)' = B!MailsOf(days)
    BY <1>6, <2>5
  <2>7. B!DaysOf(B!WeekOf(compute[o].day))' = B!DaysOf(w)'
    BY <2>3 DEF B!DaysOf, B!WeekOf
  <2>8. QED
    BY <2>1, <2>4, <2>5, <2>6, <2>7
<1>9. ASSUME fault' = 0, overlapped' = FALSE
      PROVE  /\ \A x, o \in Processes : x = o \/ compute'[x].pc = "idle" \/ compute'[o].pc = "idle"
             /\ \A w \in DOMAIN weekly' :
                  \/ Complete(w)'
                  \/ \E o \in Processes : compute'[o].pc \in {"sum", "week"} /\ B!WeekOf(compute[o].day)' = w
             /\ \A o \in Processes : compute'[o].pc # "week"
  <2>1. fault = 0 /\ overlapped = FALSE
    BY <1>3, <1>9
  <2>2. \A o \in Processes \ {r} : compute[o].pc = "idle" /\ compute'[o].pc = "idle"
    BY <1>1, <1>3, <2>1, Alone DEF Kept, Others
  <2>3. ASSUME NEW w \in DOMAIN weekly'
        PROVE  \/ Complete(w)'
               \/ \E o \in Processes : compute'[o].pc \in {"sum", "week"} /\ B!WeekOf(compute[o].day)' = w
    <3>1. CASE w = B!WeekOf(d)
      BY <1>2, <1>3, <3>1 DEF Kept, B!WeekOf
    <3>2. CASE w # B!WeekOf(d)
      <4>1. \A o \in Processes : compute[o].pc \notin {"sum", "week"}
        BY <1>3, <2>2
      <4>2. weekly[w] = B!MailsOf(B!DaysOf(w))
        BY <1>1, <1>3, <2>1, <2>3, <4>1 DEF WeeksInv, Complete
      <4>3. PICK days : days = B!DaysOf(w) /\ days = B!DaysOf(w)' /\ days \subseteq DOMAIN daily
        BY <1>5, <3>2
      <4>4. B!MailsOf(days)' = B!MailsOf(days)
        BY <1>6, <4>3
      <4>5. B!MailsOf(B!DaysOf(w))' = B!MailsOf(days)'
        BY <4>3, Zenon DEF B!MailsOf
      <4>6. Complete(w)'
        BY <1>3, <4>2, <4>3, <4>4, <4>5 DEF Complete
      <4>7. QED
        BY <4>6
    <3>3. QED
      BY <3>1, <3>2
  <2>4. QED
    BY <1>3, <2>2, <2>3
<1>10. \A e \in DOMAIN daily' : daily'[e] = past'[e].load
  BY <1>3, <1>4
<1>11. QED
  BY <1>7, <1>8, <1>9, <1>10 DEF WeeksInv

LEMMA WeeksSummed ==
  ASSUME B!BehaviorAssumption, BehaviorInv, NEW r \in Processes, B!SumWeek(r)
  PROVE  WeeksInv'
<1>1. RunsInv /\ WeeksInv
  BY DEF BehaviorInv
<1>2. PICK w0 : w0 = B!WeekOf(compute[r].day)
  OBVIOUS
<1>3. /\ UNCHANGED <<past, daily, weekly, overlapped, fault>>
      /\ compute[r].pc = "sum" /\ Kept(r) /\ compute'[r].pc = "week" /\ compute'[r].read = B!MailsOf(B!DaysOf(w0))
  BY <1>1, <1>2, RunReads DEF B!SumWeek
<1>4. \A w : B!DaysOf(w)' = B!DaysOf(w)
  BY <1>3 DEF B!DaysOf, B!WeekOf
<1>5. \A days : B!MailsOf(days)' = B!MailsOf(days)
  BY <1>3 DEF B!MailsOf, B!Mails
<1>6. \A o \in Processes : compute'[o].day = compute[o].day /\ B!WeekOf(compute[o].day)' = B!WeekOf(compute[o].day)
  BY <1>3 DEF Kept, Others, B!WeekOf
<1>7. \A w : B!MailsOf(B!DaysOf(w))' = B!MailsOf(B!DaysOf(w))
  BY <1>3 DEF B!MailsOf, B!Mails, B!DaysOf, B!WeekOf
<1>8. ASSUME NEW o \in Processes, compute'[o].pc = "week"
      PROVE  \E days \in SUBSET B!DaysOf(B!WeekOf(compute[o].day))' : compute'[o].read = B!MailsOf(days)'
  <2>1. PICK w : w = B!WeekOf(compute[o].day) /\ B!DaysOf(B!WeekOf(compute[o].day))' = B!DaysOf(w)
    BY <1>3, <1>6 DEF B!DaysOf, B!WeekOf
  <2>2. CASE o = r
    BY <1>2, <1>3, <1>5, <2>1, <2>2
  <2>3. CASE o # r
    <3>1. compute'[o] = compute[o] /\ compute[o].pc = "week"
      BY <1>3, <1>8, <2>3 DEF Kept, Others
    <3>2. PICK days \in SUBSET B!DaysOf(w) : compute[o].read = B!MailsOf(days)
      BY <1>1, <2>1, <3>1 DEF WeeksInv
    <3>3. QED
      BY <1>5, <2>1, <3>1, <3>2
  <2>4. QED
    BY <2>2, <2>3
<1>9. ASSUME fault' = 0, overlapped' = FALSE
      PROVE  /\ \A x, o \in Processes : x = o \/ compute'[x].pc = "idle" \/ compute'[o].pc = "idle"
             /\ \A w \in DOMAIN weekly' :
                  \/ Complete(w)'
                  \/ \E o \in Processes : compute'[o].pc \in {"sum", "week"} /\ B!WeekOf(compute[o].day)' = w
             /\ \A o \in Processes : compute'[o].pc = "week" =>
                  compute'[o].read = B!MailsOf(B!DaysOf(B!WeekOf(compute[o].day)))'
  <2>1. fault = 0 /\ overlapped = FALSE
    BY <1>3, <1>9
  <2>2. \A o \in Processes \ {r} : compute[o].pc = "idle" /\ compute'[o].pc = "idle"
    BY <1>1, <1>3, <2>1, Alone DEF Kept, Others
  <2>3. ASSUME NEW w \in DOMAIN weekly'
        PROVE  \/ Complete(w)'
               \/ \E o \in Processes : compute'[o].pc \in {"sum", "week"} /\ B!WeekOf(compute[o].day)' = w
    <3>1. CASE Complete(w)
      BY <1>3, <1>7, <3>1 DEF Complete
    <3>2. CASE ~Complete(w)
      <4>1. PICK o \in Processes : compute[o].pc \in {"sum", "week"} /\ B!WeekOf(compute[o].day) = w
        BY <1>1, <1>3, <2>1, <2>3, <3>2 DEF WeeksInv
      <4>2. o = r
        BY <2>2, <4>1
      <4>3. QED
        BY <1>3, <1>6, <4>1, <4>2
    <3>3. QED
      BY <3>1, <3>2
  <2>4. compute'[r].read = B!MailsOf(B!DaysOf(B!WeekOf(compute[r].day)))'
    BY <1>2, <1>3, <1>6 DEF B!MailsOf, B!Mails, B!DaysOf, B!WeekOf
  <2>5. QED
    BY <1>3, <2>2, <2>3, <2>4
<1>10. /\ \A e \in DOMAIN daily' : daily'[e] = past'[e].load
       /\ \A w \in DOMAIN weekly' : \E days \in SUBSET B!DaysOf(w)' : weekly'[w] = B!MailsOf(days)'
  BY <1>1, <1>3, <1>4, <1>5 DEF WeeksInv
<1>11. QED
  BY <1>8, <1>9, <1>10 DEF WeeksInv

LEMMA WeeksStored ==
  ASSUME B!BehaviorAssumption, BehaviorInv, NEW r \in Processes, B!StoreWeek(r)
  PROVE  WeeksInv'
<1>1. RunsInv /\ WeeksInv
  BY DEF BehaviorInv
<1>2. PICK w0 : w0 = B!WeekOf(compute[r].day)
  OBVIOUS
<1>3. /\ UNCHANGED <<past, daily, overlapped, fault>> /\ weekly' = B!With(weekly, w0, compute[r].read)
      /\ compute[r].pc = "week" /\ Kept(r) /\ compute'[r].pc = "balance"
  BY <1>1, <1>2, RunGoes DEF B!StoreWeek
<1>4. \A w : B!DaysOf(w)' = B!DaysOf(w)
  BY <1>3 DEF B!DaysOf, B!WeekOf
<1>5. \A days : B!MailsOf(days)' = B!MailsOf(days)
  BY <1>3 DEF B!MailsOf, B!Mails
<1>6. \A w : B!MailsOf(B!DaysOf(w))' = B!MailsOf(B!DaysOf(w))
  BY <1>3 DEF B!MailsOf, B!Mails, B!DaysOf, B!WeekOf
<1>7. DOMAIN weekly' = DOMAIN weekly \cup {w0} /\ weekly'[w0] = compute[r].read
      /\ \A w \in DOMAIN weekly \ {w0} : weekly'[w] = weekly[w]
  BY <1>3 DEF B!With
<1>8. ASSUME NEW w \in DOMAIN weekly' PROVE \E days \in SUBSET B!DaysOf(w)' : weekly'[w] = B!MailsOf(days)'
  <2>1. CASE w = w0
    <3>1. PICK days \in SUBSET B!DaysOf(w0) : compute[r].read = B!MailsOf(days)
      BY <1>1, <1>2, <1>3 DEF WeeksInv
    <3>2. QED
      BY <1>4, <1>5, <1>7, <2>1, <3>1
  <2>2. CASE w # w0
    <3>1. PICK days \in SUBSET B!DaysOf(w) : weekly[w] = B!MailsOf(days)
      BY <1>1, <1>7, <1>8, <2>2 DEF WeeksInv
    <3>2. QED
      BY <1>4, <1>5, <1>7, <1>8, <2>2, <3>1
  <2>3. QED
    BY <2>1, <2>2
<1>9. ASSUME NEW o \in Processes, compute'[o].pc = "week"
      PROVE  \E days \in SUBSET B!DaysOf(B!WeekOf(compute[o].day))' : compute'[o].read = B!MailsOf(days)'
  <2>1. compute'[o] = compute[o] /\ compute[o].pc = "week"
    BY <1>3, <1>9 DEF Kept, Others
  <2>2. PICK w : w = B!WeekOf(compute[o].day) /\ B!DaysOf(B!WeekOf(compute[o].day))' = B!DaysOf(w)
    BY <1>3, <2>1 DEF B!DaysOf, B!WeekOf
  <2>3. PICK days \in SUBSET B!DaysOf(w) : compute[o].read = B!MailsOf(days)
    BY <1>1, <2>1, <2>2 DEF WeeksInv
  <2>4. QED
    BY <1>5, <2>1, <2>2, <2>3
<1>10. ASSUME fault' = 0, overlapped' = FALSE
       PROVE  /\ \A x, o \in Processes : x = o \/ compute'[x].pc = "idle" \/ compute'[o].pc = "idle"
              /\ \A w \in DOMAIN weekly' : Complete(w)'
              /\ \A o \in Processes : compute'[o].pc # "week"
  <2>1. fault = 0 /\ overlapped = FALSE
    BY <1>3, <1>10
  <2>2. \A o \in Processes \ {r} : compute[o].pc = "idle" /\ compute'[o].pc = "idle"
    BY <1>1, <1>3, <2>1, Alone DEF Kept, Others
  <2>3. ASSUME NEW w \in DOMAIN weekly' PROVE Complete(w)'
    <3>1. CASE w = w0
      <4>1. compute[r].read = B!MailsOf(B!DaysOf(w0))
        BY <1>1, <1>2, <1>3, <2>1 DEF WeeksInv
      <4>2. QED
        BY <1>6, <1>7, <3>1, <4>1 DEF Complete
    <3>2. CASE w # w0
      <4>1. Complete(w)
        <5>1. ~\E o \in Processes : compute[o].pc \in {"sum", "week"} /\ B!WeekOf(compute[o].day) = w
          BY <1>2, <2>2, <3>2
        <5>2. QED
          BY <1>1, <1>7, <2>1, <2>3, <3>2, <5>1 DEF WeeksInv
      <4>2. QED
        BY <1>6, <1>7, <2>3, <3>2, <4>1 DEF Complete
    <3>3. QED
      BY <3>1, <3>2
  <2>4. QED
    BY <1>3, <2>2, <2>3
<1>11. \A e \in DOMAIN daily' : daily'[e] = past'[e].load
  BY <1>1, <1>3 DEF WeeksInv
<1>12. QED
  BY <1>8, <1>9, <1>10, <1>11 DEF WeeksInv

LEMMA WeeksNext ==
  ASSUME B!BehaviorAssumption, BehaviorInv, B!Next
  PROVE  WeeksInv'
<1>1. RunsInv /\ WeeksInv /\ fault \in Nat
  BY BehaviorState DEF BehaviorInv
<1>2. CASE B!NextDay
  <2>1. /\ UNCHANGED <<daily, weekly, compute, overlapped, fault>> /\ \A d \in DOMAIN past : past'[d] = past[d]
    BY <1>2, DayPasses
  <2>2. \A d \in DOMAIN daily : past'[d] = past[d]
    BY <2>1, BehaviorState
  <2>3. \A w : B!MailsOf(B!DaysOf(w))' = B!MailsOf(B!DaysOf(w)) /\ B!DaysOf(w)' = B!DaysOf(w) /\ B!WeekOf(w)' = B!WeekOf(w)
    BY <2>1 DEF B!MailsOf, B!Mails, B!DaysOf, B!WeekOf
  <2>4. \A days : B!MailsOf(days)' = B!MailsOf(days)
    BY <2>1 DEF B!MailsOf, B!Mails
  <2>5. \A w : Complete(w)' = Complete(w)
    BY <2>1, <2>3 DEF Complete
  <2>6. QED
    BY <1>1, <2>1, <2>2, <2>5 DEF WeeksInv, B!MailsOf, B!Mails, B!DaysOf, B!WeekOf
<1>3. CASE \E r \in Processes : B!Begin(r)
  <2>1. PICK r \in Processes : B!Begin(r)
    BY <1>3
  <2>2. /\ Others(r) /\ compute'[r].pc = "daily" /\ compute[r].pc = "idle" /\ UNCHANGED <<past, daily, weekly, fault>>
    BY <1>1, <2>1, RunBegins DEF B!Begin
  <2>3. overlapped' = FALSE => overlapped = FALSE /\ \A o \in Processes \ {r} : compute[o].pc = "idle"
    BY <1>1, <2>1 DEF B!Begin, RunsInv
  <2>4. QED
    BY <1>1, <2>2, <2>3, WeeksOfOthers
<1>4. ASSUME NEW r \in Processes, Going(r) PROVE WeeksInv'
  <2>1. /\ Others(r) /\ compute[r].pc # "idle" /\ UNCHANGED <<past, overlapped>> /\ (fault' = fault \/ fault' = fault + 1)
    BY <1>4, RunGoesOn DEF Kept
  <2>2. CASE B!StoreDaily(r)
    BY <2>2, WeeksDaily
  <2>3. CASE B!SumWeek(r)
    BY <2>3, WeeksSummed
  <2>4. CASE B!StoreWeek(r)
    BY <2>4, WeeksStored
  <2>5. ASSUME UNCHANGED <<daily, weekly>>, compute'[r].pc # "week", compute[r].pc \notin {"sum", "week"} \/ fault' = fault + 1
        PROVE  WeeksInv'
    <3>1. fault' = 0 /\ overlapped' = FALSE =>
            /\ fault = 0 /\ overlapped = FALSE /\ compute[r].pc \notin {"sum", "week"}
            /\ \A o \in Processes \ {r} : compute[o].pc = "idle"
      <4>1. SUFFICES ASSUME fault' = 0, overlapped' = FALSE
                     PROVE  /\ fault = 0 /\ overlapped = FALSE /\ compute[r].pc \notin {"sum", "week"}
                            /\ \A o \in Processes \ {r} : compute[o].pc = "idle"
        OBVIOUS
      <4>2. fault = 0 /\ overlapped = FALSE /\ compute[r].pc \notin {"sum", "week"}
        BY <1>1, <2>1, <2>5, <4>1
      <4>3. QED
        BY <1>1, <2>1, <4>2, Alone
    <3>2. QED
      BY <1>1, <2>1, <2>5, <3>1, WeeksOfOthers
  <2>6. CASE B!StoreSnapshot(r) \/ B!CheckWLBAlerts(r) \/ B!ReadSnapshots(r) \/ B!PublishAlert(r) \/ B!MarkAlert(r)
             \/ B!UpsertContact(r) \/ B!CleanupWLBSnapshots(r)
    <3>1. /\ UNCHANGED <<daily, weekly>> /\ compute[r].pc \notin {"sum", "week"}
          /\ \E pc : B!Goto(r, pc) /\ pc # "week"
      BY <2>6 DEF B!StoreSnapshot, B!CheckWLBAlerts, B!ReadSnapshots, B!PublishAlert, B!MarkAlert,
                  B!UpsertContact, B!CleanupWLBSnapshots
    <3>2. compute'[r].pc # "week"
      BY <1>1, <3>1, RunGoes
    <3>3. QED
      BY <2>5, <3>1, <3>2
  <2>7. CASE B!ComputeWLB(r) \/ B!ReadContact(r)
    BY <1>1, <2>5, <2>7, RunGoes, RunReads DEF B!ComputeWLB, B!ReadContact
  <2>8. CASE B!StepFails(r) \/ B!Cut(r)
    <3>1. /\ UNCHANGED <<daily, weekly>> /\ fault' = fault + 1
          /\ \E pc : B!Goto(r, pc) /\ pc # "week"
      BY <2>8 DEF B!StepFails, B!Cut, B!Fault, B!After
    <3>2. compute'[r].pc # "week"
      BY <1>1, <3>1, RunGoes
    <3>3. QED
      BY <2>5, <3>1, <3>2
  <2>9. QED
    BY <1>4, <2>2, <2>3, <2>4, <2>6, <2>7, <2>8 DEF Going
<1>5. QED
  BY <1>2, <1>3, <1>4 DEF B!Next, Going

LEMMA BehaviorNext == ASSUME B!BehaviorAssumption, BehaviorInv, B!Next PROVE BehaviorInv'
  BY BehaviorTypeNext, RunsNext, WeeksNext, AlertsNext, DeclinesNext DEF BehaviorInv

LEMMA BehaviorInit == ASSUME B!BehaviorAssumption, B!Init PROVE BehaviorInv
<1>1. /\ past = <<>> /\ daily = <<>> /\ weekly = <<>> /\ snapshot = <<>> /\ alerted = {} /\ contact = B!NoContact
      /\ compute = [r \in Processes |-> B!Idle] /\ alerts = {} /\ overlapped = FALSE /\ hour = 0 /\ fault = 0
  BY DEF B!Init
<1>2. BehaviorDays \in Nat /\ MaxFaults \in Nat /\ Cardinality(Processes) \in Nat
  BY BehaviorTypes
<1>3. DOMAIN past = {} /\ DOMAIN daily = {} /\ DOMAIN weekly = {} /\ DOMAIN snapshot = {} /\ 0 .. hour - 1 = {}
  BY <1>1
<1>4. DOMAIN compute = Processes /\ \A r \in Processes : /\ DOMAIN compute[r] = {"pc", "day", "began", "read"}
                                                         /\ compute[r].pc = "idle"
  BY <1>1 DEF B!Idle
<1>5. B!TypeOK
  BY <1>1, <1>2, <1>3, <1>4 DEF B!TypeOK, B!NoContact
<1>6. RunsInv
  BY <1>1, <1>3, <1>4 DEF RunsInv, Step
<1>7. WeeksInv
  BY <1>3, <1>4 DEF WeeksInv
<1>8. AlertsInv
  <2>1. OfLate = {} /\ Unmarked = {} /\ AtSteps(compute, {"trigger", "publish"}) = {} /\ AtSteps(compute, {"mark"}) = {}
    BY <1>1, <1>4 DEF OfLate, Unmarked, AtSteps
  <2>2. IsFiniteSet({}) /\ Cardinality({}) = 0
    BY FS_EmptySet
  <2>3. 0 + 0 <= Cardinality(Processes) + 0 /\ 0 <= 0 + 0
    BY <1>2
  <2>4. QED
    BY <1>1, <2>1, <2>2, <2>3 DEF AlertsInv
<1>9. DeclinesInv
  BY <1>4 DEF DeclinesInv
<1>10. QED
  BY <1>5, <1>6, <1>7, <1>8, <1>9 DEF BehaviorInv

LEMMA BehaviorHolds == ASSUME B!BehaviorAssumption, BehaviorInv PROVE B!BehaviorHolds
<1>1. B!TypeOK /\ RunsInv /\ WeeksInv /\ AlertsInv /\ DeclinesInv
  BY DEF BehaviorInv
<1>2. B!WeekIsASum
  <2>1. ASSUME fault = 0, ~overlapped, \A r \in Processes : compute[r].pc \notin {"sum", "week"}, NEW w \in DOMAIN weekly
        PROVE  weekly[w] = B!MailsOf(B!DaysOf(w))
    BY <1>1, <2>1 DEF RunsInv, WeeksInv, Complete
  <2>2. \A w \in DOMAIN weekly : \E days \in SUBSET B!DaysOf(w) : weekly[w] = B!MailsOf(days)
    BY <1>1 DEF WeeksInv
  <2>3. QED
    BY <2>1, <2>2 DEF B!WeekIsASum
<1>3. B!AlertsAreSpaced
  BY <1>1, AlertCounts DEF B!Cardinality, Cardinality, AlertsInv, B!AlertsAreSpaced, OfLate
<1>4. B!DeclineIsRecent
  BY <1>1 DEF DeclinesInv, B!DeclineIsRecent
<1>5. QED
  BY <1>1, <1>2, <1>3, <1>4 DEF B!BehaviorHolds
-------------------------------------------------------------------------------
(* Nothing moves while another part does.                                   *)

LEMMA SignInRests ==
  ASSUME SignInInv, UNCHANGED <<hour, fault>>, UNCHANGED <<signedIn, live, tracker, raced, revoke, failed, until, login>>
  PROVE  SignInInv'
<1>1. U!TypeOK'
  BY DEF SignInInv, U!TypeOK, U!IsInjective
<1>2. RowsLimited'
  BY DEF SignInInv, RowsLimited, UnderWay, Room, MakesRoom, One, U!Range
<1>3. FailuresLimited'
  BY DEF SignInInv, FailuresLimited, U!Locked, Trying
<1>4. U!SignedOut' /\ (until <= hour + LockTime)' /\ (\A t \in Processes : TrackOK(tracker[t]))'
  BY DEF SignInInv, TrackOK, U!SignedOut, U!LeftAlive
<1>5. QED
  BY <1>1, <1>2, <1>3, <1>4 DEF SignInInv

LEMMA PlansRest ==
  ASSUME PlansInv, UNCHANGED <<hour, fault>>, UNCHANGED <<gates, plan, planCache, used, quota, accounts, request, moves>>
  PROVE  PlansInv'
<1>1. H!TypeOK' /\ (moves = 0 => planCache \subseteq {plan})'
  BY DEF PlansInv, H!TypeOK, H!Plans, H!Features
<1>2. \A r \in Processes : AskedOK(request[r])'
  BY DEF PlansInv, AskedOK, H!HasFeature
<1>3. (moves = 0 /\ fault = 0 => WithinPlan)'
  BY DEF PlansInv, WithinPlan, AddsAccount, AddsTokens, AddsQuota, AddsPremium
<1>4. QED
  BY <1>1, <1>2, <1>3 DEF PlansInv

LEMMA RatesRest ==
  ASSUME RatesInv, UNCHANGED <<hour, fault>>, UNCHANGED <<buckets, windows, zset, worker, passed, merged>>
  PROVE  RatesInv'
<1>1. R!TypeOK' /\ passed' \in Histories
  BY DEF RatesInv, R!TypeOK, R!Full
<1>2. BucketsInv'
  BY BucketsStay DEF Level, R!Filled, R!Full, RatesInv
<1>3. WindowsInv'
  BY DEF RatesInv, WindowsInv, R!Valid, R!Since
<1>4. EntriesInv'
  BY DEF RatesInv, EntriesInv, Lately, Uncounted, Adding
<1>5. QED
  BY <1>1, <1>2, <1>3, <1>4 DEF RatesInv

LEMMA BehaviorRests ==
  ASSUME BehaviorInv, UNCHANGED <<hour, fault>>,
         UNCHANGED <<past, daily, weekly, snapshot, alerted, contact, compute, alerts, overlapped>>
  PROVE  BehaviorInv'
<1>1. B!TypeOK'
  BY DEF BehaviorInv, B!TypeOK
<1>2. RunsInv'
  BY DEF BehaviorInv, RunsInv
<1>3. WeeksInv'
  BY DEF BehaviorInv, WeeksInv, Complete, B!MailsOf, B!Mails, B!DaysOf, B!WeekOf
<1>4. AlertsInv'
  BY DEF BehaviorInv, AlertsInv, OfLate, Unmarked, AtSteps
<1>5. DeclinesInv'
  BY DEF BehaviorInv, DeclinesInv
<1>6. QED
  BY <1>1, <1>2, <1>3, <1>4, <1>5 DEF BehaviorInv

LimitsInv ==
  /\ part \in {"sessions", "logins"} => SignInInv
  /\ part = "limits" => PlansInv
  /\ part \in {"addresses", "workers"} => RatesInv
  /\ part \in {"balance", "contacts"} => BehaviorInv

\* Every limit is passed by what overlaps at most, and who is refused was so for
\* a cause: sessions, failed logins, accounts, tokens, premium calls, requests in a
\* minute, alerts in a week; and a sign-out that is answered leaves sessions alive
\* only by a call the provider refused (sessions.go:46, supabase.go:113,
\* lockout.go:41, gates.go:122, quota.go:51, ratelimit.go:58, auth_ratelimit.go:54,
\* ai/queue/ratelimit.go:35, wlb_alerts.go:30, communication.go:162,
\* relationships.go:204).
THEOREM LimitsAreHeld ==
  ASSUME U!AuthAssumption, H!LimitsAssumption, R!RateLimitsAssumption, B!BehaviorAssumption
  PROVE  Spec => []LimitsHold
<1>1. Init => LimitsInv
  <2>1. SUFFICES ASSUME Init PROVE LimitsInv
    OBVIOUS
  <2>2. U!Init /\ H!Init /\ R!Init /\ B!Init
    BY <2>1, Zenon DEF Init
  <2>3. QED
    BY <2>2, SignInInit, PlansInit, RatesInit, BehaviorInit DEF LimitsInv
<1>2. LimitsInv /\ [Next]_vars => LimitsInv'
  <2>1. SUFFICES ASSUME LimitsInv, [Next]_vars PROVE LimitsInv'
    OBVIOUS
  <2>2. CASE Next /\ part \in {"sessions", "logins"}
    BY <2>1, <2>2, SignInNext DEF Next, Is, LimitsInv
  <2>3. CASE Next /\ part = "limits"
    BY <2>1, <2>3, PlansNext DEF Next, Is, LimitsInv
  <2>4. CASE Next /\ part \in {"addresses", "workers"}
    BY <2>1, <2>4, RatesNext DEF Next, Is, LimitsInv
  <2>5. CASE Next /\ part \in {"balance", "contacts"}
    BY <2>1, <2>5, BehaviorNext DEF Next, Is, LimitsInv
  <2>6. CASE Next /\ part \notin {"sessions", "logins", "limits", "addresses", "workers", "balance", "contacts"}
    BY <2>6 DEF Next, Is, LimitsInv
  <2>7. CASE UNCHANGED vars
    <3>1. UNCHANGED <<part, hour, fault, signIn, limits, rates, behaviour>>
      BY <2>7 DEF vars
    <3>2. /\ UNCHANGED <<signedIn, live, tracker, raced, revoke, failed, until, login>>
          /\ UNCHANGED <<gates, plan, planCache, used, quota, accounts, request, moves>>
          /\ UNCHANGED <<buckets, windows, zset, worker, passed, merged>>
          /\ UNCHANGED <<past, daily, weekly, snapshot, alerted, contact, compute, alerts, overlapped>>
      BY <3>1 DEF signIn, limits, rates, behaviour
    <3>3. UNCHANGED <<hour, fault>> /\ part' = part
      BY <3>1
    <3>4. /\ SignInInv => SignInInv'
          /\ PlansInv => PlansInv'
          /\ RatesInv => RatesInv'
          /\ BehaviorInv => BehaviorInv'
      BY <3>2, <3>3, SignInRests, PlansRest, RatesRest, BehaviorRests
    <3>5. QED
      BY <2>1, <3>3, <3>4 DEF LimitsInv
  <2>8. QED
    BY <2>1, <2>2, <2>3, <2>4, <2>5, <2>6, <2>7
<1>3. LimitsInv => LimitsHold
  BY SignInHolds, PlansInvHolds, RatesHolds, BehaviorHolds DEF LimitsInv, LimitsHold
<1>4. QED
  BY <1>1, <1>2, <1>3, PTL DEF Spec

===============================================================================
