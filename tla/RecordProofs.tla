---------------------------- MODULE RecordProofs ----------------------------
(***************************************************************************)
(* Proofs about the records that people keep through the API: users and     *)
(* wallets, partner keys, the exception log. The three modules share no     *)
(* state, and each has its own inductive invariant.                         *)
(***************************************************************************)
EXTENDS Accounts, PartnerKeys, ExceptionLogs, TLAPS

-----------------------------------------------------------------------------
(***************************************************************************)
(* Users and wallets, for any users, addresses and requests under way. The  *)
(* row lock of user.update keeps the updates of one user apart; it does not *)
(* hold up a wallet that is being created, which is what raced records.     *)
(***************************************************************************)
UserRow == [active : BOOLEAN, locked : BOOLEAN]
WalletRow == [user : ExternalIds, status : {"ACTIVE", "SUSPENDED"}, raced : BOOLEAN]
WalletCall == [what : {"wallet"}, user : ExternalIds, raced : BOOLEAN]
UpdateCall == [what : {"update"}, user : ExternalIds, active : BOOLEAN, set : BOOLEAN,
               hidden : SUBSET Addresses]

Creating(q) == call[q] # NoCall /\ call[q].what = "wallet"
Updating(q) == call[q] # NoCall /\ call[q].what = "update"

\* Wallets and requests are about users that exist.
UsersExist ==
  /\ \A a \in Addresses : wallets[a] # NoWallet => users[wallets[a].user] # NoUser
  /\ \A q \in Requests : call[q] # NoCall => users[call[q].user] # NoUser

\* An update holds the lock of its row, and nobody else does.
OneUpdate ==
  \A q \in Requests : Updating(q) =>
    /\ users[call[q].user].locked
    /\ \A r \in Requests \ {q} : Updating(r) => call[r].user # call[q].user

\* A creation that no update has overlapped has an active user that is not locked.
UnracedIsActive ==
  \A q \in Requests : Creating(q) /\ ~call[q].raced =>
    users[call[q].user].active /\ ~users[call[q].user].locked

\* The wallets an update has not seen were created beside it.
UnseenAreRaced ==
  \A q \in Requests, a \in Addresses :
    Updating(q) /\ call[q].set /\ wallets[a] # NoWallet /\ wallets[a].user = call[q].user =>
      a \in call[q].hidden \/ wallets[a].raced

\* What an update has seen are wallets of its user.
HiddenAreWallets ==
  \A q \in Requests, a \in Addresses :
    Updating(q) /\ a \in call[q].hidden => wallets[a] # NoWallet /\ wallets[a].user = call[q].user

\* The properties to be proved, wallet by wallet.
ActiveAreRaced ==
  \A a \in Addresses :
    wallets[a] # NoWallet /\ wallets[a].status = "ACTIVE" /\ ~users[wallets[a].user].active =>
      wallets[a].raced

HasWallet ==
  \A u \in ExternalIds : users[u] # NoUser =>
    \E a \in Addresses : wallets[a] # NoWallet /\ wallets[a].user = u

AccountSound == /\ AccountsTypeOK /\ UsersExist /\ OneUpdate /\ UnracedIsActive /\ UnseenAreRaced
         /\ HiddenAreWallets /\ ActiveAreRaced /\ HasWallet

\* No row or request is the record that stands for none.
LEMMA AccountSomething ==
  /\ \A r \in UserRow : r # NoUser
  /\ \A r \in WalletRow : r # NoWallet
  /\ \A r \in WalletCall \cup UpdateCall : r # NoCall
  BY DEF UserRow, WalletRow, WalletCall, UpdateCall, NoUser, NoWallet, NoCall

\* The type invariant, with names for its records.
LEMMA AccountTypes ==
  AccountsTypeOK <=>
    /\ users \in [ExternalIds -> UserRow \cup {NoUser}]
    /\ wallets \in [Addresses -> WalletRow \cup {NoWallet}]
    /\ call \in [Requests -> WalletCall \cup UpdateCall \cup {NoCall}]
  BY DEF AccountsTypeOK, UserRow, WalletRow, WalletCall, UpdateCall

\* What kind of request a call is says which fields it has.
LEMMA Kinds ==
  ASSUME AccountSound, NEW q \in Requests
  PROVE  /\ Creating(q) => call[q] \in WalletCall
         /\ Updating(q) => call[q] \in UpdateCall
         /\ call[q] # NoCall => (Creating(q) \/ Updating(q)) /\ call[q].user \in ExternalIds
  BY AccountTypes DEF AccountSound, Creating, Updating, WalletCall, UpdateCall

\* Nobody, nothing, nowhere.
LEMMA AccountSoundInit == AccountsInit => AccountSound
  BY AccountTypes DEF AccountsInit, AccountSound, UsersExist, OneUpdate, UnracedIsActive, UnseenAreRaced,
     HiddenAreWallets, ActiveAreRaced, HasWallet, Creating, Updating

\* A user and its first wallet.
LEMMA CreateUserSound ==
  ASSUME AccountSound, NEW u \in ExternalIds, NEW a \in Addresses, CreateUser(u, a)
  PROVE  AccountSound'
<1> DEFINE row == [active |-> TRUE, locked |-> FALSE]
           wallet == NewWallet(u, FALSE)
<1>1. row \in UserRow /\ wallet \in WalletRow /\ wallet.user = u /\ row.active
  BY DEF UserRow, WalletRow, NewWallet
<1>2. /\ users[u] = NoUser /\ wallets[a] = NoWallet /\ UNCHANGED call
      /\ users' = [users EXCEPT ![u] = row] /\ wallets' = [wallets EXCEPT ![a] = wallet]
  BY DEF CreateUser
<1>3. AccountsTypeOK'
  BY <1>1, <1>2, AccountTypes DEF AccountSound, AccountsTypeOK, UserRow, WalletRow
<1>4. /\ users'[u] = row /\ wallets'[a] = wallet /\ row # NoUser /\ wallet # NoWallet
      /\ \A v \in ExternalIds \ {u} : users'[v] = users[v]
      /\ \A b \in Addresses \ {a} : wallets'[b] = wallets[b]
  BY <1>1, <1>2, AccountTypes, AccountSomething DEF AccountSound
<1>5. \A b \in Addresses \ {a} : wallets[b] # NoWallet => wallets[b].user \in ExternalIds \ {u}
  BY <1>2, AccountTypes DEF AccountSound, UsersExist, WalletRow
<1>6. \A q \in Requests : call[q] # NoCall => call[q].user \in ExternalIds \ {u}
  BY <1>2, Kinds DEF AccountSound, UsersExist
<1> HIDE DEF row, wallet
<1>7. UsersExist'
  BY <1>1, <1>2, <1>4, <1>5, <1>6 DEF AccountSound, UsersExist
<1>8. OneUpdate' /\ UnracedIsActive'
  BY <1>2, <1>4, <1>6 DEF AccountSound, OneUpdate, UnracedIsActive, Creating, Updating
<1>9. UnseenAreRaced'
  BY <1>1, <1>2, <1>4, <1>6 DEF AccountSound, UnseenAreRaced, Updating
<1>10. ActiveAreRaced'
  BY <1>1, <1>4, <1>5 DEF AccountSound, ActiveAreRaced
<1>11. HasWallet'
  BY <1>1, <1>2, <1>4 DEF AccountSound, HasWallet
<1>12. HiddenAreWallets'
  BY <1>2, <1>4 DEF AccountSound, HiddenAreWallets, Updating
<1>13. QED
  BY <1>3, <1>7, <1>8, <1>9, <1>10, <1>11, <1>12 DEF AccountSound

\* Asking for the user: a creation that is not raced starts with an active one.
LEMMA ReadUserSound ==
  ASSUME AccountSound, NEW q \in Requests, NEW u \in ExternalIds, ReadUser(q, u)
  PROVE  AccountSound'
<1> DEFINE c == [what |-> "wallet", user |-> u, raced |-> users[u].locked]
<1>1. users[u] \in UserRow /\ c \in WalletCall /\ c # NoCall
  BY AccountTypes, AccountSomething DEF AccountSound, ReadUser, UserRow, WalletCall
<1>2. call' = [call EXCEPT ![q] = c] /\ users[u] # NoUser /\ users[u].active /\ UNCHANGED <<users, wallets>>
  BY DEF ReadUser
<1>3. call'[q] = c /\ \A r \in Requests \ {q} : call'[r] = call[r]
  BY <1>2, AccountTypes DEF AccountSound
<1>4. AccountsTypeOK'
  BY <1>1, <1>2, AccountTypes DEF AccountSound, AccountsTypeOK, WalletCall, UpdateCall
<1>5. UsersExist' /\ OneUpdate' /\ UnracedIsActive' /\ UnseenAreRaced'
  BY <1>1, <1>2, <1>3
  DEF AccountSound, UsersExist, OneUpdate, UnracedIsActive, UnseenAreRaced, Creating, Updating
<1>6. HiddenAreWallets'
  BY <1>2, <1>3 DEF AccountSound, HiddenAreWallets, Updating
<1>7. ActiveAreRaced' /\ HasWallet'
  BY <1>2 DEF AccountSound, ActiveAreRaced, HasWallet
<1>8. QED
  BY <1>4, <1>5, <1>6, <1>7 DEF AccountSound

\* The insert: next to an update it is raced, so that no update misses it unnoticed.
LEMMA CreateWalletSound ==
  ASSUME AccountSound, NEW q \in Requests, NEW a \in Addresses, CreateWallet(q, a)
  PROVE  AccountSound'
<1>1. PICK u \in ExternalIds, raced \in BOOLEAN :
        Creating(q) /\ call[q].user = u /\ call[q].raced = raced
  BY Kinds DEF CreateWallet, Creating, WalletCall
<1> DEFINE wallet == NewWallet(u, raced)
<1>2. /\ wallets[a] = NoWallet /\ UNCHANGED users
      /\ wallets' = [wallets EXCEPT ![a] = wallet] /\ call' = [call EXCEPT ![q] = NoCall]
  BY <1>1 DEF CreateWallet
<1>3. wallet \in WalletRow /\ wallet # NoWallet /\ wallet.user = u /\ wallet.raced = raced
  BY <1>1, AccountSomething DEF WalletRow, NewWallet
<1>4. /\ wallets'[a] = wallet /\ \A b \in Addresses \ {a} : wallets'[b] = wallets[b]
      /\ call'[q] = NoCall /\ \A r \in Requests \ {q} : call'[r] = call[r]
  BY <1>2, AccountTypes DEF AccountSound
<1>5. AccountsTypeOK'
  BY <1>2, <1>3, AccountTypes DEF AccountSound, AccountsTypeOK, WalletRow
<1> HIDE DEF wallet
<1>6. UsersExist' /\ OneUpdate' /\ UnracedIsActive'
  BY <1>1, <1>2, <1>3, <1>4
  DEF AccountSound, UsersExist, OneUpdate, UnracedIsActive, Creating, Updating
<1>7. raced \/ (users[u].active /\ ~users[u].locked)
  BY <1>1 DEF AccountSound, UnracedIsActive
<1>8. UnseenAreRaced'
  BY <1>1, <1>3, <1>4, <1>7 DEF AccountSound, UnseenAreRaced, OneUpdate, Updating
<1>9. ActiveAreRaced'
  BY <1>2, <1>3, <1>4, <1>7 DEF AccountSound, ActiveAreRaced
<1>10. HasWallet'
  BY <1>2, <1>4 DEF AccountSound, HasWallet
<1>11. HiddenAreWallets'
  BY <1>2, <1>4 DEF AccountSound, HiddenAreWallets, Updating
<1>12. QED
  BY <1>5, <1>6, <1>8, <1>9, <1>10, <1>11 DEF AccountSound

\* The row lock: no other update of this user, and every creation is raced now.
LEMMA UpdateUserSound ==
  ASSUME AccountSound, NEW q \in Requests, NEW u \in ExternalIds, NEW active \in BOOLEAN,
         UpdateUser(q, u, active)
  PROVE  AccountSound'
<1> DEFINE c == [what |-> "update", user |-> u, active |-> active, set |-> FALSE, hidden |-> {}]
           row == [users[u] EXCEPT !.locked = TRUE]
<1>1. users[u] \in UserRow /\ c \in UpdateCall /\ c # NoCall /\ c.user = u
  BY AccountTypes, AccountSomething DEF AccountSound, UpdateUser, UserRow, UpdateCall
<1>2. row \in UserRow /\ row.locked /\ row.active = users[u].active /\ row # NoUser
  BY <1>1, AccountSomething DEF UserRow
<1>3. /\ call[q] = NoCall /\ users[u] # NoUser /\ ~users[u].locked /\ UNCHANGED wallets
      /\ users' = [users EXCEPT ![u] = row] /\ call' = [Racing(u, call) EXCEPT ![q] = c]
  BY DEF UpdateUser
<1>4. users'[u] = row /\ \A v \in ExternalIds \ {u} : users'[v] = users[v]
  BY <1>3, AccountTypes DEF AccountSound
<1>5. \A r \in Requests :
        /\ Creating(r) /\ call[r].user = u =>
             /\ Racing(u, call)[r] \in WalletCall /\ Racing(u, call)[r].user = u
             /\ Racing(u, call)[r].raced
        /\ ~(Creating(r) /\ call[r].user = u) => Racing(u, call)[r] = call[r]
  <2> SUFFICES ASSUME NEW r \in Requests
               PROVE  /\ Creating(r) /\ call[r].user = u =>
                           /\ Racing(u, call)[r] \in WalletCall /\ Racing(u, call)[r].user = u
                           /\ Racing(u, call)[r].raced
                      /\ ~(Creating(r) /\ call[r].user = u) => Racing(u, call)[r] = call[r]
    OBVIOUS
  <2>1. Racing(u, call)[r] =
          IF Creating(r) /\ call[r].user = u THEN [call[r] EXCEPT !.raced = TRUE] ELSE call[r]
    BY DEF Racing, Creating
  <2>2. ASSUME Creating(r), call[r].user = u
        PROVE  /\ [call[r] EXCEPT !.raced = TRUE] \in WalletCall
               /\ [call[r] EXCEPT !.raced = TRUE].user = u /\ [call[r] EXCEPT !.raced = TRUE].raced
    BY <2>2, Kinds DEF WalletCall
  <2>3. QED
    BY <2>1, <2>2
<1>6. /\ call'[q] = c /\ \A r \in Requests \ {q} : call'[r] = Racing(u, call)[r]
      /\ call' \in [Requests -> WalletCall \cup UpdateCall \cup {NoCall}]
  <2>1. Racing(u, call) \in [Requests -> WalletCall \cup UpdateCall \cup {NoCall}]
    <3>1. \A r \in Requests : Racing(u, call)[r] \in WalletCall \cup UpdateCall \cup {NoCall}
      BY <1>5, AccountTypes DEF AccountSound
    <3>2. Racing(u, call) = [r \in Requests |-> Racing(u, call)[r]]
      BY DEF Racing
    <3>3. QED
      BY <3>1, <3>2
  <2>2. QED
    BY <1>1, <1>3, <2>1
<1>7. AccountsTypeOK'
  BY <1>2, <1>3, <1>6, AccountTypes DEF AccountSound, AccountsTypeOK, UserRow, WalletCall, UpdateCall
<1>8. \A r \in Requests \ {q} :
        /\ call'[r] # NoCall <=> call[r] # NoCall
        /\ call[r] # NoCall => call'[r].user = call[r].user /\ call'[r].what = call[r].what
        /\ Updating(r) => call'[r] = call[r]
  <2> SUFFICES ASSUME NEW r \in Requests \ {q}
               PROVE  /\ call'[r] # NoCall <=> call[r] # NoCall
                      /\ call[r] # NoCall => call'[r].user = call[r].user /\ call'[r].what = call[r].what
                      /\ Updating(r) => call'[r] = call[r]
    OBVIOUS
  <2>1. call'[r] = Racing(u, call)[r]
    BY <1>6
  <2>2. CASE Creating(r) /\ call[r].user = u
    <3>1. call'[r] \in WalletCall /\ call'[r].user = u
      BY <1>5, <2>1, <2>2
    <3>2. call'[r] # NoCall /\ call'[r].what = "wallet"
      BY <3>1, AccountSomething DEF WalletCall
    <3>3. QED
      BY <2>2, <3>1, <3>2 DEF Creating, Updating
  <2>3. CASE ~(Creating(r) /\ call[r].user = u)
    BY <1>5, <2>1, <2>3
  <2>4. QED
    BY <2>2, <2>3
<1> HIDE DEF c, row
<1>9. UsersExist'
  BY <1>1, <1>2, <1>3, <1>4, <1>6, <1>8, Kinds, AccountTypes DEF AccountSound, UsersExist, WalletRow
<1>10. OneUpdate'
  <2>1. \A r \in Requests \ {q} : Updating(r)' => Updating(r) /\ call'[r] = call[r]
    BY <1>8 DEF Updating
  <2>2. \A r \in Requests : Updating(r) => call[r].user \in ExternalIds \ {u}
    BY <1>3, Kinds DEF AccountSound, OneUpdate, Updating
  <2>3. QED
    BY <1>1, <1>2, <1>4, <1>6, <2>1, <2>2 DEF AccountSound, OneUpdate
<1>11. UnracedIsActive'
  <2> SUFFICES ASSUME NEW r \in Requests, Creating(r)', ~call'[r].raced
               PROVE  users'[call'[r].user].active /\ ~users'[call'[r].user].locked
    BY DEF UnracedIsActive
  <2>1. c.what = "update"
    BY DEF c
  <2>2. r # q /\ Creating(r)
    BY <1>6, <1>8, <2>1 DEF Creating
  <2>3. call[r].user # u /\ call'[r] = call[r] /\ call[r].user \in ExternalIds
    BY <1>5, <1>6, <2>2, Kinds DEF Creating
  <2>4. QED
    BY <1>4, <2>2, <2>3 DEF AccountSound, UnracedIsActive
<1>12. UnseenAreRaced'
  <2>1. ~c.set
    BY DEF c
  <2>2. \A r \in Requests \ {q} : Updating(r)' => Updating(r) /\ call'[r] = call[r]
    BY <1>8 DEF Updating
  <2>3. QED
    BY <1>3, <1>6, <2>1, <2>2 DEF AccountSound, UnseenAreRaced
<1>13. ActiveAreRaced'
  BY <1>2, <1>3, <1>4, AccountTypes DEF AccountSound, ActiveAreRaced, WalletRow
<1>14. HasWallet'
  BY <1>3, <1>4 DEF AccountSound, HasWallet
<1>15. HiddenAreWallets'
  <2>1. c.hidden = {}
    BY DEF c
  <2>2. \A r \in Requests \ {q} : Updating(r)' => Updating(r) /\ call'[r] = call[r]
    BY <1>8 DEF Updating
  <2>3. QED
    BY <1>3, <1>6, <2>1, <2>2 DEF AccountSound, HiddenAreWallets
<1>16. QED
  BY <1>7, <1>9, <1>10, <1>11, <1>12, <1>13, <1>14, <1>15 DEF AccountSound

\* The update has seen all the wallets there are.
LEMMA UpdateWalletsSound ==
  ASSUME AccountSound, NEW q \in Requests, UpdateWallets(q)
  PROVE  AccountSound'
<1> DEFINE seen == WalletsOf(call[q].user)
           c == [call[q] EXCEPT !.set = TRUE, !.hidden = seen]
<1>1. call[q] \in UpdateCall /\ Updating(q)
  BY Kinds DEF UpdateWallets, Updating
<1>2. /\ seen \subseteq Addresses
      /\ \A a \in Addresses : wallets[a] # NoWallet /\ wallets[a].user = call[q].user <=> a \in seen
  BY DEF WalletsOf
<1>3. c \in UpdateCall /\ c # NoCall /\ c.user = call[q].user /\ c.what = call[q].what /\ c.hidden = seen
  BY <1>1, <1>2, AccountSomething DEF UpdateCall
<1>4. call' = [call EXCEPT ![q] = c] /\ UNCHANGED <<users, wallets>>
  BY DEF UpdateWallets
<1>5. call'[q] = c /\ \A r \in Requests \ {q} : call'[r] = call[r]
  BY <1>4, AccountTypes DEF AccountSound
<1>6. AccountsTypeOK'
  BY <1>3, <1>4, AccountTypes DEF AccountSound, AccountsTypeOK, WalletCall, UpdateCall
<1> HIDE DEF seen, c
<1>7. UsersExist' /\ OneUpdate' /\ UnracedIsActive'
  BY <1>1, <1>3, <1>4, <1>5
  DEF AccountSound, UsersExist, OneUpdate, UnracedIsActive, Creating, Updating
<1>8. UnseenAreRaced'
  BY <1>2, <1>3, <1>4, <1>5 DEF AccountSound, UnseenAreRaced, Updating
<1>9. ActiveAreRaced' /\ HasWallet'
  BY <1>4 DEF AccountSound, ActiveAreRaced, HasWallet
<1>10. HiddenAreWallets'
  BY <1>1, <1>2, <1>3, <1>4, <1>5 DEF AccountSound, HiddenAreWallets, Updating
<1>11. QED
  BY <1>6, <1>7, <1>8, <1>9, <1>10 DEF AccountSound

\* User and wallets change at once; a wallet that stays as it was is raced.
LEMMA CommitSound ==
  ASSUME AccountSound, NEW q \in Requests, Commit(q)
  PROVE  AccountSound'
<1>1. PICK u \in ExternalIds, active \in BOOLEAN, hidden \in SUBSET Addresses :
        /\ Updating(q) /\ call[q].set
        /\ call[q].user = u /\ call[q].active = active /\ call[q].hidden = hidden
  BY Kinds DEF Commit, Updating, UpdateCall
<1> DEFINE status == IF active THEN "ACTIVE" ELSE "SUSPENDED"
           row == [active |-> active, locked |-> FALSE]
<1>2. row \in UserRow /\ row # NoUser /\ row.active = active
  BY <1>1, AccountSomething DEF UserRow
<1>3. /\ users' = [users EXCEPT ![u] = row] /\ call' = [call EXCEPT ![q] = NoCall]
      /\ wallets' = [a \in Addresses |->
           IF a \in hidden THEN [wallets[a] EXCEPT !.status = status] ELSE wallets[a]]
  BY <1>1 DEF Commit
<1>4. /\ users'[u] = row /\ \A v \in ExternalIds \ {u} : users'[v] = users[v]
      /\ call'[q] = NoCall /\ \A r \in Requests \ {q} : call'[r] = call[r]
  BY <1>1, <1>3, AccountTypes DEF AccountSound
<1>5. \A a \in Addresses :
        /\ wallets'[a] \in WalletRow \cup {NoWallet}
        /\ wallets'[a] # NoWallet <=> wallets[a] # NoWallet
        /\ wallets[a] # NoWallet => wallets'[a].user = wallets[a].user /\ wallets'[a].raced = wallets[a].raced
        /\ a \in hidden => wallets[a].user = u /\ wallets'[a].status = status
        /\ a \notin hidden => wallets'[a] = wallets[a]
  <2> SUFFICES ASSUME NEW a \in Addresses
               PROVE  /\ wallets'[a] \in WalletRow \cup {NoWallet}
                      /\ wallets'[a] # NoWallet <=> wallets[a] # NoWallet
                      /\ wallets[a] # NoWallet =>
                           wallets'[a].user = wallets[a].user /\ wallets'[a].raced = wallets[a].raced
                      /\ a \in hidden => wallets[a].user = u /\ wallets'[a].status = status
                      /\ a \notin hidden => wallets'[a] = wallets[a]
    OBVIOUS
  <2>1. CASE a \in hidden
    <3>1. wallets[a] # NoWallet /\ wallets[a].user = u /\ wallets[a] \in WalletRow
      BY <1>1, <2>1, AccountTypes DEF AccountSound, HiddenAreWallets
    <3>2. wallets'[a] = [wallets[a] EXCEPT !.status = status]
      BY <1>3, <2>1
    <3>3. wallets'[a] \in WalletRow /\ wallets'[a].user = wallets[a].user
          /\ wallets'[a].raced = wallets[a].raced /\ wallets'[a].status = status
      BY <3>1, <3>2 DEF WalletRow
    <3>4. QED
      BY <2>1, <3>1, <3>3, AccountSomething
  <2>2. CASE a \notin hidden
    BY <1>3, <2>2, AccountTypes DEF AccountSound
  <2>3. QED
    BY <2>1, <2>2
<1>6. AccountsTypeOK'
  <2>1. wallets' \in [Addresses -> WalletRow \cup {NoWallet}]
    BY <1>3, <1>5
  <2>2. users' \in [ExternalIds -> UserRow \cup {NoUser}] /\ call' \in [Requests -> WalletCall \cup UpdateCall \cup {NoCall}]
    BY <1>2, <1>3, AccountTypes DEF AccountSound
  <2>3. QED
    BY <2>1, <2>2 DEF AccountsTypeOK, UserRow, WalletRow, WalletCall, UpdateCall
<1> HIDE DEF row
<1>7. users[u] # NoUser /\ users[u].locked
  BY <1>1 DEF AccountSound, OneUpdate, UsersExist, Updating
<1>8. UsersExist'
  BY <1>2, <1>4, <1>5, Kinds, AccountTypes DEF AccountSound, UsersExist, WalletRow
<1>9. OneUpdate'
  BY <1>1, <1>4, Kinds DEF AccountSound, OneUpdate, Updating
<1>10. UnracedIsActive'
  BY <1>4, <1>7, Kinds DEF AccountSound, UnracedIsActive, Creating
<1>11. UnseenAreRaced'
  BY <1>4, <1>5 DEF AccountSound, UnseenAreRaced, Updating
<1>12. HiddenAreWallets'
  BY <1>4, <1>5 DEF AccountSound, HiddenAreWallets, Updating
<1>13. ActiveAreRaced'
  <2> SUFFICES ASSUME NEW a \in Addresses, wallets'[a] # NoWallet, wallets'[a].status = "ACTIVE",
                      ~users'[wallets'[a].user].active
               PROVE  wallets'[a].raced
    BY DEF ActiveAreRaced
  <2>1. /\ wallets[a] # NoWallet /\ wallets[a].user \in ExternalIds
        /\ wallets'[a].user = wallets[a].user /\ wallets'[a].raced = wallets[a].raced
    BY <1>5, AccountTypes DEF AccountSound, WalletRow
  <2>2. CASE wallets[a].user = u
    <3>1. ~active
      BY <1>2, <1>4, <2>1, <2>2
    <3>2. a \notin hidden
      BY <1>5, <3>1
    <3>3. QED
      BY <1>1, <2>1, <2>2, <3>2 DEF AccountSound, UnseenAreRaced
  <2>3. CASE wallets[a].user # u
    BY <1>4, <1>5, <2>1, <2>3 DEF AccountSound, ActiveAreRaced
  <2>4. QED
    BY <2>2, <2>3
<1>14. HasWallet'
  BY <1>4, <1>5, <1>7 DEF AccountSound, HasWallet
<1>15. QED
  BY <1>6, <1>8, <1>9, <1>10, <1>11, <1>12, <1>13, <1>14 DEF AccountSound

\* An update that fails gives its lock back, and nothing else has changed.
LEMMA AbandonSound ==
  ASSUME AccountSound, NEW q \in Requests, Abandon(q)
  PROVE  AccountSound'
<1>1. PICK u \in ExternalIds : call[q] # NoCall /\ call[q].user = u /\ users[u] # NoUser
  BY Kinds DEF AccountSound, UsersExist, Abandon
<1> DEFINE row == [users[u] EXCEPT !.locked = FALSE]
<1>2. users[u] \in UserRow /\ row \in UserRow /\ row # NoUser /\ row.active = users[u].active
  BY <1>1, AccountTypes, AccountSomething DEF AccountSound, UserRow
<1>3. /\ users' = IF Updating(q) THEN [users EXCEPT ![u] = row] ELSE users
      /\ call' = [call EXCEPT ![q] = NoCall] /\ UNCHANGED wallets
  BY <1>1 DEF Abandon, Updating
<1>4. /\ call'[q] = NoCall /\ \A r \in Requests \ {q} : call'[r] = call[r]
      /\ \A v \in ExternalIds \ {u} : users'[v] = users[v]
      /\ users'[u] = IF Updating(q) THEN row ELSE users[u]
  BY <1>3, AccountTypes DEF AccountSound
<1>5. AccountsTypeOK'
  <2>1. /\ users' \in [ExternalIds -> UserRow \cup {NoUser}]
        /\ call' \in [Requests -> WalletCall \cup UpdateCall \cup {NoCall}]
    BY <1>2, <1>3, AccountTypes DEF AccountSound
  <2>2. QED
    BY <1>3, <2>1, AccountTypes DEF AccountSound, AccountsTypeOK, UserRow, WalletCall, UpdateCall
<1> HIDE DEF row
<1>6. \A v \in ExternalIds : (users'[v] # NoUser <=> users[v] # NoUser)
                          /\ (users[v] # NoUser => users'[v].active = users[v].active)
  BY <1>1, <1>2, <1>4
<1>7. Updating(q) => users[u].locked
  BY <1>1 DEF AccountSound, OneUpdate
<1>8. UsersExist'
  BY <1>3, <1>4, <1>6, Kinds, AccountTypes DEF AccountSound, UsersExist, WalletRow
<1>9. OneUpdate'
  BY <1>1, <1>4, Kinds DEF AccountSound, OneUpdate, Updating
<1>10. UnracedIsActive'
  BY <1>1, <1>4, <1>7, Kinds DEF AccountSound, UnracedIsActive, Creating
<1>11. UnseenAreRaced' /\ HiddenAreWallets'
  BY <1>3, <1>4 DEF AccountSound, UnseenAreRaced, HiddenAreWallets, Updating
<1>12. ActiveAreRaced'
  BY <1>3, <1>6, AccountTypes DEF AccountSound, ActiveAreRaced, UsersExist, WalletRow
<1>13. HasWallet'
  BY <1>3, <1>6 DEF AccountSound, HasWallet
<1>14. QED
  BY <1>5, <1>8, <1>9, <1>10, <1>11, <1>12, <1>13 DEF AccountSound

LEMMA AccountSoundStep == AccountSound /\ [AccountsNext]_accountVars => AccountSound'
<1> SUFFICES ASSUME AccountSound, [AccountsNext]_accountVars PROVE AccountSound'
  OBVIOUS
<1>1. CASE \E u \in ExternalIds, a \in Addresses : CreateUser(u, a)
  BY <1>1, CreateUserSound
<1>2. ASSUME NEW q \in Requests, NEW u \in ExternalIds, ReadUser(q, u)
      PROVE  AccountSound'
  BY <1>2, ReadUserSound
<1>3. ASSUME NEW q \in Requests, NEW u \in ExternalIds, NEW active \in BOOLEAN, UpdateUser(q, u, active)
      PROVE  AccountSound'
  BY <1>3, UpdateUserSound
<1>4. ASSUME NEW q \in Requests, NEW a \in Addresses, CreateWallet(q, a)
      PROVE  AccountSound'
  BY <1>4, CreateWalletSound
<1>5. ASSUME NEW q \in Requests, UpdateWallets(q) \/ Commit(q) \/ Abandon(q)
      PROVE  AccountSound'
  BY <1>5, UpdateWalletsSound, CommitSound, AbandonSound
<1>6. CASE UNCHANGED accountVars
  BY <1>6 DEF accountVars, AccountSound, AccountsTypeOK, UsersExist, OneUpdate, UnracedIsActive, UnseenAreRaced,
     HiddenAreWallets, ActiveAreRaced, HasWallet, Creating, Updating
<1>7. QED
  BY <1>1, <1>2, <1>3, <1>4, <1>5, <1>6 DEF AccountsNext

LEMMA SoundAlways == AccountsSpec => []AccountSound
  BY AccountSoundInit, AccountSoundStep, PTL DEF AccountsSpec

\* Rows and requests have the fields the code reads from them.
THEOREM AccountsTypeCorrect == AccountsSpec => []AccountsTypeOK
<1>1. AccountSound => AccountsTypeOK
  BY DEF AccountSound
<1>2. QED
  BY <1>1, SoundAlways, PTL

\* The wallets of a suspended user are suspended, but for those whose creation
\* overlapped a change of isActive (UserService.update, WalletService.createWallet).
THEOREM SuspendedTheorem == AccountsSpec => []SuspendedStaysSo
<1>1. AccountSound => SuspendedStaysSo
  BY DEF AccountSound, ActiveAreRaced, SuspendedStaysSo, WalletsOf
<1>2. QED
  BY <1>1, SoundAlways, PTL

\* A user is never without a wallet (UserService.create, one transaction).
THEOREM WalletTheorem == AccountsSpec => []UserHasWallet
<1>1. AccountSound => UserHasWallet
  BY DEF AccountSound, HasWallet, UserHasWallet, WalletsOf
<1>2. QED
  BY <1>1, SoundAlways, PTL

-----------------------------------------------------------------------------
(***************************************************************************)
(* Partner keys, for any partners, operators and raw strings, with prefixes *)
(* that coincide in any way.                                                *)
(***************************************************************************)
StoredRow == [key : Keys, prefix : {PrefixOf[r] : r \in Raws}]
Check == [key : Keys, partner : Partners, row : StoredRow, since : SUBSET Keys]
Issue == [partner : Partners, key : Keys, at : {"hash", "answer"}]

\* A row has the prefix of the key that was hashed, and no two rows the same one.
RowsAgree ==
  \A p \in Partners : Issued(p) =>
    /\ stored[p].prefix = PrefixOf[stored[p].key.raw]
    /\ \A q \in Partners \ {p} : Issued(q) => stored[q].prefix # stored[p].prefix

\* The row that a check has read was the partner's since the check began.
CheckIsRecent == guard # None => guard.row.key \in guard.since

KeySound == KeysTypeOK /\ RowsAgree /\ CheckIsRecent /\ ReplacedKeyRefused

\* No row, request or check is the record that stands for none.
LEMMA KeySomething ==
  /\ \A r \in StoredRow : r # None
  /\ \A r \in Issue : r # None
  /\ \A r \in Check : r # None
  BY DEF StoredRow, Issue, Check, None

\* The type invariant, with its local names as definitions.
LEMMA KeyTypes ==
  KeysTypeOK <=>
    /\ stored \in [Partners -> StoredRow \cup {None}]
    /\ drawn \subseteq Raws
    /\ issuing \in [Operators -> Issue \cup {None}]
    /\ given \in [Partners -> SUBSET Keys]
    /\ guard \in Check \cup {None} /\ accepted \in Check \cup {None}
  BY DEF KeysTypeOK, StoredRow, Check, Issue

\* No partner has a key yet.
LEMMA KeySoundInit == KeysInit => KeySound
  BY KeyTypes DEF KeysInit, KeySound, RowsAgree, CheckIsRecent, ReplacedKeyRefused, Issued

\* A check that notices a new key is still the same check.
LEMMA NoticedIsCheck ==
  ASSUME KeySound, NEW p \in Partners, NEW key \in Keys
  PROVE  /\ Noticed(p, key) \in Check \cup {None}
         /\ Noticed(p, key) # None => Noticed(p, key).row.key \in Noticed(p, key).since
<1>1. CASE guard # None /\ guard.partner = p
  <2>1. guard \in Check
    BY <1>1, KeyTypes DEF KeySound
  <2>2. Noticed(p, key) = [guard EXCEPT !.since = guard.since \cup {key}]
    BY <1>1 DEF Noticed
  <2>3. /\ Noticed(p, key) \in Check /\ Noticed(p, key).row = guard.row
        /\ Noticed(p, key).since = guard.since \cup {key}
    BY <2>1, <2>2 DEF Check
  <2>4. QED
    BY <1>1, <2>3 DEF KeySound, CheckIsRecent
<1>2. CASE ~(guard # None /\ guard.partner = p)
  BY <1>2, KeyTypes DEF Noticed, KeySound, CheckIsRecent
<1>3. QED
  BY <1>1, <1>2

\* Drawing a string is nobody else's business.
LEMMA DrawSound ==
  ASSUME KeySound, NEW o \in Operators, NEW p \in Partners, NEW r \in Raws, NEW dotted \in BOOLEAN,
         Draw(o, p, r, dotted)
  PROVE  KeySound'
<1>1. [partner |-> p, key |-> [dotted |-> dotted, raw |-> r], at |-> "hash"] \in Issue
  BY DEF Issue, Keys
<1>2. KeysTypeOK'
  BY <1>1, KeyTypes DEF KeySound, Draw, KeysTypeOK, StoredRow, Check, Issue
<1>3. QED
  BY <1>2 DEF KeySound, Draw, RowsAgree, CheckIsRecent, ReplacedKeyRefused, Issued

\* The statement writes hash and prefix together, and the unique index keeps the
\* prefix from being somebody else's.
LEMMA StoreSound ==
  ASSUME KeySound, NEW o \in Operators, Store(o)
  PROVE  KeySound'
<1> DEFINE p == issuing[o].partner
           key == issuing[o].key
           row == [key |-> key, prefix |-> PrefixOf[key.raw]]
<1>1. issuing[o] \in Issue /\ p \in Partners /\ key \in Keys /\ key.raw \in Raws
  BY KeyTypes DEF KeySound, Store, Write, Issue, Keys
<1>2. row \in StoredRow /\ row.key = key /\ row.prefix = PrefixOf[key.raw] /\ row # None
  BY <1>1, KeySomething DEF StoredRow
<1>3. /\ ~Taken(PrefixOf[key.raw], p)
      /\ stored' = [stored EXCEPT ![p] = row]
      /\ issuing' = [issuing EXCEPT ![o].at = "answer"]
      /\ guard' = Noticed(p, key)
      /\ UNCHANGED <<drawn, given, accepted>>
  BY DEF Store, Write
<1>4. [issuing[o] EXCEPT !.at = "answer"] \in Issue
  BY <1>1 DEF Issue
<1>5. /\ stored' \in [Partners -> StoredRow \cup {None}]
      /\ issuing' \in [Operators -> Issue \cup {None}]
      /\ guard' \in Check \cup {None}
      /\ CheckIsRecent'
  BY <1>1, <1>2, <1>3, <1>4, NoticedIsCheck, KeyTypes DEF KeySound, CheckIsRecent
<1>6. KeysTypeOK'
  BY <1>3, <1>5, KeyTypes DEF KeySound, KeysTypeOK, StoredRow, Check, Issue
<1>7. RowsAgree'
  <2>1. stored'[p] = row /\ \A q \in Partners \ {p} : stored'[q] = stored[q]
    BY <1>1, <1>3, KeyTypes DEF KeySound
  <2>2. \A q \in Partners \ {p} : Issued(q) => stored[q].prefix # row.prefix
    BY <1>2, <1>3 DEF Taken
  <2>3. QED
    BY <1>2, <2>1, <2>2 DEF KeySound, RowsAgree, Issued
<1>8. QED
  BY <1>3, <1>5, <1>6, <1>7 DEF KeySound, ReplacedKeyRefused

\* Every step keeps it.
LEMMA KeySoundStep == KeySound /\ [KeysNext]_keyVars => KeySound'
<1> SUFFICES ASSUME KeySound, [KeysNext]_keyVars PROVE KeySound'
  OBVIOUS
<1>1. ASSUME NEW o \in Operators, NEW p \in Partners, NEW r \in Raws, Create(o, p, r) \/ Rotate(o, p, r)
      PROVE KeySound'
  BY <1>1, DrawSound DEF Create, Rotate
<1>2. ASSUME NEW o \in Operators, Store(o) PROVE KeySound'
  BY <1>2, StoreSound
<1>3. ASSUME NEW o \in Operators, StoreFails(o) \/ AnswerLost(o) PROVE KeySound'
  <2>1. KeysTypeOK'
    BY <1>3, KeyTypes DEF KeySound, StoreFails, AnswerLost, KeysTypeOK, StoredRow, Check, Issue
  <2>2. QED
    BY <1>3, <2>1
    DEF KeySound, StoreFails, AnswerLost, RowsAgree, CheckIsRecent, ReplacedKeyRefused, Issued
<1>4. ASSUME NEW o \in Operators, Show(o) PROVE KeySound'
  <2>1. issuing[o].partner \in Partners /\ issuing[o].key \in Keys
    BY <1>4, KeyTypes DEF KeySound, Show, Issue
  <2>2. KeysTypeOK'
    BY <1>4, <2>1, KeyTypes DEF KeySound, Show, KeysTypeOK, StoredRow, Check, Issue
  <2>3. QED
    BY <1>4, <2>2 DEF KeySound, Show, RowsAgree, CheckIsRecent, ReplacedKeyRefused, Issued
<1>5. ASSUME NEW p \in Partners, NEW key \in UNION {given[q] : q \in Partners}, Lookup(key, p)
      PROVE KeySound'
  <2>1. key \in Keys /\ stored[p] \in StoredRow
    BY <1>5, KeyTypes DEF KeySound, Lookup, Finds, Issued
  <2>2. stored[p].key \in Keys
    BY <2>1 DEF StoredRow
  <2>3. guard' = [key |-> key, partner |-> p, row |-> stored[p], since |-> {stored[p].key}]
    BY <1>5 DEF Lookup
  <2>4. guard' \in Check /\ CheckIsRecent'
    BY <2>1, <2>2, <2>3 DEF Check, CheckIsRecent
  <2>5. KeysTypeOK'
    BY <1>5, <2>4, KeyTypes DEF KeySound, Lookup, KeysTypeOK, StoredRow, Check, Issue
  <2>6. QED
    BY <1>5, <2>4, <2>5 DEF KeySound, Lookup, RowsAgree, ReplacedKeyRefused, Issued
<1>6. ASSUME Compare PROVE KeySound'
  <2>1. KeysTypeOK'
    BY <1>6, KeyTypes DEF KeySound, Compare, KeysTypeOK, StoredRow, Check, Issue
  <2>2. ReplacedKeyRefused'
    BY <1>6 DEF KeySound, Compare, CheckIsRecent, ReplacedKeyRefused
  <2>3. QED
    BY <1>6, <2>1, <2>2 DEF KeySound, Compare, RowsAgree, CheckIsRecent, Issued
<1>7. CASE UNCHANGED keyVars
  BY <1>7 DEF keyVars, KeySound, KeysTypeOK, RowsAgree, CheckIsRecent, ReplacedKeyRefused, Issued
<1>8. QED
  BY <1>1, <1>2, <1>3, <1>4, <1>5, <1>6, <1>7 DEF KeysNext

\* The types of PartnerKeys, in every reachable state.
THEOREM KeysTypeCorrect == KeysSpec => []KeysTypeOK
<1>1. KeySound => KeysTypeOK
  BY DEF KeySound
<1>2. QED
  BY KeySoundInit, KeySoundStep, <1>1, PTL DEF KeysSpec

\* The key of the last rotation finds its partner and nobody else, however many
\* rotations and registrations overlap, fail and collide: updateApiKeyHash
\* writes hash and prefix in one statement, under a unique index.
THEOREM RotationTheorem == KeysSpec => []RotatedKeyWorks
<1>1. KeySound => RotatedKeyWorks
  <2> SUFFICES ASSUME KeySound, NEW p \in Partners, Issued(p), stored[p].key.dotted
               PROVE  /\ Authenticates(stored[p].key, p)
                      /\ \A q \in Partners \ {p} : ~Finds(stored[p].key, q)
    BY DEF RotatedKeyWorks
  <2>1. Prefix(stored[p].key) = stored[p].prefix
    BY DEF KeySound, RowsAgree, Prefix
  <2>2. QED
    BY <2>1 DEF KeySound, RowsAgree, Authenticates, Finds
<1>2. QED
  BY KeySoundInit, KeySoundStep, <1>1, PTL DEF KeysSpec

\* ApiKeyGuard lets no key through that was not its partner's at some moment
\* since the request was looked up.
THEOREM ReplacedTheorem == KeysSpec => []ReplacedKeyRefused
<1>1. KeySound => ReplacedKeyRefused
  BY DEF KeySound
<1>2. QED
  BY KeySoundInit, KeySoundStep, <1>1, PTL DEF KeysSpec

-----------------------------------------------------------------------------
(***************************************************************************)
(* The exception log, for any rows and any number of sessions. A request    *)
(* acts on what it has checked earlier; what holds until it writes is in    *)
(* InHand.                                                                  *)
(***************************************************************************)
Tasks == [what : {"update", "delete"}, log : Logs, status : Statuses]
Sheets == [log : Logs, row : Rows]

\* A row about to be deleted was done when it was checked, and an update whose
\* row has been deleted since has overlapped the deletion.
InHand ==
  \A c \in Clerks : task[c] # NoTask =>
    LET l == task[c].log IN
    /\ logs[l] # NoLog
    /\ task[c].what = "delete" => logs[l].old /\ (logs[l].status = "RESOLVED" \/ l \in overlap)
    /\ task[c].what = "update" => ~logs[l].deleted \/ l \in overlap

LogSound == LogsTypeOK /\ InHand /\ DeletedIsDone

\* No record of a row or a request is the one that stands for none.
LEMMA LogSomething ==
  /\ \A r \in Rows : r # NoLog
  /\ \A t \in Tasks \cup Sheets : t # NoTask
  BY DEF Rows, NoLog, Tasks, Sheets, NoTask

\* No rows, no requests.
LEMMA LogSoundInit == LogsInit => LogSound
  BY DEF LogsInit, LogSound, LogsTypeOK, InHand, DeletedIsDone

\* Taking up a request: what was checked holds of the row as it stands.
LEMMA BeginSound ==
  ASSUME LogSound, NEW c \in Clerks, NEW what \in {"update", "delete"}, NEW l \in Logs,
         NEW status \in Statuses, Begin(c, what, l, status), Visible(l),
         what = "delete" => Deletable(logs[l])
  PROVE  LogSound'
<1>1. [what |-> what, log |-> l, status |-> status] \in Tasks
  BY DEF Tasks
<1>2. LogsTypeOK'
  BY <1>1 DEF LogSound, LogsTypeOK, Begin, Tasks
<1>3. InHand'
  BY <1>1 DEF LogSound, LogsTypeOK, Begin, Tasks, InHand, Visible, Deletable
<1>4. DeletedIsDone'
  BY DEF LogSound, DeletedIsDone, Begin
<1>5. QED
  BY <1>2, <1>3, <1>4 DEF LogSound

\* A write: every other request on the row makes it an overlap.
LEMMA WriteSound ==
  ASSUME LogSound, NEW c \in Clerks, task[c] # NoTask, NEW row \in Rows, Written(c, row),
         row.old = logs[task[c].log].old,
         \/ task[c].what = "update" /\ row.deleted = logs[task[c].log].deleted
         \/ task[c].what = "delete" /\ row.status = logs[task[c].log].status /\ row.deleted
  PROVE  InHand' /\ DeletedIsDone'
<1> DEFINE l == task[c].log
<1>1. task[c] \in Tasks /\ l \in Logs /\ logs[l] \in Rows
  BY DEF LogSound, LogsTypeOK, Tasks, InHand
<1>2. /\ logs' = [logs EXCEPT ![l] = row]
      /\ task' = [task EXCEPT ![c] = NoTask]
      /\ overlap \subseteq overlap'
      /\ \A d \in Clerks \ {c} : task[d] # NoTask /\ task[d].log = l => l \in overlap'
  BY DEF Written, Busy
<1>3. \A k \in Logs : k # l => logs'[k] = logs[k]
  BY <1>2 DEF LogSound, LogsTypeOK
<1>4. logs'[l] = row /\ row # NoLog
  BY <1>1, <1>2, LogSomething DEF LogSound, LogsTypeOK
<1>5. InHand'
  <2> SUFFICES ASSUME NEW d \in Clerks, task'[d] # NoTask
               PROVE  LET k == task'[d].log IN
                      /\ logs'[k] # NoLog
                      /\ task'[d].what = "delete" =>
                           logs'[k].old /\ (logs'[k].status = "RESOLVED" \/ k \in overlap')
                      /\ task'[d].what = "update" => ~logs'[k].deleted \/ k \in overlap'
    BY DEF InHand
  <2>1. d # c /\ task'[d] = task[d] /\ task[d] \in Tasks /\ task[d].log \in Logs
    BY <1>2 DEF LogSound, LogsTypeOK, Tasks
  <2>2. CASE task[d].log = l
    BY <2>1, <2>2, <1>1, <1>2, <1>4 DEF LogSound, InHand
  <2>3. CASE task[d].log # l
    BY <2>1, <2>3, <1>2, <1>3 DEF LogSound, InHand
  <2>4. QED
    BY <2>2, <2>3
<1>6. DeletedIsDone'
  <2>1. row.deleted => row.old /\ (row.status = "RESOLVED" \/ l \in overlap')
    BY <1>1, <1>2 DEF LogSound, InHand, DeletedIsDone, Tasks
  <2>2. QED
    BY <2>1, <1>2, <1>3, <1>4 DEF LogSound, DeletedIsDone
<1>7. QED
  BY <1>5, <1>6

\* Every step keeps it.
LEMMA LogSoundStep == LogSound /\ [LogsNext]_logVars => LogSound'
<1> SUFFICES ASSUME LogSound, [LogsNext]_logVars PROVE LogSound'
  OBVIOUS
<1>1. ASSUME NEW l \in Logs, Capture(l) PROVE LogSound'
  <2>1. logs'[l] = [status |-> "OPEN", old |-> FALSE, deleted |-> FALSE] /\ logs'[l] \in Rows
    BY <1>1 DEF Capture, LogSound, LogsTypeOK, Rows, Statuses
  <2>2. QED
    BY <1>1, <2>1, LogSomething DEF Capture, LogSound, LogsTypeOK, InHand, DeletedIsDone
<1>2. ASSUME NEW l \in Logs, Age(l) PROVE LogSound'
  <2>1. logs[l] \in Rows /\ logs' = [logs EXCEPT ![l] = [logs[l] EXCEPT !.old = TRUE]]
    BY <1>2 DEF Age, LogSound, LogsTypeOK
  <2>2. /\ [logs[l] EXCEPT !.old = TRUE] \in Rows
        /\ [logs[l] EXCEPT !.old = TRUE].status = logs[l].status
        /\ [logs[l] EXCEPT !.old = TRUE].deleted = logs[l].deleted
        /\ [logs[l] EXCEPT !.old = TRUE].old
    BY <2>1 DEF Rows
  <2>3. QED
    BY <1>2, <2>1, <2>2, LogSomething DEF Age, LogSound, LogsTypeOK, InHand, DeletedIsDone
<1>3. ASSUME NEW c \in Clerks, NEW l \in Logs, Open(c, l) PROVE LogSound'
  <2>1. [log |-> l, row |-> logs[l]] \in Sheets
    BY <1>3 DEF Open, Visible, LogSound, LogsTypeOK, Sheets
  <2>2. QED
    BY <1>3, <2>1 DEF Open, LogSound, LogsTypeOK, InHand, DeletedIsDone, Sheets
<1>4. ASSUME NEW c \in Clerks, NEW l \in Logs, Edit(c, l) PROVE LogSound'
  BY <1>4, BeginSound DEF Edit, CheckUpdate
<1>5. ASSUME NEW c \in Clerks, CheckDelete(c) PROVE LogSound'
  <2>1. sheet[c].log \in Logs /\ "RESOLVED" \in Statuses
    BY <1>5 DEF CheckDelete, LogSound, LogsTypeOK, Statuses
  <2>2. QED
    BY <1>5, <2>1, BeginSound DEF CheckDelete
<1>6. ASSUME NEW c \in Clerks, Update(c) PROVE LogSound'
  <2> DEFINE l == task[c].log
             row == [logs[l] EXCEPT !.status = task[c].status]
  <2>1. task[c] \in Tasks /\ task[c] # NoTask /\ task[c].what = "update" /\ logs[l] \in Rows
    BY <1>6 DEF Update, LogSound, LogsTypeOK, InHand, Tasks
  <2>2. row \in Rows /\ row.old = logs[l].old /\ row.deleted = logs[l].deleted
    BY <2>1 DEF Rows, Tasks
  <2>3. Written(c, row)
    BY <1>6 DEF Update
  <2>4. LogsTypeOK'
    BY <1>6, <2>1, <2>2, <2>3 DEF Update, Written, LogSound, LogsTypeOK, Tasks
  <2>5. InHand' /\ DeletedIsDone'
    BY <2>1, <2>2, <2>3, WriteSound
  <2>6. QED
    BY <2>4, <2>5 DEF LogSound
<1>7. ASSUME NEW c \in Clerks, SoftDelete(c) PROVE LogSound'
  <2> DEFINE l == task[c].log
             row == [logs[l] EXCEPT !.deleted = TRUE]
  <2>1. task[c] \in Tasks /\ task[c] # NoTask /\ task[c].what = "delete" /\ logs[l] \in Rows
    BY <1>7 DEF SoftDelete, LogSound, LogsTypeOK, InHand, Tasks
  <2>2. row \in Rows /\ row.old = logs[l].old /\ row.status = logs[l].status /\ row.deleted
    BY <2>1 DEF Rows
  <2>3. Written(c, row)
    BY <1>7 DEF SoftDelete
  <2>4. LogsTypeOK'
    BY <1>7, <2>1, <2>2, <2>3 DEF SoftDelete, Written, LogSound, LogsTypeOK, Tasks
  <2>5. InHand' /\ DeletedIsDone'
    BY <2>1, <2>2, <2>3, WriteSound
  <2>6. QED
    BY <2>4, <2>5 DEF LogSound
<1>8. ASSUME NEW c \in Clerks, Dropped(c) PROVE LogSound'
  BY <1>8 DEF Dropped, LogSound, LogsTypeOK, InHand, DeletedIsDone
<1>9. CASE UNCHANGED logVars
  BY <1>9 DEF logVars, LogSound, LogsTypeOK, InHand, DeletedIsDone
<1>10. QED
  BY <1>1, <1>2, <1>3, <1>4, <1>5, <1>6, <1>7, <1>8, <1>9 DEF LogsNext

\* The types of ExceptionLogs, in every reachable state: a write never makes a
\* row of something that is none.
THEOREM LogsTypeCorrect == LogsSpec => []LogsTypeOK
<1>1. LogSound => LogsTypeOK
  BY DEF LogSound
<1>2. QED
  BY LogSoundInit, LogSoundStep, <1>1, PTL DEF LogsSpec

\* A deleted row is RESOLVED and old, except where an update and the deletion
\* overlapped, whatever the sessions do: the check and the write by id of
\* softDelete leave no other gap.
THEOREM DeletedTheorem == LogsSpec => []DeletedIsDone
<1>1. LogSound => DeletedIsDone
  BY DEF LogSound
<1>2. QED
  BY LogSoundInit, LogSoundStep, <1>1, PTL DEF LogsSpec
=============================================================================
