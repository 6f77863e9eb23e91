------------------------------ MODULE Accounts ------------------------------
(***************************************************************************)
(* Users of a partner and their wallets.  A user is created together with a *)
(* wallet in one transaction; suspending a user suspends the wallets in one *)
(* transaction, too; one more wallet is created by two separate queries,    *)
(* the first of which asks whether the user is active.                      *)
(***************************************************************************)
EXTENDS FiniteSets

CONSTANTS
  ExternalIds,   \* a partner's names for its users
  Addresses,     \* Tron accounts, created at random and never twice
  Requests       \* API requests under way at a time

NoUser == [none |-> TRUE]
NoWallet == [none |-> TRUE]
NoCall == [none |-> TRUE]

VARIABLES
  users,    \* external id -> user row
  wallets,  \* address -> wallet row
  call      \* request -> the steps it has taken

accountVars == <<users, wallets, call>>

AccountsTypeOK ==
  /\ users \in [ExternalIds -> [active : BOOLEAN, locked : BOOLEAN] \cup {NoUser}]
  /\ wallets \in [Addresses -> [user : ExternalIds, status : {"ACTIVE", "SUSPENDED"}, raced : BOOLEAN]
                                \cup {NoWallet}]
  /\ call \in [Requests -> [what : {"wallet"}, user : ExternalIds, raced : BOOLEAN]
                           \cup [what : {"update"}, user : ExternalIds, active : BOOLEAN,
                                 set : BOOLEAN, hidden : SUBSET Addresses]
                           \cup {NoCall}]

AccountsInit ==
  /\ users = [u \in ExternalIds |-> NoUser]
  /\ wallets = [a \in Addresses |-> NoWallet]
  /\ call = [q \in Requests |-> NoCall]

WalletsOf(u) == {a \in Addresses : wallets[a] # NoWallet /\ wallets[a].user = u}

\* raced is a history: the creation of this wallet overlapped a change of isActive.
NewWallet(u, raced) == [user |-> u, status |-> "ACTIVE", raced |-> raced]

\* UserService.create: user and wallet in one transaction.  The external id is
\* unique within its partner; a second user of that name is a conflict.
CreateUser(u, a) ==
  /\ users[u] = NoUser /\ wallets[a] = NoWallet
  /\ users' = [users EXCEPT ![u] = [active |-> TRUE, locked |-> FALSE]]
  /\ wallets' = [wallets EXCEPT ![a] = NewWallet(u, FALSE)]
  /\ UNCHANGED call

\* An update of the user is under way, or starts: wallet creations notice (history).
Racing(u, calls) ==
  [q \in Requests |->
    IF calls[q] # NoCall /\ calls[q].what = "wallet" /\ calls[q].user = u
      THEN [calls[q] EXCEPT !.raced = TRUE] ELSE calls[q]]

\* Mutant of ReadUser: isActive is not looked at.
ReadUserAny(q, u) ==
  /\ call[q] = NoCall /\ users[u] # NoUser
  /\ call' = [call EXCEPT ![q] = [what |-> "wallet", user |-> u, raced |-> users[u].locked]]
  /\ UNCHANGED <<users, wallets>>

\* WalletService.createWallet: the user exists and is active, as last committed.
ReadUser(q, u) ==
  /\ call[q] = NoCall /\ users[u] # NoUser /\ users[u].active
  /\ call' = [call EXCEPT ![q] = [what |-> "wallet", user |-> u, raced |-> users[u].locked]]
  /\ UNCHANGED <<users, wallets>>

\* The insert.  It refers to the user's key, which an update of isActive leaves free.
CreateWallet(q, a) ==
  /\ call[q] # NoCall /\ call[q].what = "wallet"
  /\ wallets[a] = NoWallet
  /\ wallets' = [wallets EXCEPT ![a] = NewWallet(call[q].user, call[q].raced)]
  /\ call' = [call EXCEPT ![q] = NoCall]
  /\ UNCHANGED users

\* UserService.update, in a transaction: user.update locks the row ...
UpdateUser(q, u, active) ==
  /\ call[q] = NoCall /\ users[u] # NoUser /\ ~users[u].locked
  /\ users' = [users EXCEPT ![u].locked = TRUE]
  /\ call' = [Racing(u, call) EXCEPT ![q] =
       [what |-> "update", user |-> u, active |-> active, set |-> FALSE, hidden |-> {}]]
  /\ UNCHANGED wallets

\* ... wallet.updateMany sees the wallets committed by now ...
UpdateWallets(q) ==
  /\ call[q] # NoCall /\ call[q].what = "update" /\ ~call[q].set
  /\ call' = [call EXCEPT ![q].set = TRUE, ![q].hidden = WalletsOf(call[q].user)]
  /\ UNCHANGED <<users, wallets>>

\* ... and both become visible at once.
Commit(q) ==
  LET u == call[q].user
      status == IF call[q].active THEN "ACTIVE" ELSE "SUSPENDED" IN
  /\ call[q] # NoCall /\ call[q].what = "update" /\ call[q].set
  /\ users' = [users EXCEPT ![u] = [active |-> call[q].active, locked |-> FALSE]]
  /\ wallets' = [a \in Addresses |->
       IF a \in call[q].hidden THEN [wallets[a] EXCEPT !.status = status] ELSE wallets[a]]
  /\ call' = [call EXCEPT ![q] = NoCall]

\* A query fails or the process dies: a transaction leaves nothing behind.
Abandon(q) ==
  /\ call[q] # NoCall
  /\ users' = IF call[q].what = "update" THEN [users EXCEPT ![call[q].user].locked = FALSE] ELSE users
  /\ call' = [call EXCEPT ![q] = NoCall]
  /\ UNCHANGED wallets

AccountsNext ==
  \/ \E u \in ExternalIds, a \in Addresses : CreateUser(u, a)
  \/ \E q \in Requests :
       \/ \E u \in ExternalIds : ReadUser(q, u) \/ \E active \in BOOLEAN : UpdateUser(q, u, active)
       \/ \E a \in Addresses : CreateWallet(q, a)
       \/ UpdateWallets(q) \/ Commit(q) \/ Abandon(q)

AccountsSpec == AccountsInit /\ [][AccountsNext]_accountVars

----------------------------------------------------------------------------
(* Properties *)

\* A user is never without a wallet to be paid to.
UserHasWallet == \A u \in ExternalIds : users[u] # NoUser => WalletsOf(u) # {}

\* The wallets of a suspended user are suspended, but for those whose creation
\* overlapped the suspension: createWallet asks first and inserts later.
SuspendedStaysSo ==
  \A u \in ExternalIds : \A a \in WalletsOf(u) :
    ~users[u].active /\ wallets[a].status = "ACTIVE" => wallets[a].raced
=============================================================================
