---------------------------- MODULE PortalProofs ----------------------------
(***************************************************************************)
(* Proofs about the portal: the session, the lists with their bulk          *)
(* operations, the pager and the test console, each with an inductive       *)
(* invariant of its own.                                                    *)
(***************************************************************************)
EXTENDS Session, ListPage, Pager, TestConsole, FiniteSetTheorems, TLAPS

-----------------------------------------------------------------------------
(***************************************************************************)
(* The session, for any tokens and servers and any number of page loads.    *)
(***************************************************************************)

StoreState == [version : 0..2, server : Servers, auth : Auths]
AxiosState == [base : Servers, header : Auths, default : BOOLEAN]

\* Once the router is mounted, requests go to the server of the store.
BaseIsServer == view \in {"login", "main"} => axios.base = store.server

SessionTyped ==
  /\ deployed \in [now : 1..2, page : 1..2]
  /\ store \in StoreState /\ saved \in StoreState /\ own \in Auths
  /\ view \in {"core", "auth", "lift", "login", "main"} /\ target \in {"login", "main"}
  /\ axios \in AxiosState
  /\ expired \subseteq Tokens /\ bare \in BOOLEAN /\ loads \in 0..MaxLoads

SessionSound == SessionTyped /\ BaseIsServer /\ RequestsAuthorized

\* What a page load begins with.
LEMMA BlankTypes == Unset \in StoreState /\ Bare \in AxiosState /\ SignedOut \in Auths
<1>1. AnyServer \in Servers
  BY SessionAssumption DEF AnyServer
<1>2. QED
  BY <1>1 DEF Unset, Bare, StoreState, AxiosState, Auths

\* A first load, nobody signed in.
LEMMA SessionSoundInit == SessionInit => SessionSound
<1> SUFFICES ASSUME SessionInit PROVE SessionSound
  OBVIOUS
<1>1. deployed \in [now : 1..2, page : 1..2] /\ loads \in 0..MaxLoads
  BY SessionAssumption DEF SessionInit
<1>2. /\ store \in StoreState /\ saved \in StoreState /\ own \in Auths
      /\ axios \in AxiosState /\ expired \subseteq Tokens
  BY BlankTypes DEF SessionInit
<1>3. view = "core" /\ target = "main" /\ bare = FALSE
  BY DEF SessionInit
<1>4. SessionTyped
  BY <1>1, <1>2, <1>3 DEF SessionTyped
<1>5. BaseIsServer /\ RequestsAuthorized
  BY <1>3 DEF BaseIsServer, RequestsAuthorized
<1>6. QED
  BY <1>4, <1>5 DEF SessionSound

\* The guard's outcome is a state of the store.
LEMMA GuardedState ==
  ASSUME NEW was \in StoreState, deployed \in [now : 1..2, page : 1..2]
  PROVE  Guarded(was) \in StoreState
<1> DEFINE out == [was EXCEPT !.auth = SignedOut]
<1>1. out \in StoreState
  BY BlankTypes DEF StoreState
<1>2. deployed.page \in 0..2
  OBVIOUS
<1>3. [was EXCEPT !.version = deployed.page, !.auth = SignedOut] \in StoreState
  BY <1>2, BlankTypes DEF StoreState
<1>4. QED
  BY <1>1, <1>3 DEF Guarded

\* A page load, the two rehydrations and the guard.
LEMMA LoadingSound ==
  ASSUME SessionSound,
         (\E url \in {"login", "main"} : Load(url)) \/ RehydrateCore \/ RehydrateAuth \/ HdBeforLift
  PROVE  SessionSound'
<1> USE BlankTypes DEF SessionSound, SessionTyped, loadVars
<1>1. ASSUME NEW url \in {"login", "main"}, Load(url) PROVE SessionSound'
  <2>1. deployed' \in [now : 1..2, page : 1..2] /\ saved.auth \in Auths /\ loads' \in 0..MaxLoads
    BY <1>1, SessionAssumption DEF Load, StoreState
  <2>2. QED
    BY <1>1, <2>1 DEF Load, BaseIsServer, RequestsAuthorized
<1>2. CASE RehydrateCore
  BY <1>2, GuardedState DEF RehydrateCore, Put, BaseIsServer, RequestsAuthorized
<1>3. CASE RehydrateAuth
  <2>1. [store EXCEPT !.auth = own] \in StoreState
    BY DEF StoreState
  <2>2. QED
    BY <1>3, <2>1, GuardedState DEF RehydrateAuth, Put, BaseIsServer, RequestsAuthorized
<1>4. CASE HdBeforLift
  <2>1. axios' \in AxiosState /\ axios'.base = store.server /\ axios'.header = store.auth
    BY <1>4 DEF HdBeforLift, AxiosState, StoreState
  <2>2. QED
    BY <1>4, <2>1 DEF HdBeforLift, BaseIsServer, RequestsAuthorized
<1>5. QED
  BY <1>1, <1>2, <1>3, <1>4

\* Choosing a server changes base URL and store together, and nobody's session.
LEMMA ServerChange ==
  ASSUME SessionSound, NEW s \in Servers, ChangeServer(s)
  PROVE  /\ axios' \in AxiosState /\ store' \in StoreState /\ saved' \in StoreState
         /\ axios'.base = s /\ store'.server = s /\ store'.auth = store.auth
<1>1. Changed(s) \in AxiosState /\ Changed(s).base = s
  BY BlankTypes DEF SessionSound, SessionTyped, Changed, AxiosState
<1>2. QED
  BY <1>1 DEF SessionSound, SessionTyped, ChangeServer, Put, StoreState

\* The pages.
LEMMA PagesSound ==
  ASSUME SessionSound,
         \/ LeaveLogin \/ ToLogin \/ ClickSign \/ TimeOut
         \/ \E s \in Servers : PickServer(s)
         \/ \E t \in Tokens : HandleLogin(t)
  PROVE  SessionSound'
<1> USE DEF SessionSound, SessionTyped, loadVars
<1>1. CASE LeaveLogin \/ ToLogin
  <2>1. store.server \in Servers /\ ChangeServer(store.server)
    BY <1>1 DEF LeaveLogin, ToLogin, StoreState
  <2>2. QED
    BY <1>1, <2>1, ServerChange
    DEF LeaveLogin, ToLogin, Signed, BaseIsServer, RequestsAuthorized
<1>2. ASSUME NEW s \in Servers, PickServer(s) PROVE SessionSound'
  BY <1>2, ServerChange DEF PickServer, BaseIsServer, RequestsAuthorized
<1>3. ASSUME NEW t \in Tokens, HandleLogin(t) PROVE SessionSound'
  <2>1. /\ store' \in StoreState /\ saved' \in StoreState /\ axios' \in AxiosState
        /\ store'.server = store.server /\ axios'.base = axios.base
        /\ store'.auth = t /\ axios'.header = t
    BY <1>3 DEF HandleLogin, SignIn, Put, StoreState, AxiosState, Auths
  <2>2. view = "login" /\ view' = "main" /\ bare' = FALSE
        /\ UNCHANGED <<deployed, own, target, loads, expired>>
    BY <1>3 DEF HandleLogin
  <2>3. SessionTyped'
    BY <2>1, <2>2
  <2>4. BaseIsServer' /\ RequestsAuthorized'
    BY <2>1, <2>2 DEF BaseIsServer, RequestsAuthorized
  <2>5. QED
    BY <2>3, <2>4
<1>4. CASE ClickSign \/ TimeOut
  <2>1. /\ store' \in StoreState /\ saved' \in StoreState
        /\ store'.server = store.server /\ store'.auth = SignedOut
    BY <1>4, BlankTypes DEF ClickSign, TimeOut, SignOut, Put, StoreState
  <2>2. UNCHANGED <<deployed, own, target, loads, view, axios, expired, bare>>
    BY <1>4 DEF ClickSign, TimeOut, SignOut
  <2>3. SessionTyped'
    BY <2>1, <2>2
  <2>4. BaseIsServer' /\ RequestsAuthorized'
    BY <2>1, <2>2 DEF BaseIsServer, RequestsAuthorized, Signed
  <2>5. QED
    BY <2>3, <2>4
<1>5. QED
  BY <1>1, <1>2, <1>3, <1>4

\* Every step keeps it.
LEMMA SessionStep == SessionSound /\ [SessionNext]_sessionVars => SessionSound'
<1> SUFFICES ASSUME SessionSound, [SessionNext]_sessionVars PROVE SessionSound'
  OBVIOUS
<1>1. ASSUME Deploy \/ (\E t \in Tokens : Expire(t)) \/ UNCHANGED sessionVars
      PROVE  SessionSound'
  <2>1. UNCHANGED <<store, view, axios, bare>>
    BY <1>1 DEF Deploy, Expire, sessionVars
  <2>2. BaseIsServer' /\ RequestsAuthorized'
    BY <2>1 DEF SessionSound, BaseIsServer, RequestsAuthorized, Signed
  <2>3. /\ deployed' \in [now : 1..2, page : 1..2] /\ expired' \subseteq Tokens
        /\ UNCHANGED <<saved, own, target, loads>>
    BY <1>1 DEF SessionSound, SessionTyped, Deploy, Expire, loadVars, sessionVars
  <2>4. SessionTyped'
    BY <2>1, <2>3 DEF SessionSound, SessionTyped
  <2>5. QED
    BY <2>2, <2>4 DEF SessionSound
<1>2. QED
  BY <1>1, LoadingSound, PagesSound DEF SessionNext, Loading

\* The types of Session, in every reachable state.
THEOREM SessionTypeCorrect == SessionSpec => []SessionTypeOK
<1>1. SessionSound => SessionTypeOK
  BY DEF SessionSound, SessionTyped, SessionTypeOK, StoreState, AxiosState
<1>2. QED
  BY SessionSoundInit, SessionStep, <1>1, PTL DEF SessionSpec

\* Where a session is shown, requests go to the chosen server and carry its
\* token, through any reloads, versions, sign-ins and changes of the server;
\* except on the page that LoginPage was left for at once.
THEOREM AuthorizedTheorem == SessionSpec => []RequestsAuthorized
<1>1. SessionSound => RequestsAuthorized
  BY DEF SessionSound
<1>2. QED
  BY SessionSoundInit, SessionStep, <1>1, PTL DEF SessionSpec

-----------------------------------------------------------------------------
(***************************************************************************)
(* The lists and their bulk operations, for any partners and rows and any    *)
(* number of steps.                                                          *)
(***************************************************************************)

\* The status that is sent is the one the dropdown shows.
StatusShown == choice.status = choice.xvalue /\ bulk.status = bulk.shown

\* Wallets are kept under their owner's key.
WalletsKept ==
  screen = "wallets" =>
    /\ \A k \in CacheKeys : \A r \in cache[k].rows : OwnerOf[r] = k[1]
    /\ \A f \in flights : f.key[1] = f.partner

ListSound == ListTypeOK /\ StatusShown /\ WalletsKept /\ BulkStaysWithPartner

\* The wallets on the screen are those of the partner that is chosen.
OwnWalletsShown == screen = "wallets" => \A r \in Grid.rows : OwnerOf[r] = partner

\* The key of the render is one of the cache, and knows the partner of wallets.
LEMMA KeyTypes ==
  ListTypeOK => Key \in CacheKeys /\ (screen = "wallets" => Key[1] = partner)
<1> SUFFICES ASSUME ListTypeOK
             PROVE  Key \in CacheKeys /\ (screen = "wallets" => Key[1] = partner)
  OBVIOUS
<1>1. choice.status \in {"undefined", "ACTIVE", "FAILED"}
  BY DEF ListTypeOK, ChoicesOf, Marked, Screens
<1>2. partner \in Tenants \cup {NoTenant}
  BY DEF ListTypeOK
<1>3. QED
  BY <1>1, <1>2 DEF Key, KeyOf, CacheKeys

\* A list that has just been opened.
LEMMA ListSoundInit == ListInit => ListSound
<1> SUFFICES ASSUME ListInit PROVE ListSound
  OBVIOUS
<1>1. choice \in [status : ChoicesOf(screen), xvalue : ChoicesOf(screen)]
  BY DEF ListInit, ChoicesOf
<1>2. state \in [Records -> StatesOf(screen)]
  BY DEF ListInit, StatesOf, Marked, Screens
<1>3. cache \in [CacheKeys -> [loaded : BOOLEAN, rows : SUBSET Records]]
  BY Zenon DEF ListInit, NoRows
<1>4. ListTypeOK
  BY <1>1, <1>2, <1>3 DEF ListInit, ListTypeOK, NoBulk
<1>5. StatusShown /\ BulkStaysWithPartner
  BY DEF ListInit, StatusShown, BulkStaysWithPartner, NoBulk, NoHit
<1>6. WalletsKept
  BY DEF ListInit, WalletsKept, NoRows
<1>7. QED
  BY <1>4, <1>5, <1>6 DEF ListSound

\* What the operator does before a bulk request: nothing is changed by it.
LEMMA ChoicesSound ==
  ASSUME ListSound,
         \/ PartnersLoaded \/ ChooseStatus \/ SelectRows \/ Reopen
         \/ \E p \in Tenants : ChoosePartner(p)
  PROVE  ListSound'
<1>1. UNCHANGED <<screen, state, queued, cache, flights, bulk>> /\ hit' = NoHit
  BY DEF PartnersLoaded, ChooseStatus, SelectRows, Reopen, ChoosePartner, Turn
<1>2. partner' \in Tenants \cup {NoTenant}
  BY DEF ListSound, ListTypeOK, PartnersLoaded, ChooseStatus, SelectRows, Reopen, ChoosePartner
<1>3. /\ choice' \in [status : ChoicesOf(screen), xvalue : ChoicesOf(screen)]
      /\ choice'.status = choice'.xvalue
  BY DEF ListSound, ListTypeOK, StatusShown, ChoicesOf, HdChange,
         PartnersLoaded, ChooseStatus, SelectRows, Reopen, ChoosePartner
<1>4. selections' \subseteq Records
  <2>1. Grid.rows \subseteq Records
    BY KeyTypes DEF ListSound, ListTypeOK, Grid
  <2>2. QED
    BY <2>1 DEF ListSound, ListTypeOK, PartnersLoaded, ChooseStatus, SelectRows, Reopen, ChoosePartner
<1>5. ListTypeOK'
  BY <1>1, <1>2, <1>3, <1>4 DEF ListSound, ListTypeOK
<1>6. StatusShown' /\ WalletsKept' /\ BulkStaysWithPartner'
  BY <1>1, <1>3 DEF ListSound, StatusShown, WalletsKept, BulkStaysWithPartner, NoHit
<1>7. QED
  BY <1>5, <1>6 DEF ListSound

\* A query takes the partner of the render, and its rows are that partner's.
LEMMA QueriesSound ==
  ASSUME ListSound, FetchRows \/ Arrives
  PROVE  ListSound'
<1> USE DEF ListSound
<1>1. /\ UNCHANGED <<screen, partner, choice, state, queued, bulk>> /\ hit' = NoHit
      /\ selections' \subseteq Records
  BY DEF FetchRows, Arrives, Arrive, ListTypeOK
<1>2. StatusShown' /\ BulkStaysWithPartner'
  BY <1>1 DEF StatusShown, BulkStaysWithPartner, NoHit
<1>3. CASE FetchRows
  <2> DEFINE f == [key |-> Key, partner |-> partner, status |-> choice.status]
  <2>1. /\ f.key \in CacheKeys /\ f.partner \in Tenants
        /\ screen = "wallets" => f.key[1] = f.partner
    BY <1>3, KeyTypes DEF FetchRows, ListTypeOK
  <2>2. flights' = flights \cup {f} /\ UNCHANGED cache
    BY <1>3 DEF FetchRows
  <2> HIDE DEF f
  <2>3. ListTypeOK' /\ WalletsKept'
    BY <1>1, <2>1, <2>2 DEF ListTypeOK, WalletsKept
  <2>4. QED
    BY <1>2, <2>3
<1>4. CASE Arrives
  <2>1. PICK f \in flights : Arrive(f)
    BY <1>4 DEF Arrives
  <2> DEFINE rows == FindAll(f.partner, f.status)
  <2>2. rows \subseteq Records /\ \A r \in rows : OwnerOf[r] = f.partner
    BY DEF FindAll
  <2>3. f.key \in CacheKeys /\ cache' = [cache EXCEPT ![f.key] = Loaded(rows)] /\ flights' \subseteq flights
    BY <2>1 DEF Arrive, ListTypeOK
  <2>4. Loaded(rows) \in [loaded : BOOLEAN, rows : SUBSET Records] /\ Loaded(rows).rows = rows
    BY <2>2 DEF Loaded
  <2> HIDE DEF rows
  <2>5. cache' \in [CacheKeys -> [loaded : BOOLEAN, rows : SUBSET Records]]
    BY <2>3, <2>4, Zenon DEF ListTypeOK
  <2>6. ListTypeOK'
    BY <1>1, <2>3, <2>5 DEF ListTypeOK
  <2>7. WalletsKept'
    BY <1>1, <2>2, <2>3, <2>4 DEF WalletsKept, ListTypeOK
  <2>8. QED
    BY <1>2, <2>6, <2>7
<1>5. QED
  BY <1>3, <1>4

\* A bulk request is sent, and rows change without one.
LEMMA RequestsSound ==
  ASSUME ListSound, HdSweepAssets \/ HdCallbackRetryIds \/ RowChanges
  PROVE  ListSound'
<1> USE DEF ListSound
<1>1. UNCHANGED <<screen, partner, choice, selections, cache, flights>> /\ hit' = NoHit
  BY DEF HdSweepAssets, HdCallbackRetryIds, RowChanges, Turn, Ask
<1>2. /\ bulk'.partner \in Tenants \cup {NoTenant} /\ bulk'.ids \subseteq Records
      /\ bulk'.status = bulk'.shown
  BY DEF ListTypeOK, StatusShown, HdSweepAssets, HdCallbackRetryIds, RowChanges, Ask
<1>3. state' \in [Records -> StatesOf(screen)] /\ queued' \subseteq Records
  BY DEF ListTypeOK, HdSweepAssets, HdCallbackRetryIds, RowChanges, Ask
<1>4. ListTypeOK'
  BY <1>1, <1>2, <1>3 DEF ListTypeOK
<1>5. StatusShown' /\ WalletsKept' /\ BulkStaysWithPartner'
  BY <1>1, <1>2 DEF StatusShown, WalletsKept, BulkStaysWithPartner, NoHit
<1>6. QED
  BY <1>4, <1>5

\* A bulk request changes rows: the ones that its statement finds.
LEMMA BulkSound ==
  ASSUME ListSound, CreateReclaimJobsAll \/ RetryFailedIds
  PROVE  ListSound'
<1> USE DEF ListSound
<1>1. UNCHANGED <<screen, partner, choice, selections, cache, flights>> /\ bulk' = NoBulk
  BY DEF CreateReclaimJobsAll, RetryFailedIds
<1>2. state' \in [Records -> StatesOf(screen)] /\ queued' \subseteq Records
  BY DEF ListTypeOK, CreateReclaimJobsAll, RetryFailedIds, StatesOf
<1>3. ListTypeOK'
  BY <1>1, <1>2 DEF ListTypeOK, NoBulk
<1>4. StatusShown' /\ WalletsKept'
  BY <1>1 DEF StatusShown, WalletsKept, NoBulk
<1>5. BulkStaysWithPartner'
  <2>1. CASE CreateReclaimJobsAll
    <3> DEFINE rows == {r \in Records \ queued :
                          Among(bulk, r) /\ bulk.status \in {"undefined", state[r]}}
    <3>1. screen = "wallets" /\ hit' = [rows |-> rows, was |-> {state[r] : r \in rows}, by |-> bulk]
      BY <2>1 DEF CreateReclaimJobsAll, Hits
    <3>2. ASSUME NEW r \in rows
          PROVE  /\ OwnerOf[r] = bulk.partner /\ (bulk.ids # {} => r \in bulk.ids)
                 /\ bulk.shown = "undefined" \/ {state[q] : q \in rows} = {bulk.shown}
      BY DEF Among, StatusShown
    <3> HIDE DEF rows
    <3>3. QED
      BY <1>1, <3>1, <3>2 DEF BulkStaysWithPartner
  <2>2. CASE RetryFailedIds
    <3> DEFINE rows == {r \in Records : Among(bulk, r) /\ state[r] = "FAILED"}
    <3>1. screen = "callbacks" /\ hit' = [rows |-> rows, was |-> {state[r] : r \in rows}, by |-> bulk]
      BY <2>2 DEF RetryFailedIds, Hits
    <3>2. ASSUME NEW r \in rows
          PROVE  /\ OwnerOf[r] = bulk.partner /\ (bulk.ids # {} => r \in bulk.ids)
                 /\ {state[q] : q \in rows} = {"FAILED"}
      BY DEF Among
    <3> HIDE DEF rows
    <3>3. QED
      BY <1>1, <3>1, <3>2 DEF BulkStaysWithPartner
  <2>3. QED
    BY <2>1, <2>2
<1>6. QED
  BY <1>3, <1>4, <1>5

\* Every step keeps it.
LEMMA ListStep == ListSound /\ [ListNext]_listVars => ListSound'
<1> SUFFICES ASSUME ListSound, [ListNext]_listVars PROVE ListSound'
  OBVIOUS
<1>1. CASE UNCHANGED listVars
  BY <1>1 DEF listVars, ListSound, ListTypeOK, StatusShown, WalletsKept, BulkStaysWithPartner
<1>2. CASE ListNext
  BY <1>2, ChoicesSound, QueriesSound, RequestsSound, BulkSound DEF ListNext, Operator
<1>3. QED
  BY <1>1, <1>2

\* The types of ListPage, in every reachable state.
THEOREM ListTypeCorrect == ListSpec => []ListTypeOK
<1>1. ListSound => ListTypeOK
  BY DEF ListSound
<1>2. QED
  BY ListSoundInit, ListStep, <1>1, PTL DEF ListSpec

\* A bulk request changes rows of the partner that was on the screen when it was
\* asked for, selected ones when there was a selection, and of the status that was
\* shown, whatever is chosen, selected, fetched and changed in between.
THEOREM BulkTheorem == ListSpec => []BulkStaysWithPartner
<1>1. ListSound => BulkStaysWithPartner
  BY DEF ListSound
<1>2. QED
  BY ListSoundInit, ListStep, <1>1, PTL DEF ListSpec

\* The wallet list never shows a wallet of another partner than the one chosen,
\* whenever the partner changes and in whatever order answers come.
THEOREM OwnWalletsTheorem == ListSpec => []OwnWalletsShown
<1>1. ListSound => OwnWalletsShown
  BY KeyTypes DEF ListSound, WalletsKept, OwnWalletsShown, Grid
<1>2. QED
  BY ListSoundInit, ListStep, <1>1, PTL DEF ListSpec

-----------------------------------------------------------------------------
(***************************************************************************)
(* The pager, for any size of page, group and window, and any list.          *)
(***************************************************************************)

PageLimit == Window \div PageSize

\* What is on the screen is what the query of this page has brought.
Brought ==
  answer # NoData =>
    answer.first = Offset(current) /\ answer.count = Greater(0, Lesser(PageSize, answer.total - answer.first))

PagerSound == PagerTypeOK /\ Brought

\* Division by the size of a page.
LEMMA DivisionBounds ==
  ASSUME NEW a \in Nat, NEW b \in Nat \ {0}
  PROVE  a \div b \in Nat /\ (a \div b) * b <= a /\ a < (a \div b) * b + b
OBVIOUS

\* Multiples of the size of a page are ordered as their factors.
LEMMA MultipleOrder ==
  ASSUME NEW x \in Int, NEW y \in Int, NEW b \in Nat \ {0}, x * b < y * b
  PROVE  x < y
OBVIOUS

\* So are those of factors that are ordered.
LEMMA FactorOrder ==
  ASSUME NEW x \in Int, NEW y \in Int, NEW b \in Nat \ {0}, x <= y
  PROVE  x * b <= y * b
OBVIOUS

\* The window is full pages, one at least.
LEMMA WindowPages == PageLimit \in Nat \ {0} /\ PageLimit * PageSize = Window
<1>1. PageLimit \in Nat /\ PageLimit * PageSize = Window
  BY PagerAssumption DEF PageLimit
<1>2. PageLimit # 0
  BY <1>1, PagerAssumption
<1>3. QED
  BY <1>1, <1>2

\* A list has as many pages as it takes, in the window; a page that is there has
\* a row, and a row of the window is on a page that is there.
LEMMA PagesTaken ==
  ASSUME NEW total \in Nat
  PROVE  /\ TotalPages(total) \in 0 .. PageLimit
         /\ total > 0 => TotalPages(total) >= 1
         /\ \A p \in 1 .. TotalPages(total) : Offset(p) \in Nat /\ Offset(p) < total
         /\ \A n \in 1 .. Lesser(total, Window) : (n - 1) \div PageSize + 1 \in 1 .. TotalPages(total)
<1> DEFINE all == (total + PageSize - 1) \div PageSize
<1>1. PageSize \in Nat \ {0} /\ Window \in Nat
  BY PagerAssumption
<1>2. all \in Nat /\ all * PageSize <= total + PageSize - 1 /\ total + PageSize - 1 < all * PageSize + PageSize
  <2>1. total + PageSize - 1 \in Nat
    BY <1>1
  <2>2. QED
    BY <1>1, <2>1, DivisionBounds
<1>3. TotalPages(total) = Lesser(all, PageLimit)
  BY DEF TotalPages, PageLimit
<1> HIDE DEF all
<1>4. TotalPages(total) \in 0 .. PageLimit /\ TotalPages(total) <= all
  BY <1>2, <1>3, WindowPages DEF Lesser
<1>5. ASSUME total > 0 PROVE TotalPages(total) >= 1
  <2>1. 0 * PageSize < all * PageSize
    BY <1>1, <1>2, <1>5
  <2>2. 0 < all
    BY <1>1, <1>2, <2>1, MultipleOrder
  <2>3. QED
    BY <1>2, <1>3, <2>2, WindowPages DEF Lesser
<1>6. ASSUME NEW p \in 1 .. TotalPages(total)
      PROVE  Offset(p) \in Nat /\ Offset(p) < total
  <2>1. p \in Nat /\ p - 1 \in Nat /\ p <= all
    BY <1>2, <1>4
  <2>2. p * PageSize <= all * PageSize
    BY <1>1, <1>2, <2>1, FactorOrder
  <2>3. (p - 1) * PageSize = p * PageSize - PageSize /\ (p - 1) * PageSize \in Nat
    BY <1>1, <2>1
  <2>4. QED
    BY <1>1, <1>2, <2>1, <2>2, <2>3 DEF Offset
<1>7. ASSUME NEW n \in 1 .. Lesser(total, Window)
      PROVE  (n - 1) \div PageSize + 1 \in 1 .. TotalPages(total)
  <2> DEFINE q == (n - 1) \div PageSize
  <2>1. n \in Nat /\ n - 1 \in Nat /\ n <= total /\ n <= Window
    BY <1>1, <1>7 DEF Lesser
  <2>2. q \in Nat /\ q * PageSize <= n - 1
    BY <1>1, <2>1, DivisionBounds
  <2> HIDE DEF q
  <2>3. q * PageSize < all * PageSize /\ q * PageSize < PageLimit * PageSize
    BY <1>1, <1>2, <2>1, <2>2, WindowPages
  <2>4. q < all /\ q < PageLimit
    BY <1>1, <1>2, <2>2, <2>3, MultipleOrder, WindowPages
  <2>5. q + 1 \in 1 .. TotalPages(total)
    BY <1>2, <1>3, <2>2, <2>4, WindowPages DEF Lesser
  <2>6. QED
    BY <2>5 DEF q
<1>8. QED
  BY <1>4, <1>5, <1>6, <1>7

\* The buttons lead to pages that the list has.
LEMMA TargetsInside ==
  ASSUME NEW total \in Nat, NEW p \in Nat \ {0}
  PROVE  Targets(p, total) \subseteq 1 .. TotalPages(total)
<1> DEFINE last == TotalPages(total)
<1>1. CASE total <= PageSize
  BY <1>1 DEF Targets
<1>2. CASE ~(total <= PageSize)
  <2>1. last \in Nat \ {0}
    BY <1>2, PagesTaken, WindowPages, PagerAssumption
  <2> HIDE DEF last
  <2>2. ButtonsOf(p, total) \subseteq 1 .. last
    <3>1. GroupStart(p) \in Nat \ {0}
      <4>1. (p - 1) \div ButtonCount \in Nat
        BY PagerAssumption, DivisionBounds
      <4>2. QED
        BY <4>1, PagerAssumption DEF GroupStart
    <3>2. GroupEnd(p, total) \in Int /\ GroupEnd(p, total) <= last
      BY <2>1, <3>1, PagerAssumption DEF GroupEnd, Lesser, last
    <3>3. QED
      BY <2>1, <3>1, <3>2 DEF ButtonsOf
  <2>3. \A d \in {x \in {-1, 1} : CanMovePage(p, x, total)} : p + d \in 1 .. last
    BY <2>1 DEF CanMovePage, last
  <2>4. \A d \in {-ButtonCount, ButtonCount} : GroupTarget(p, d, total) \in 1 .. last
    BY <2>1, PagerAssumption DEF GroupTarget, Greater, Lesser, last
  <2>5. QED
    BY <1>2, <2>2, <2>3, <2>4 DEF Targets, last
<1>3. QED
  BY <1>1, <1>2

\* The pages of the list number its rows, each once: row n is on its page and on no
\* other.
LEMMA OnePage ==
  ASSUME NEW total \in Nat, NEW n \in 1 .. Lesser(total, Window)
  PROVE  Cardinality({p \in 1 .. TotalPages(total) :
                        n \in Offset(p) + 1 .. Lesser(Offset(p) + PageSize, total)}) = 1
<1> DEFINE q == (n - 1) \div PageSize
           rowsOf(p) == Offset(p) + 1 .. Lesser(Offset(p) + PageSize, total)
<1>1. PageSize \in Nat \ {0} /\ n \in Nat /\ n - 1 \in Nat /\ n <= total
  BY PagerAssumption DEF Lesser
<1>2. q \in Nat /\ q * PageSize <= n - 1 /\ n - 1 < q * PageSize + PageSize
  BY <1>1, DivisionBounds
<1>3. q + 1 \in 1 .. TotalPages(total)
  BY PagesTaken
<1> HIDE DEF q
<1>4. n \in rowsOf(q + 1)
  <2>1. Offset(q + 1) = q * PageSize /\ q * PageSize \in Nat
    BY <1>1, <1>2 DEF Offset
  <2>2. QED
    BY <1>1, <1>2, <2>1 DEF Lesser
<1>5. ASSUME NEW p \in 1 .. TotalPages(total), n \in rowsOf(p) PROVE p = q + 1
  <2>1. p \in Nat \ {0}
    BY PagesTaken, WindowPages
  <2>2. Offset(p) = p * PageSize - PageSize /\ p * PageSize \in Nat
    BY <1>1, <2>1 DEF Offset
  <2>3. p * PageSize - PageSize + 1 <= n /\ n <= p * PageSize
    BY <1>1, <1>5, <2>2 DEF Lesser
  <2>4. (p - 1) * PageSize = p * PageSize - PageSize /\ (q + 1) * PageSize = q * PageSize + PageSize
    BY <1>1, <1>2, <2>1
  <2>5. (p - 1) * PageSize < (q + 1) * PageSize /\ q * PageSize < p * PageSize
    BY <1>1, <1>2, <2>1, <2>2, <2>3, <2>4
  <2>6. p - 1 < q + 1 /\ q < p
    BY <1>1, <1>2, <2>1, <2>5, MultipleOrder
  <2>7. QED
    BY <1>2, <2>1, <2>6
<1>6. {p \in 1 .. TotalPages(total) : n \in rowsOf(p)} = {q + 1}
  BY <1>3, <1>4, <1>5
<1>7. QED
  BY <1>6, FS_Singleton

\* A list that has just been opened.
LEMMA PagerSoundInit == PagerInit => PagerSound
<1> SUFFICES ASSUME PagerInit PROVE PagerSound
  OBVIOUS
<1>1. answer \in [total : Nat, first : Nat, count : 0 .. PageSize]
  BY PagerAssumption DEF PagerInit, NoData
<1>2. current \in 1 .. PageLimit
  BY WindowPages DEF PagerInit
<1>3. QED
  BY <1>1, <1>2 DEF PagerInit, PagerSound, PagerTypeOK, Brought, PageLimit

\* Every step keeps it.
LEMMA PagerStep == PagerSound /\ [PagerNext]_pagerVars => PagerSound'
<1> SUFFICES ASSUME PagerSound, [PagerNext]_pagerVars PROVE PagerSound'
  OBVIOUS
<1> USE DEF PagerSound
<1>1. PageSize \in Nat \ {0} /\ size \in Nat /\ current \in 1 .. PageLimit /\ current \in Nat \ {0}
  BY PagerAssumption, WindowPages DEF PagerTypeOK, PageLimit
<1>2. NoData \in [total : Nat, first : Nat, count : 0 .. PageSize]
  BY <1>1 DEF NoData
<1>3. CASE Query
  <2> DEFINE found == FindAllRows(current)
  <2>1. Offset(current) \in Nat
    BY <1>1 DEF Offset
  <2>2. /\ found \in [total : Nat, first : Nat, count : 0 .. PageSize]
        /\ found.first = Offset(current)
        /\ found.count = Greater(0, Lesser(PageSize, found.total - found.first))
    BY <1>1, <2>1 DEF FindAllRows, Greater, Lesser
  <2> HIDE DEF found
  <2>3. answer' \in {found, NoData} /\ UNCHANGED <<size, current>>
    BY <1>3 DEF Query, found
  <2>4. PagerTypeOK'
    BY <1>2, <2>2, <2>3 DEF PagerTypeOK
  <2>5. Brought'
    BY <2>2, <2>3 DEF Brought, Offset
  <2>6. QED
    BY <2>4, <2>5
<1>4. CASE ChangePage
  <2>1. answer.total \in Nat /\ current' \in Targets(current, answer.total)
    BY <1>4 DEF ChangePage, PagerTypeOK
  <2>2. current' \in 1 .. PageLimit
    <3>1. current' \in 1 .. TotalPages(answer.total) /\ TotalPages(answer.total) \in 0 .. PageLimit
      BY <1>1, <2>1, TargetsInside, PagesTaken
    <3>2. QED
      BY <3>1, WindowPages
  <2>3. QED
    BY <1>2, <1>4, <2>2 DEF ChangePage, PagerTypeOK, Brought, PageLimit
<1>5. CASE ChangeFilter
  <2>1. current' \in 1 .. PageLimit
    BY <1>5, WindowPages DEF ChangeFilter
  <2>2. QED
    BY <1>2, <1>5, <2>1 DEF ChangeFilter, PagerTypeOK, Brought, PageLimit
<1>6. CASE ListGrows \/ UNCHANGED pagerVars
  BY <1>6 DEF ListGrows, pagerVars, PagerTypeOK, Brought, Offset
<1>7. QED
  BY <1>3, <1>4, <1>5, <1>6 DEF PagerNext

\* The types of Pager, in every reachable state.
THEOREM PagerTypeCorrect == PagerSpec => []PagerTypeOK
<1>1. PagerSound => PagerTypeOK
  BY DEF PagerSound
<1>2. QED
  BY PagerSoundInit, PagerStep, <1>1, PTL DEF PagerSpec

\* For a list of any size, pages of any size and groups of any number of buttons: the
\* pages show every row of the window once, with its number, and the buttons lead
\* nearer to every page and never outside.
THEOREM ReachTheorem == PagerSpec => []PagerReaches
<1>1. PagerSound => PagerReaches
  <2> DEFINE total == answer.total
             last == TotalPages(total)
             rowsOf(p) == Offset(p) + 1 .. Lesser(Offset(p) + PageSize, total)
             distance(p, q) == IF p > q THEN p - q ELSE q - p
  <2> SUFFICES ASSUME PagerSound, answer # NoData, current <= last
               PROVE  /\ \A n \in 1 .. Lesser(total, Window) :
                            Cardinality({p \in 1 .. last : n \in rowsOf(p)}) = 1
                      /\ Numbers(answer) = rowsOf(current)
                      /\ total > PageSize =>
                           \A p \in 1 .. last \ {current} :
                             \E t \in Targets(current, total) : distance(t, p) < distance(current, p)
                      /\ Targets(current, total) \subseteq 1 .. last
    BY DEF PagerReaches
  <2>1. /\ PageSize \in Nat \ {0} /\ total \in Nat /\ current \in Nat \ {0}
        /\ last \in Nat /\ current \in 1 .. last
    BY PagerAssumption, PagesTaken, WindowPages DEF PagerSound, PagerTypeOK, PageLimit
  <2>2. \A n \in 1 .. Lesser(total, Window) : Cardinality({p \in 1 .. last : n \in rowsOf(p)}) = 1
    BY <2>1, OnePage
  <2>3. Numbers(answer) = rowsOf(current)
    <3>1. Offset(current) \in Nat /\ Offset(current) < total
      BY <2>1, PagesTaken
    <3>2. answer.first = Offset(current) /\ answer.count = Lesser(PageSize, total - Offset(current))
      BY <2>1, <3>1 DEF PagerSound, Brought, Greater, Lesser
    <3>3. Offset(current) + answer.count = Lesser(Offset(current) + PageSize, total)
      BY <2>1, <3>1, <3>2 DEF Lesser
    <3>4. QED
      BY <3>2, <3>3 DEF Numbers
  <2>4. ASSUME total > PageSize, NEW p \in 1 .. last \ {current}
        PROVE  \E t \in Targets(current, total) : distance(t, p) < distance(current, p)
    <3>1. ASSUME NEW d \in {-1, 1}, current + d \in 1 .. last
          PROVE  current + d \in Targets(current, total)
      BY <2>1, <2>4, <3>1 DEF Targets, CanMovePage
    <3>2. CASE p > current
      <4>1. current + 1 \in Targets(current, total)
        BY <2>1, <2>4, <3>1, <3>2
      <4>2. distance(current + 1, p) < distance(current, p)
        BY <2>1, <2>4, <3>2
      <4>3. QED
        BY <4>1, <4>2
    <3>3. CASE p < current
      <4>1. current + (-1) \in Targets(current, total)
        BY <2>1, <2>4, <3>1, <3>3
      <4>2. distance(current + (-1), p) < distance(current, p)
        BY <2>1, <2>4, <3>3
      <4>3. QED
        BY <4>1, <4>2
    <3>4. QED
      BY <2>1, <2>4, <3>2, <3>3
  <2>5. Targets(current, total) \subseteq 1 .. last
    BY <2>1, TargetsInside
  <2>6. QED
    BY <2>2, <2>3, <2>4, <2>5
<1>2. QED
  BY PagerSoundInit, PagerStep, <1>1, PTL DEF PagerSpec

-----------------------------------------------------------------------------
(***************************************************************************)
(* The test console, for any transactions and any number of failed requests. *)
(***************************************************************************)

\* What an answer says has happened to its transaction, which may be further by now: with
\* an outcome the callback has been made, and what is stored of it may have changed.
Happened(f) ==
  LET stage == progress[f.hash] IN
  /\ stage # NoHash
  /\ f.steps => stage # "sent"
  /\ f.confirmed => stage \notin {"sent", "DETECTED"}
  /\ f.status # "none" => stage \in {"PENDING"} \cup Final

\* The types that a step needs.
ConsoleTyped ==
  /\ progress \in [Hashes -> Stages \cup {NoHash}]
  /\ txHash = NoHash \/ (txHash \in Hashes /\ progress[txHash] # NoHash)
  /\ enabled \in BOOLEAN
  /\ fetchFails \in 0..MaxFetchFails

\* The request in flight, if there is one, has read what has happened.
InFlight ==
  \/ fetch = NoFetch
  \/ fetch.flow \in Flow /\ Happened(fetch.flow)
     /\ fetch \in [at : {"deposit", "callback", "answer"}, flow : Flow]

\* What is shown about a transaction has happened to it.
ShownHappened == txProcess = NoAnswer \/ (txProcess \in Flow /\ Happened(txProcess))

\* The polling of a transaction on the screen ends only when the outcome of one is shown,
\* and then no request is in flight whose answer could replace it.
StopsOnOutcome ==
  txHash # NoHash /\ enabled = FALSE =>
    fetch = NoFetch /\ txProcess \in Flow /\ txProcess.status \in Final

ConsoleSound == ConsoleTyped /\ InFlight /\ ShownHappened /\ StopsOnOutcome

\* A page that has just been opened.
LEMMA ConsoleSoundInit == ConsoleInit => ConsoleSound
<1> SUFFICES ASSUME ConsoleInit PROVE ConsoleSound
  OBVIOUS
<1>1. progress \in [Hashes -> Stages \cup {NoHash}] /\ fetchFails \in 0..MaxFetchFails
  BY ConsoleAssumption DEF ConsoleInit
<1>2. txHash = NoHash /\ txProcess = NoAnswer /\ enabled = FALSE /\ fetch = NoFetch
  BY DEF ConsoleInit
<1>3. ConsoleTyped
  BY <1>1, <1>2, Zenon DEF ConsoleTyped
<1>4. QED
  BY <1>2, <1>3 DEF ConsoleSound, InFlight, ShownHappened, StopsOnOutcome

\* What has happened stays so when the API goes on, or another transaction is sent.
LEMMA HappenedStays ==
  ASSUME ConsoleTyped, NEW h \in Hashes, NEW stage \in Stages,
         stage \in Onwards(progress[h]) \/ (progress[h] = NoHash /\ stage = "sent"),
         progress' = [progress EXCEPT ![h] = stage]
  PROVE  /\ progress' \in [Hashes -> Stages \cup {NoHash}] /\ progress'[h] # NoHash
         /\ \A g \in Hashes : progress[g] # NoHash => progress'[g] # NoHash
         /\ \A f \in Flow : Happened(f) => Happened(f)'
<1>1. /\ progress' \in [Hashes -> Stages \cup {NoHash}] /\ progress'[h] = stage
      /\ \A g \in Hashes \ {h} : progress'[g] = progress[g]
  BY DEF ConsoleTyped
<1>2. stage # NoHash
  BY DEF Stages, NoHash
<1>3. ASSUME NEW f \in Flow, Happened(f) PROVE Happened(f)'
  <2>1. CASE f.hash # h
    BY <1>1, <1>3, <2>1 DEF Happened, Flow
  <2>2. CASE f.hash = h
    <3>1. \/ progress[h] = "sent" /\ stage = "DETECTED"
          \/ progress[h] = "DETECTED" /\ stage = "PENDING"
          \/ progress[h] \in {"PENDING"} \cup Final /\ stage \in {"PENDING"} \cup Final
      BY <1>3, <2>2 DEF Happened, Onwards, Final
    <3>2. QED
      BY <1>1, <1>3, <2>2, <3>1 DEF Happened, Final, NoHash
  <2>3. QED
    BY <2>1, <2>2
<1>4. QED
  BY <1>1, <1>2, <1>3

\* The API goes on with a transaction.
LEMMA AdvanceSound ==
  ASSUME ConsoleSound, NEW h \in Hashes, Advance(h)
  PROVE  ConsoleSound'
<1>1. PICK stage \in Onwards(progress[h]) : progress' = [progress EXCEPT ![h] = stage]
  BY DEF Advance
<1>2. UNCHANGED <<txHash, txProcess, enabled, fetch, fetchFails>>
  BY DEF Advance, screenVars
<1>3. stage \in Stages
  BY <1>1 DEF Onwards, Stages, Final
<1>4. /\ progress' \in [Hashes -> Stages \cup {NoHash}]
      /\ \A g \in Hashes : progress[g] # NoHash => progress'[g] # NoHash
      /\ \A f \in Flow : Happened(f) => Happened(f)'
  BY <1>1, <1>3, HappenedStays DEF ConsoleSound
<1>5. ConsoleTyped'
  BY <1>2, <1>4 DEF ConsoleSound, ConsoleTyped
<1>6. InFlight' /\ ShownHappened' /\ StopsOnOutcome'
  BY <1>2, <1>4 DEF ConsoleSound, InFlight, ShownHappened, StopsOnOutcome, NoFetch, Happened
<1>7. QED
  BY <1>5, <1>6 DEF ConsoleSound

\* A transaction is sent: a request about the previous one may still be in flight.
LEMMA SendSound ==
  ASSUME ConsoleSound, NEW h \in Hashes, HdSend(h)
  PROVE  ConsoleSound'
<1>1. /\ progress' = [progress EXCEPT ![h] = "sent"] /\ progress[h] = NoHash
      /\ txHash' = h /\ txProcess' = NoAnswer /\ enabled' = TRUE
      /\ UNCHANGED <<fetch, fetchFails>>
  BY DEF HdSend
<1>2. "sent" \in Stages
  BY DEF Stages
<1>3. /\ progress' \in [Hashes -> Stages \cup {NoHash}] /\ progress'[h] # NoHash
      /\ \A f \in Flow : Happened(f) => Happened(f)'
  BY <1>1, <1>2, HappenedStays DEF ConsoleSound
<1>4. ConsoleTyped'
  BY <1>1, <1>3 DEF ConsoleSound, ConsoleTyped
<1>5. InFlight' /\ ShownHappened' /\ StopsOnOutcome'
  BY <1>1, <1>3 DEF ConsoleSound, InFlight, ShownHappened, StopsOnOutcome, NoFetch, Happened
<1>6. QED
  BY <1>4, <1>5 DEF ConsoleSound

\* The interval is over.
LEMMA PollSound ==
  ASSUME ConsoleSound, Poll
  PROVE  ConsoleSound'
<1>1. UNCHANGED <<progress, txHash, txProcess, enabled, fetchFails>> /\ enabled
  BY DEF Poll, screenVars
<1>2. txHash \in Hashes /\ progress[txHash] # NoHash
  BY DEF Poll, ConsoleSound, ConsoleTyped
<1>3. fetch' = [at |-> "deposit", flow |-> Unread(txHash)]
  BY DEF Poll
<1>4. Unread(txHash) \in Flow
  BY <1>2 DEF Unread, Flow
<1>5. Happened(Unread(txHash))
  BY <1>2 DEF Happened, Unread, Final
<1>6. ConsoleTyped' /\ ShownHappened'
  BY <1>1 DEF ConsoleSound, ConsoleTyped, ShownHappened, Happened
<1>7. StopsOnOutcome'
  BY <1>1 DEF StopsOnOutcome
<1>8. InFlight'
  BY <1>1, <1>3, <1>4, <1>5 DEF InFlight, Happened
<1>9. QED
  BY <1>6, <1>7, <1>8 DEF ConsoleSound

\* The two reads of the API.
LEMMA ReadsSound ==
  ASSUME ConsoleSound, ReadDeposit \/ ReadCallback
  PROVE  ConsoleSound'
<1>1. UNCHANGED <<progress, txHash, txProcess, enabled, fetchFails>>
  BY DEF ReadDeposit, ReadCallback, screenVars
<1>2. fetch.at \in {"deposit", "callback"}
  BY DEF ReadDeposit, ReadCallback
<1>3. /\ fetch.flow \in Flow /\ Happened(fetch.flow)
      /\ fetch \in [at : {"deposit", "callback", "answer"}, flow : Flow]
  BY <1>2 DEF ConsoleSound, InFlight, NoFetch
<1> DEFINE flow == fetch.flow
           stage == progress[flow.hash]
<1>4. stage \in Stages
  BY <1>3 DEF ConsoleSound, ConsoleTyped, Happened, Flow
<1>5. /\ fetch' \in [at : {"deposit", "callback", "answer"}, flow : Flow]
      /\ Happened(fetch'.flow)
  <2>1. CASE ReadDeposit /\ stage = "sent"
    <3>1. fetch' = [fetch EXCEPT !.at = "answer"]
      BY <2>1 DEF ReadDeposit
    <3>2. QED
      BY <1>3, <3>1
  <2>2. CASE ReadDeposit /\ stage # "sent"
    <3> DEFINE confirmed == stage # "DETECTED"
               found == [flow EXCEPT !.steps = TRUE, !.confirmed = confirmed]
    <3>1. fetch' = [fetch EXCEPT !.at = "callback", !.flow.steps = TRUE, !.flow.confirmed = confirmed]
      BY <2>2 DEF ReadDeposit
    <3>2. confirmed \in BOOLEAN /\ (confirmed => stage # "DETECTED")
      BY Zenon
    <3> HIDE DEF confirmed
    <3>3. fetch'.at = "callback" /\ fetch'.flow = found /\ fetch' = [at |-> "callback", flow |-> found]
      BY <1>3, <3>1
    <3>4. found \in Flow
      BY <1>3, <3>2 DEF Flow
    <3>5. /\ found.hash = flow.hash /\ found.status = flow.status /\ found.confirmed = confirmed
      BY <1>3 DEF Flow
    <3>6. Happened(found)
      BY <1>3, <2>2, <3>2, <3>5 DEF Happened
    <3>7. QED
      BY <3>3, <3>4, <3>6
  <2>3. CASE ReadCallback
    <3> DEFINE found == [flow EXCEPT !.status = Callback(stage)]
    <3>1. fetch' = [fetch EXCEPT !.at = "answer", !.flow.status = Callback(stage)]
      BY <2>3 DEF ReadCallback
    <3>2. /\ Callback(stage) \in {"none", "PENDING"} \cup Final
          /\ Callback(stage) # "none" => Callback(stage) = stage
      BY DEF Callback, Final
    <3>3. fetch' = [at |-> "answer", flow |-> found]
      BY <1>3, <3>1
    <3>4. found \in Flow
      BY <1>3, <3>2 DEF Flow
    <3>5. /\ found.hash = flow.hash /\ found.steps = flow.steps /\ found.confirmed = flow.confirmed
          /\ found.status = Callback(stage)
      BY <1>3 DEF Flow
    <3>6. Happened(found)
      BY <1>3, <3>2, <3>5 DEF Happened, Final
    <3>7. QED
      BY <3>3, <3>4, <3>6
  <2>4. QED
    BY <2>1, <2>2, <2>3
<1>6. InFlight'
  BY <1>1, <1>5 DEF InFlight, Happened
<1>7. ConsoleTyped' /\ ShownHappened'
  BY <1>1 DEF ConsoleSound, ConsoleTyped, ShownHappened, Happened
<1>8. StopsOnOutcome'
  <2>1. fetch # NoFetch
    BY <1>2 DEF NoFetch
  <2>2. QED
    BY <1>1, <2>1 DEF ConsoleSound, StopsOnOutcome
<1>9. QED
  BY <1>6, <1>7, <1>8 DEF ConsoleSound

\* The answer is shown, whatever is on the screen by now.
LEMMA AnswerSound ==
  ASSUME ConsoleSound, Answer
  PROVE  ConsoleSound'
<1>1. fetch.flow \in Flow /\ Happened(fetch.flow)
  BY DEF Answer, ConsoleSound, InFlight, NoFetch
<1>2. txProcess' = fetch.flow /\ fetch' = NoFetch /\ UNCHANGED <<progress, txHash, fetchFails>>
  BY DEF Answer
<1>3. enabled' \in BOOLEAN /\ (enabled' = FALSE => enabled = FALSE \/ fetch.flow.status \in Final)
  BY Zenon DEF Answer, ConsoleSound, ConsoleTyped
<1>4. ConsoleTyped'
  BY <1>2, <1>3 DEF ConsoleSound, ConsoleTyped
<1>5. InFlight' /\ ShownHappened'
  BY <1>1, <1>2 DEF InFlight, ShownHappened, Happened
<1>6. StopsOnOutcome'
  <2>1. fetch # NoFetch
    BY DEF Answer, NoFetch
  <2>2. QED
    BY <1>1, <1>2, <1>3, <2>1 DEF ConsoleSound, StopsOnOutcome
<1>7. QED
  BY <1>4, <1>5, <1>6 DEF ConsoleSound

\* The button, a request that fails, and the page that is left.
LEMMA RestSound ==
  ASSUME ConsoleSound, Refresh \/ FetchFails \/ Leave
  PROVE  ConsoleSound'
<1>1. UNCHANGED progress /\ fetchFails' \in 0..MaxFetchFails
  BY ConsoleAssumption DEF Refresh, FetchFails, Leave, screenVars, ConsoleSound, ConsoleTyped
<1>2. CASE Refresh
  <2>1. enabled' = TRUE /\ UNCHANGED <<txHash, txProcess, fetch>>
    BY <1>2 DEF Refresh
  <2>2. QED
    BY <1>1, <2>1
    DEF ConsoleSound, ConsoleTyped, InFlight, ShownHappened, StopsOnOutcome, Happened
<1>3. CASE FetchFails
  <2>1. fetch' = NoFetch /\ UNCHANGED <<txHash, txProcess, enabled>>
    BY <1>3 DEF FetchFails, screenVars
  <2>2. QED
    BY <1>1, <2>1
    DEF ConsoleSound, ConsoleTyped, InFlight, ShownHappened, StopsOnOutcome, Happened
<1>4. CASE Leave
  <2>1. txHash' = NoHash /\ txProcess' = NoAnswer /\ enabled' = FALSE /\ fetch' = NoFetch
    BY <1>4 DEF Leave
  <2>2. ConsoleTyped'
    BY <1>1, <2>1 DEF ConsoleSound, ConsoleTyped
  <2>3. InFlight' /\ ShownHappened' /\ StopsOnOutcome'
    BY <2>1 DEF InFlight, ShownHappened, StopsOnOutcome
  <2>4. QED
    BY <2>2, <2>3 DEF ConsoleSound
<1>5. QED
  BY <1>2, <1>3, <1>4

\* Every step keeps it.
LEMMA ConsoleStep == ConsoleSound /\ [ConsoleNext]_consoleVars => ConsoleSound'
<1> SUFFICES ASSUME ConsoleSound, [ConsoleNext]_consoleVars PROVE ConsoleSound'
  OBVIOUS
<1>1. CASE UNCHANGED consoleVars
  BY <1>1 DEF consoleVars, ConsoleSound, ConsoleTyped, InFlight, ShownHappened, StopsOnOutcome, Happened
<1>2. CASE ConsoleNext
  BY <1>2, AdvanceSound, SendSound, PollSound, ReadsSound, AnswerSound, RestSound
  DEF ConsoleNext, Polls
<1>3. QED
  BY <1>1, <1>2

\* The types of TestConsole, in every reachable state.
THEOREM ConsoleTypeCorrect == ConsoleSpec => []ConsoleTypeOK
<1>1. ConsoleSound => ConsoleTypeOK
  <2> SUFFICES ASSUME ConsoleSound PROVE ConsoleTypeOK
    OBVIOUS
  <2>1. fetch \in [at : {"idle", "deposit", "callback", "answer", "stuck"}, flow : Flow \cup {NoAnswer}]
    BY DEF ConsoleSound, InFlight, NoFetch
  <2>2. /\ txHash \in Hashes \cup {NoHash} /\ txProcess \in Flow \cup {NoAnswer}
        /\ progress \in [Hashes -> Stages \cup {NoHash}] /\ fetchFails \in 0..MaxFetchFails
    BY DEF ConsoleSound, ConsoleTyped, ShownHappened
  <2>3. enabled \in BOOLEAN
    BY Zenon DEF ConsoleSound, ConsoleTyped
  <2>4. QED
    BY <2>1, <2>2, <2>3, Zenon DEF ConsoleTypeOK
<1>2. QED
  BY ConsoleSoundInit, ConsoleStep, <1>1, PTL DEF ConsoleSpec

\* What the console shows about a transaction has happened to it, whatever the workers
\* do between the two reads, before the answer and after it: it shows no deposit, no
\* confirmation and no callback before there is one. And it stops polling only when it
\* shows an outcome, with no later answer on its way that could replace it.
THEOREM ShownTheorem == ConsoleSpec => [](ShownHappened /\ StopsOnOutcome)
<1>1. ConsoleSound => ShownHappened /\ StopsOnOutcome
  BY DEF ConsoleSound
<1>2. QED
  BY ConsoleSoundInit, ConsoleStep, <1>1, PTL DEF ConsoleSpec
-----------------------------------------------------------------------------
(* The surroundings of TestConsole implement DepositRecord: all parts of it *)

RowOf(stage) ==
  IF stage \in {NoHash, "sent"} THEN "none" ELSE IF stage = "DETECTED" THEN stage ELSE "CONFIRMED"

RecordRows == [h \in Hashes |-> RowOf(progress[h])]
RecordCallbacks == [h \in Hashes |-> Callback(progress[h])]

Record == INSTANCE DepositRecord
            WITH Deposits <- Hashes, row <- RecordRows, callback <- RecordCallbacks

\* Nothing is sent yet.
LEMMA RecordInit == ConsoleInit => Record!Init
  BY DEF ConsoleInit, Record!Init, RecordRows, RecordCallbacks, RowOf, Callback, NoHash

\* A step from one stage to another changes row and callback of this transaction only.
LEMMA RecordMoves ==
  ASSUME ConsoleTyped, NEW h \in Hashes, NEW stage, progress' = [progress EXCEPT ![h] = stage]
  PROVE  /\ RecordRows' = [RecordRows EXCEPT ![h] = RowOf(stage)]
         /\ RecordCallbacks' = [RecordCallbacks EXCEPT ![h] = Callback(stage)]
  BY DEF ConsoleTyped, RecordRows, RecordCallbacks

\* Each way that Onwards allows is an action of the record.
LEMMA AdvanceRecorded ==
  ASSUME ConsoleTyped, NEW h \in Hashes, Advance(h)
  PROVE  Record!Next
<1>1. PICK stage \in Onwards(progress[h]) : progress' = [progress EXCEPT ![h] = stage]
  BY DEF Advance
<1> DEFINE was == progress[h]
<1>2. /\ RecordRows[h] = RowOf(was) /\ RecordRows' = [RecordRows EXCEPT ![h] = RowOf(stage)]
      /\ RecordCallbacks[h] = Callback(was)
      /\ RecordCallbacks' = [RecordCallbacks EXCEPT ![h] = Callback(stage)]
  BY <1>1, RecordMoves DEF RecordRows, RecordCallbacks
<1>3. RecordRows = [RecordRows EXCEPT ![h] = @] /\ RecordCallbacks = [RecordCallbacks EXCEPT ![h] = @]
  BY DEF RecordRows, RecordCallbacks
<1> USE DEF RowOf, Callback, NoHash
<1>4. CASE was = "sent"
  <2>1. stage = "DETECTED"
    BY <1>4 DEF Onwards
  <2>2. Record!Detect(h)
    BY <1>2, <1>3, <1>4, <2>1 DEF Record!Detect
  <2>3. QED
    BY <2>2 DEF Record!Next
<1>5. CASE was = "DETECTED"
  <2>1. stage = "PENDING"
    BY <1>5 DEF Onwards
  <2>2. Record!Confirm(h)
    BY <1>2, <1>5, <2>1 DEF Record!Confirm
  <2>3. QED
    BY <2>2 DEF Record!Next
<1>6. CASE was = "PENDING" \/ (was \in Final /\ stage \in Final)
  <2>1. stage \in Final
    BY <1>6 DEF Onwards
  <2>2. UNCHANGED RecordRows /\ RecordCallbacks' = [RecordCallbacks EXCEPT ![h] = stage]
    BY <1>2, <1>3, <1>6, <2>1 DEF Final
  <2>3. Record!Settle(h) \/ Record!Overwrite(h)
    BY <1>2, <1>6, <2>1, <2>2 DEF Record!Settle, Record!Overwrite, Record!Outcome, Final
  <2>4. QED
    BY <2>3 DEF Record!Next
<1>7. CASE was = "FAILED" /\ stage = "PENDING"
  <2>1. UNCHANGED RecordRows /\ RecordCallbacks' = [RecordCallbacks EXCEPT ![h] = "PENDING"]
    BY <1>2, <1>3, <1>7
  <2>2. RecordCallbacks' = [g \in Hashes |-> IF g \in {h} THEN "PENDING" ELSE RecordCallbacks[g]]
    BY <2>1 DEF RecordCallbacks
  <2>3. Record!SetBack({h})
    BY <1>2, <1>7, <2>1, <2>2 DEF Record!SetBack
  <2>4. QED
    BY <2>3 DEF Record!Next
<1>8. QED
  BY <1>1, <1>4, <1>5, <1>6, <1>7 DEF Onwards, Final

\* A transaction that is sent has no row yet, and the page only reads.
LEMMA RecordStep ==
  ASSUME ConsoleTyped, [ConsoleNext]_consoleVars
  PROVE  [Record!Next]_(Record!vars)
<1>1. CASE UNCHANGED progress
  BY <1>1 DEF Record!vars, RecordRows, RecordCallbacks
<1>2. ASSUME NEW h \in Hashes, HdSend(h) PROVE UNCHANGED Record!vars
  <2>1. progress[h] = NoHash /\ progress' = [progress EXCEPT ![h] = "sent"]
    BY <1>2 DEF HdSend
  <2>2. RowOf("sent") = RowOf(NoHash) /\ Callback("sent") = Callback(NoHash)
    BY DEF RowOf, Callback, NoHash
  <2>3. QED
    BY <2>1, <2>2 DEF ConsoleTyped, Record!vars, RecordRows, RecordCallbacks
<1>3. QED
  BY <1>1, <1>2, AdvanceRecorded
  DEF ConsoleNext, Refresh, Polls, Poll, ReadDeposit, ReadCallback, Answer, FetchFails, Leave, consoleVars

\* The stages that the console watches are the life of a deposit and no other: what it
\* takes the workers to do is what DepositScan, DepositConfirm and Callback are shown to do.
THEOREM RecordTheorem == ConsoleSpec => Record!Spec
<1>1. ConsoleSound => ConsoleTyped
  BY DEF ConsoleSound
<1>2. ConsoleTyped /\ [ConsoleNext]_consoleVars => [Record!Next]_(Record!vars)
  BY RecordStep
<1>3. QED
  BY <1>1, <1>2, ConsoleSoundInit, ConsoleStep, RecordInit, PTL DEF ConsoleSpec, Record!Spec
=============================================================================
