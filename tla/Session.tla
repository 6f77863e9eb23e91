------------------------------- MODULE Session -------------------------------
(***************************************************************************)
(* The portal's session: a redux store that is persisted twice, with the    *)
(* whole state under "core" and once more with auth alone, the axios        *)
(* instance that carries the access token, and the pages that change both.  *)
(* A page load builds all of it anew from what was persisted; every change  *)
(* of the store is persisted at once.                                       *)
(***************************************************************************)
EXTENDS Integers

CONSTANTS
  Tokens,     \* access tokens the API issues, one per sign-in
  Servers,    \* SERVER_TYPE
  MaxLoads    \* bound: page loads

SignedOut == "signedOut"
Auths == Tokens \cup {SignedOut}

ASSUME SessionAssumption == Servers # {} /\ SignedOut \notin Tokens /\ MaxLoads \in Nat

VARIABLES
  deployed,  \* the portal deployed now, and the one this page was loaded from
  store,     \* config.version, config.server and the token of auth
  saved,     \* what is persisted
  own,       \* persist:auth, read when the page was loaded and not yet merged
  view,      \* what the browser shows: a step of loading, or a page
  target,    \* where the router will be after loading
  axios,     \* base URL, Authorization header, and whether headers is defaultConfig's
  expired,   \* tokens that are over
  bare,      \* history: LoginPage was mounted with a session
  loads

sessionVars == <<deployed, store, saved, own, view, target, axios, expired, bare, loads>>
loadVars == <<deployed, own, target, loads>>

SessionTypeOK ==
  LET state == [version : 0..2, server : Servers, auth : Auths] IN
  /\ deployed \in [now : 1..2, page : 1..2]
  /\ store \in state /\ saved \in state /\ own \in Auths
  /\ view \in {"core", "auth", "lift", "login", "main"} /\ target \in {"login", "main"}
  /\ axios \in [base : Servers, header : Auths, default : BOOLEAN]
  /\ expired \subseteq Tokens /\ bare \in BOOLEAN /\ loads \in 0..MaxLoads

AnyServer == CHOOSE s \in Servers : TRUE
Unset == [version |-> 0, server |-> AnyServer, auth |-> SignedOut]
Bare == [base |-> AnyServer, header |-> SignedOut, default |-> FALSE]

SessionInit ==
  /\ deployed = [now |-> 1, page |-> 1]
  /\ store = Unset /\ saved = Unset /\ own = SignedOut
  /\ view = "core" /\ target = "main"
  /\ axios = Bare /\ expired = {} /\ bare = FALSE /\ loads = 0

Signed == store.auth # SignedOut

\* A new store, which is persisted.
Put(state) == store' = state /\ saved' = state

----------------------------------------------------------------------------
(* The rest of the world *)

\* APP_VERSION of the portal changes; pages that are open keep theirs.
Deploy ==
  /\ deployed.now = 1 /\ deployed' = [deployed EXCEPT !.now = 2]
  /\ UNCHANGED <<store, saved, own, view, target, axios, expired, bare, loads>>

\* The JWT's lifetime ends.
Expire(t) ==
  /\ (t = store.auth \/ t = saved.auth) /\ expired' = expired \cup {t}
  /\ UNCHANGED <<loadVars, store, saved, view, axios, bare>>

\* A reload, or a URL that is typed in.
Load(url) ==
  /\ loads < MaxLoads /\ loads' = loads + 1
  /\ deployed' = [deployed EXCEPT !.page = deployed.now]
  /\ store' = Unset /\ own' = saved.auth
  /\ view' = "core" /\ target' = url
  /\ axios' = Bare /\ bare' = FALSE
  /\ UNCHANGED <<saved, expired>>

----------------------------------------------------------------------------
(* store/index.ts: the two REHYDRATE actions, each followed by authGuard *)

\* authGuard: another version signs out and is noted, and otherwise a session
\* that has expired is signed out.
Guarded(state) ==
  IF state.version # deployed.page
    THEN [state EXCEPT !.version = deployed.page, !.auth = SignedOut]
  ELSE IF state.auth \in expired THEN [state EXCEPT !.auth = SignedOut] ELSE state

\* The whole state, auth included.
RehydrateCore ==
  /\ view = "core" /\ view' = "auth"
  /\ Put(Guarded(saved))
  /\ UNCHANGED <<loadVars, axios, expired, bare>>

\* Auth once more, as it was read before the first guard: a sign-out because of
\* the version is undone here.
RehydrateAuth ==
  /\ view = "auth" /\ view' = "lift"
  /\ Put(Guarded([store EXCEPT !.auth = own]))
  /\ UNCHANGED <<loadVars, axios, expired, bare>>

\* Mutant of HdBeforLift: the header is left to signIn.
HdBeforLiftBare ==
  /\ view = "lift" /\ view' = target
  /\ axios' = [base |-> store.server, header |-> SignedOut, default |-> FALSE]
  /\ UNCHANGED <<loadVars, store, saved, expired, bare>>

\* App.hdBeforLift: initAxios, and the header of a session; then the router.
HdBeforLift ==
  /\ view = "lift" /\ view' = target
  /\ axios' = [base |-> store.server, header |-> store.auth, default |-> FALSE]
  /\ UNCHANGED <<loadVars, store, saved, expired, bare>>

----------------------------------------------------------------------------
(* The pages *)

\* changeAxiosBaseUrl: the headers become those of defaultConfig, where a header
\* can only have been set once they are.
Changed(server) ==
  [base |-> server, header |-> IF axios.default THEN axios.header ELSE SignedOut, default |-> TRUE]

\* TxDropdownServer, when it is mounted and when another server is picked.
ChangeServer(server) ==
  /\ axios' = Changed(server)
  /\ Put([store EXCEPT !.server = server])

\* LoginPage with a session: its dropdown is mounted, and it goes to the dashboard.
LeaveLogin ==
  /\ view = "login" /\ Signed /\ view' = "main"
  /\ ChangeServer(store.server) /\ bare' = TRUE
  /\ UNCHANGED <<loadVars, expired>>

\* LoginPage, when it comes up and later.
PickServer(server) ==
  /\ view = "login" /\ ~Signed
  /\ ChangeServer(server)
  /\ UNCHANGED <<loadVars, view, expired, bare>>

SignIn(t) ==
  /\ Put([store EXCEPT !.auth = t])
  /\ axios' = [axios EXCEPT !.header = t]

\* handleLogin, with the answer of AuthService.login: signIn, and back to where
\* MainPage came from.
HandleLogin(t) ==
  /\ view = "login" /\ ~Signed /\ axios.default
  /\ t \notin expired /\ \A s \in {store, saved} : s.auth # t
  /\ SignIn(t)
  /\ view' = "main" /\ bare' = FALSE
  /\ UNCHANGED <<loadVars, expired>>

\* MainPage without a session, and the login page it opens.
ToLogin ==
  /\ view = "main" /\ ~Signed /\ view' = "login"
  /\ ChangeServer(store.server)
  /\ UNCHANGED <<loadVars, expired, bare>>

SignOut == Put([store EXCEPT !.auth = SignedOut]) /\ UNCHANGED <<loadVars, view, axios, expired, bare>>

\* Topbar.hdClickSign.
ClickSign == view = "main" /\ Signed /\ SignOut

\* Mutant of TimeOut: the timer is set by signing in only.
TimeOutOnce == view = "main" /\ store.auth \in expired /\ loads = 0 /\ SignOut

\* Topbar: the timer of expiresAt, or its effect if that is past.
TimeOut == view = "main" /\ store.auth \in expired /\ SignOut

Loading == RehydrateCore \/ RehydrateAuth \/ HdBeforLift \/ LeaveLogin \/ ToLogin

SessionNext ==
  \/ Deploy \/ \E t \in Tokens : Expire(t) \/ HandleLogin(t)
  \/ \E url \in {"login", "main"} : Load(url)
  \/ Loading \/ \E s \in Servers : PickServer(s)
  \/ ClickSign \/ TimeOut

SessionSpec == SessionInit /\ [][SessionNext]_sessionVars
----------------------------------------------------------------------------
(* Properties *)

\* Wherever a session is shown its requests go to the server that was chosen
\* and carry its token, through reloads, sign-outs and changes of the server;
\* except after a login page that was loaded with a session and left at once,
\* whose server list has dropped the header.
RequestsAuthorized ==
  view = "main" /\ Signed
    => axios.base = store.server /\ (axios.header = store.auth \/ bare)

\* A session that is over is signed out in time, also when the portal has been
\* loaded anew meanwhile, with either version, and the guard has not seen it.
ExpiredSignedOut ==
  \A t \in Tokens : view \in {"lift", "main"} /\ store.auth = t /\ t \in expired ~> store.auth # t
=============================================================================
