----------------------------- MODULE MCPlatform -----------------------------
(* The parts of the platform that share no state with the deposit pipeline or *)
(* with one another, side by side: a behaviour is one of any one of them.     *)
EXTENDS Reclaim, PartnerKeys, ExceptionLogs, Accounts, BaseWorker, TestConsole,
        TronEvents, Session, Routes, Requests, ListPage, Pager

CONSTANTS w1, w2, a1, a2, i1, i2, p1, p2, r1, r2, r3, x1, x2, l1, u1, u2, h1, h2, k1, k2, t1, t2, c1, c2, c3

VARIABLE part

\* Two of the three raw strings begin alike.
TwoAlike == [r \in {r1, r2, r3} |-> IF r = r3 THEN x2 ELSE x1]

\* Two of three rows are one partner's.
TwoOfOne == [c \in {c1, c2, c3} |-> IF c = c3 THEN t2 ELSE t1]

apiVars == <<reclaimVars, keyVars, logVars, accountVars, workerVars, eventVars>>
listsVars == <<requestVars, listVars, pagerVars>>
portalVars == <<consoleVars, sessionVars, routeVars, listsVars>>
platformVars == <<part, apiVars, portalVars>>

Parts == {"reclaim", "keys", "logs", "accounts", "worker", "events", "console", "session", "routes",
          "requests", "list", "pager"}

PlatformInit ==
  /\ part \in Parts
  /\ ReclaimInit /\ KeysInit /\ LogsInit /\ AccountsInit /\ WorkerInit /\ EventsInit
  /\ ConsoleInit /\ SessionInit /\ RoutesInit /\ RequestsInit /\ ListInit /\ PagerInit
  /\ part # "events" => pages = 1
  /\ part # "routes" => role = "OWNER"
  /\ part # "requests" => signedAs = "OWNER"
  /\ part # "list" => screen = "wallets"
  /\ part # "pager" => size = 0

InReclaim == part = "reclaim" /\ UNCHANGED <<part, keyVars, logVars, accountVars, workerVars, eventVars, portalVars>>
InKeys == part = "keys" /\ UNCHANGED <<part, reclaimVars, logVars, accountVars, workerVars, eventVars, portalVars>>
InLogs == part = "logs" /\ UNCHANGED <<part, reclaimVars, keyVars, accountVars, workerVars, eventVars, portalVars>>
InAccounts == part = "accounts" /\ UNCHANGED <<part, reclaimVars, keyVars, logVars, workerVars, eventVars, portalVars>>
InWorker == part = "worker" /\ UNCHANGED <<part, reclaimVars, keyVars, logVars, accountVars, eventVars, portalVars>>
InEvents == part = "events" /\ UNCHANGED <<part, reclaimVars, keyVars, logVars, accountVars, workerVars, portalVars>>
InConsole == part = "console" /\ UNCHANGED <<part, apiVars, sessionVars, routeVars, listsVars>>
InSession == part = "session" /\ UNCHANGED <<part, apiVars, consoleVars, routeVars, listsVars>>
InRoutes == part = "routes" /\ UNCHANGED <<part, apiVars, consoleVars, sessionVars, listsVars>>
InRequests == part = "requests" /\ UNCHANGED <<part, apiVars, consoleVars, sessionVars, routeVars, listVars, pagerVars>>
InList == part = "list" /\ UNCHANGED <<part, apiVars, consoleVars, sessionVars, routeVars, requestVars, pagerVars>>
InPager == part = "pager" /\ UNCHANGED <<part, apiVars, consoleVars, sessionVars, routeVars, requestVars, listVars>>

PlatformNext ==
  \/ InReclaim /\ ReclaimNext
  \/ InKeys /\ KeysNext
  \/ InLogs /\ LogsNext
  \/ InAccounts /\ AccountsNext
  \/ InWorker /\ WorkerNext
  \/ InEvents /\ EventsNext
  \/ InConsole /\ ConsoleNext
  \/ InSession /\ SessionNext
  \/ InRoutes /\ RoutesNext
  \/ InRequests /\ RequestsNext
  \/ InList /\ ListNext
  \/ InPager /\ PagerNext

\* Processes that run go on, a transfer is executed or its wait ends, and the
\* timers of the browser fire.
PlatformFairness ==
  /\ \A i \in Reclaimers :
       WF_reclaimVars(part = "reclaim" /\ ReclaimWorker(i)) /\ WF_reclaimVars(part = "reclaim" /\ Executed(i))
  /\ WF_workerVars(part = "worker" /\ Tick) /\ WF_workerVars(part = "worker" /\ Settles)
  /\ WF_consoleVars(part = "console" /\ Polls)
  /\ WF_listVars(part = "list" /\ FetchRows) /\ WF_listVars(part = "list" /\ Arrives)
  /\ WF_sessionVars(part = "session" /\ Loading) /\ WF_sessionVars(part = "session" /\ TimeOut)

PlatformSpec == PlatformInit /\ [][PlatformNext]_platformVars /\ PlatformFairness

PlatformTypeOK ==
  /\ part \in Parts
  /\ ReclaimTypeOK /\ KeysTypeOK /\ LogsTypeOK /\ AccountsTypeOK /\ WorkerTypeOK /\ EventsTypeOK
  /\ ConsoleTypeOK /\ SessionTypeOK /\ RoutesTypeOK /\ RequestsTypeOK /\ ListTypeOK /\ PagerTypeOK
=============================================================================
