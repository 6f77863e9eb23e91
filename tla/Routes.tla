------------------------------- MODULE Routes -------------------------------
(***************************************************************************)
(* The portal's route tree, and the three readings of it: the routes that   *)
(* are registered with React Router, the menu of a role, and the node that  *)
(* is found for a URL.  A path is the sequence of its segments.             *)
(***************************************************************************)
EXTENDS Naturals, Sequences

CONSTANT MaxClicks   \* bound: steps of the operator

Staff == {"OWNER", "OPERATOR"}
Roles == Staff \cup {"DEVELOPER"}

\* A node in its place: depth in the tree, path, absolute or not.  NoPath is an
\* index route.
NoPath == <<"undefined">>
Node(depth, path, roles) ==
  [depth |-> depth, path |-> path, absolute |-> TRUE, on |-> TRUE, hidden |-> FALSE,
   roles |-> roles, index |-> FALSE]
Hidden(n) == [n EXCEPT !.hidden = TRUE]
Off(n) == [n EXCEPT !.on = FALSE]
Relative(n) == [n EXCEPT !.absolute = FALSE]
Index(depth) == [Relative(Node(depth, NoPath, {})) EXCEPT !.index = TRUE]

Doc(name) == <<"documents", name>>
Sys(name) == <<"documents", "system", name>>
DeveloperRoutes == <<
  Hidden(Node(1, <<>>, Roles)),
    Index(2), Node(2, <<"dashboard">>, Roles), Node(2, <<"partners">>, Roles),
    Node(2, <<"users">>, Roles), Node(2, <<"wallets">>, Roles), Node(2, <<"deposits">>, Roles),
    Node(2, <<"callbacks">>, Roles), Node(2, <<"sweeps">>, Roles),
    Relative(Node(2, <<"documents">>, Roles)),
      Node(3, Doc("api-guide"), Roles), Node(3, Doc("api-swagger"), Roles),
      Node(3, Doc("dataModel"), Roles), Node(3, Doc("console"), Roles),
    Node(2, Doc("system"), Roles),
      Node(3, Sys("overview"), Roles), Off(Node(3, Sys("architecture"), Roles)),
      Node(3, Sys("flow"), Roles), Off(Node(3, Sys("domains"), Roles)),
      Node(3, Sys("security"), Roles),
    Off(Relative(Node(2, <<"demo">>, Roles))),
      Node(3, <<"demo", "deposit-test">>, Roles) >>

Adm(name) == <<"admin", name>>
ADoc(name) == <<"admin", "documents", name>>
ASys(name) == <<"admin", "documents", "system", name>>
AdminRoutes == <<
  Hidden(Node(1, <<"admin">>, Staff)),
    Index(2), Node(2, Adm("dashboard"), Staff), Node(2, Adm("members"), {"OWNER"}),
    Node(2, Adm("partners"), Staff), Node(2, Adm("users"), Staff), Node(2, Adm("wallets"), Staff),
    Node(2, Adm("deposits"), Staff), Off(Node(2, Adm("withdrawals"), Staff)),
    Off(Node(2, Adm("balances"), Staff)), Node(2, Adm("callbacks"), Staff),
    Node(2, Adm("sweeps"), Staff), Off(Node(2, Adm("blockchain"), Staff)),
      Node(3, <<"admin", "blockchain", "thot">>, Staff),
      Node(3, <<"admin", "blockchain", "watcher">>, Staff),
    Node(2, Adm("documents"), Staff),
      Node(3, ADoc("api-swagger"), Staff), Node(3, ADoc("dataModel"), Staff),
      Node(3, ADoc("system"), Staff),
        Node(4, ASys("overview"), Staff), Node(4, ASys("architecture"), Staff),
        Node(4, ASys("flow"), Staff), Node(4, ASys("domains"), Staff),
        Node(4, ASys("security"), Staff),
      Node(3, ADoc("openai"), {"OWNER"}),
    Node(2, Adm("system"), Staff),
      Node(3, <<"admin", "system", "exception-logs">>, Staff),
      Node(3, <<"admin", "system", "monitoring">>, Staff),
      Node(3, <<"admin", "system", "audit-logs">>, Staff) >>

\* LoginPage, DeveloperPage, AdminPage; the wildcard of NotFoundPage is what no
\* node stands for.
RouteTree == <<Hidden(Node(1, <<"login">>, Roles))>> \o DeveloperRoutes \o AdminRoutes
Nodes == 1..Len(RouteTree)
NotFound == 0

\* The nearest node above i that is one step less deep; 0 is the root.
Parent == [i \in Nodes |->
  IF RouteTree[i].depth = 1 THEN 0
  ELSE CHOOSE k \in 1..(i - 1) :
         /\ RouteTree[k].depth < RouteTree[i].depth
         /\ \A m \in (k + 1)..(i - 1) : RouteTree[m].depth >= RouteTree[i].depth]
Children(i) == {k \in Nodes : Parent[k] = i}

\* normalizePath.
NormalizePath(parent, n) == IF n.absolute THEN n.path ELSE parent \o n.path

FullPath[i \in Nodes \cup {0}] ==
  IF i = 0 THEN <<>> ELSE NormalizePath(FullPath[Parent[i]], RouteTree[i])

\* findRouteNode: the first node in the order of the tree.
FindRouteNode(path) ==
  IF \E i \in Nodes : FullPath[i] = path
    THEN CHOOSE i \in Nodes : FullPath[i] = path /\ \A k \in 1..(i - 1) : FullPath[k] # path
    ELSE NotFound

\* buildRouteObjects: a node that is off goes with all below it.
Registered[i \in Nodes \cup {0}] == i = 0 \/ (RouteTree[i].on /\ Registered[Parent[i]])

\* What React Router shows for a URL, an absolute path being its own; an index
\* route stands at its parent's.
Shown(path) ==
  LET at(i) == IF RouteTree[i].index THEN FullPath[Parent[i]]
               ELSE IF RouteTree[i].absolute THEN RouteTree[i].path ELSE FullPath[i]
      hits == {i \in Nodes : Registered[i] /\ at(i) = path} IN
  IF \E i \in hits : RouteTree[i].index THEN CHOOSE i \in hits : RouteTree[i].index
  ELSE IF hits = {} THEN NotFound ELSE CHOOSE i \in hits : TRUE

\* Mutant of Passes: enabled is left to the router.
PassesDisabled(i, role) ==
  LET n == RouteTree[i] IN ~n.index /\ ~n.hidden /\ role \in n.roles

\* The filters of getNavigableRoutes.
Passes(i, role) ==
  LET n == RouteTree[i] IN ~n.index /\ n.on /\ ~n.hidden /\ role \in n.roles

\* A menu below the node top: a node without any child that passes keeps all of them.
Menu(top, role) ==
  LET kept(i) == ~\E k \in Children(Parent[i]) : Passes(k, role)
      raw[i \in Nodes] == Parent[i] \notin {0, top} /\ (raw[Parent[i]] \/ kept(i))
      in[i \in Nodes] == \/ Parent[i] = top /\ Passes(i, role)
                         \/ Parent[i] # 0 /\ in[Parent[i]] /\ (raw[i] \/ Passes(i, role))
  IN {i \in Nodes : in[i]}

----------------------------------------------------------------------------
(* The sidebar *)

VARIABLES
  role,      \* of the session
  tab,       \* the tree the menu shows: a node of depth 1
  location,  \* the URL
  clicked,   \* history: the menu item that led here, or NotFound
  clicks

routeVars == <<role, tab, location, clicked, clicks>>

\* useCurrentRouteNode.
CurrentNode == FindRouteNode(location)

Top(path) == CHOOSE i \in Nodes : RouteTree[i].depth = 1 /\ RouteTree[i].path = path

RoutesTypeOK ==
  /\ role \in Roles /\ tab \in {Top(<<>>), Top(<<"admin">>)}
  /\ location \in Seq(STRING) /\ clicked \in Nodes \cup {NotFound} /\ clicks \in 0..MaxClicks

RoutesInit ==
  /\ role \in Roles
  /\ tab = IF role = "DEVELOPER" THEN Top(<<>>) ELSE Top(<<"admin">>)
  /\ location = <<>> /\ clicked = NotFound /\ clicks = 0

Count == clicks < MaxClicks /\ clicks' = clicks + 1

\* SidebarItem: an item without children is a link.
ClickItem(i) ==
  /\ Count
  /\ i \in Menu(tab, role) /\ Children(i) \cap Menu(tab, role) = {}
  /\ location' = RouteTree[i].path /\ clicked' = i
  /\ UNCHANGED <<role, tab>>

\* AdminSidebar.hdChangeTab.
ChangeTab(i) ==
  /\ Count
  /\ role \in Staff /\ i # tab
  /\ tab' = i /\ location' = RouteTree[i].path /\ clicked' = NotFound
  /\ UNCHANGED role

\* The index routes are redirections to the dashboards.
Redirect ==
  /\ location \in {<<>>, <<"admin">>}
  /\ location' = Append(location, "dashboard")
  /\ UNCHANGED <<role, tab, clicked, clicks>>

RoutesNext ==
  \/ \E i \in Nodes : ClickItem(i)
  \/ \E i \in {Top(<<>>), Top(<<"admin">>)} : ChangeTab(i)
  \/ Redirect

RoutesSpec == RoutesInit /\ [][RoutesNext]_routeVars
----------------------------------------------------------------------------
(* Properties *)

\* The three readings of the tree agree wherever an operator can get by the
\* sidebar: a link shows the page it names, to a role that may see it and its
\* group, and useCurrentRouteNode finds the node of the page that is shown.
LinksLead ==
  /\ clicked # NotFound =>
       /\ Shown(location) = clicked
       /\ role \in RouteTree[clicked].roles /\ role \in RouteTree[Parent[clicked]].roles
  /\ location \notin {<<>>, <<"admin">>} =>
       Shown(location) # NotFound /\ CurrentNode = Shown(location)
=============================================================================
