------------------------------ MODULE ListPage ------------------------------
(***************************************************************************)
(* The wallet list and the callback list of the portal: the partner and the  *)
(* status that are chosen, the query whose key they make up, the rows that    *)
(* are selected, and the bulk operation on them.  The partner is shared by    *)
(* all pages (config.partnerId); a page of a list is the pager's matter.      *)
(***************************************************************************)
EXTENDS Naturals, FiniteSets

CONSTANTS
  Tenants,      \* partners of the dropdown
  Records,      \* rows of the database, wallets or callbacks
  OwnerOf,      \* record -> its partner
  MaxTurns,     \* bound: steps of the operator
  MaxChanges,   \* bound: rows that change by themselves
  MaxFlights    \* bound: queries under way

VARIABLES
  screen,      \* the page that is open
  partner,     \* config.partnerId, or NoTenant before the partners have loaded
  choice,      \* filter.status, and xvalue of its dropdown
  selections,  \* rows selected, kept when the grid is gone
  state,       \* record -> its status
  queued,      \* wallets with a reclaim job
  cache,       \* query key -> rows, or NoRows
  flights,     \* queries under way
  bulk,        \* the bulk request under way, or NoBulk
  hit,         \* what the last step of a bulk request changed, or NoHit
  turns, changes
listVars == <<screen, partner, choice, selections, state, queued, cache, flights, bulk, hit, turns, changes>>

NoTenant == "undefined"
Screens == {"wallets", "callbacks"}
\* Two of the statuses of each list; a callback that waits for its retry is PENDING.
StatesOf(s) == IF s = "wallets" THEN {"ACTIVE", "SUSPENDED"} ELSE {"FAILED", "PENDING"}
Marked(s) == IF s = "wallets" THEN "ACTIVE" ELSE "FAILED"
ChoicesOf(s) == {"undefined", Marked(s)}

NoRows == [loaded |-> FALSE, rows |-> {}]
Loaded(rows) == [loaded |-> TRUE, rows |-> rows]
NoBulk == [partner |-> NoTenant, status |-> "undefined", ids |-> {}, shown |-> "undefined"]
NoHit == [rows |-> {}, was |-> {}, by |-> NoBulk]

\* The query keys; the one of the callback list lacks the partner.
KeyOf(s, p, status) == <<IF s = "wallets" THEN p ELSE NoTenant, status>>
CacheKeys == (Tenants \cup {NoTenant}) \X {"undefined", "ACTIVE", "FAILED"}
Key == KeyOf(screen, partner, choice.status)
Grid == cache[Key]    \* not loaded: isLoading, and TxLoading is in its place

ListInit ==
  /\ screen \in Screens
  /\ partner = NoTenant
  /\ choice = [status |-> "undefined", xvalue |-> "undefined"]
  /\ selections = {}
  /\ state = [r \in Records |-> Marked(screen)]
  /\ queued = {}
  /\ cache = [k \in CacheKeys |-> NoRows]
  /\ flights = {}
  /\ bulk = NoBulk /\ hit = NoHit
  /\ turns = 0 /\ changes = 0

Turn == turns < MaxTurns /\ turns' = turns + 1 /\ hit' = NoHit

\* usePartners: the first partner, when none is chosen yet.
PartnersLoaded ==
  /\ partner = NoTenant
  /\ \E p \in Tenants : partner' = p
  /\ hit' = NoHit
  /\ UNCHANGED <<screen, choice, selections, state, queued, cache, flights, bulk, turns, changes>>

ChoosePartner(p) ==
  /\ Turn
  /\ partner \notin {p, NoTenant}
  /\ partner' = p
  /\ UNCHANGED <<screen, choice, selections, state, queued, cache, flights, bulk, changes>>

\* The status dropdown: an item that is checked is not chosen again; the
\* dropdown keeps the value itself, and onChangeValue hands it to the filter.
HdChange(v) == v # choice.xvalue /\ choice' = [status |-> v, xvalue |-> v]
ChooseStatus ==
  /\ Turn
  /\ \E v \in ChoicesOf(screen) : HdChange(v)
  /\ UNCHANGED <<screen, partner, selections, state, queued, cache, flights, bulk, changes>>

\* onSelectionChanged of the grid, which is there only when it has loaded.
SelectRows ==
  /\ Turn
  /\ Grid.loaded
  /\ \E S \in SUBSET Grid.rows : selections' = S /\ S # selections
  /\ UNCHANGED <<screen, partner, choice, state, queued, cache, flights, bulk, changes>>

\* Another page and back: the state of the page is new, the cache is not.
Reopen ==
  /\ Turn
  /\ choice' = [status |-> "undefined", xvalue |-> "undefined"]
  /\ selections' = {}
  /\ UNCHANGED <<screen, partner, state, queued, cache, flights, bulk, changes>>

-----------------------------------------------------------------------------
(* Queries *)

\* Mutant of FetchRows: without refetchInterval, only what is not there is fetched.
FetchRowsOnce ==
  /\ partner # NoTenant
  /\ ~Grid.loaded
  /\ \A f \in flights : f.key # Key
  /\ Cardinality(flights) < MaxFlights
  /\ flights' = flights \cup {[key |-> Key, partner |-> partner, status |-> choice.status]}
  /\ hit' = NoHit
  /\ UNCHANGED <<screen, partner, choice, selections, state, queued, cache, bulk, turns, changes>>

\* A key without rows, the page mounting, the interval: a query is started with
\* the partner of this render; one that is under way is waited for.
FetchRows ==
  /\ partner # NoTenant
  /\ \A f \in flights : f.key # Key
  /\ Cardinality(flights) < MaxFlights
  /\ flights' = flights \cup {[key |-> Key, partner |-> partner, status |-> choice.status]}
  /\ hit' = NoHit
  /\ UNCHANGED <<screen, partner, choice, selections, state, queued, cache, bulk, turns, changes>>

\* findAll of the wallet and the callback repository.
FindAll(p, status) == {r \in Records : OwnerOf[r] = p /\ status \in {"undefined", state[r]}}

\* New rows in the grid may take its selection with them, equal ones do not.
Arrive(f) ==
  LET rows == FindAll(f.partner, f.status) IN
  /\ cache' = [cache EXCEPT ![f.key] = Loaded(rows)]
  /\ selections' \in IF f.key = Key /\ Grid.loaded /\ Grid.rows # rows THEN {selections, {}} ELSE {selections}
  /\ flights' = flights \ {f}
  /\ hit' = NoHit
  /\ UNCHANGED <<screen, partner, choice, state, queued, bulk, turns, changes>>

-----------------------------------------------------------------------------
(* Bulk operations *)

Ask(ids) ==
  /\ bulk = NoBulk /\ partner # NoTenant
  /\ bulk' = [partner |-> partner, status |-> choice.status, ids |-> ids, shown |-> choice.xvalue]
  /\ UNCHANGED <<screen, partner, choice, selections, state, queued, cache, flights, changes>>

\* The list of ids is dropped when it is empty: all wallets of the filter.
HdSweepAssets == Turn /\ screen = "wallets" /\ Ask(selections)
HdCallbackRetryIds == Turn /\ screen = "callbacks" /\ selections # {} /\ Ask(selections)

\* Mutant of Among: the ids say enough.
AmongSelected(b, r) == IF b.ids = {} THEN OwnerOf[r] = b.partner ELSE r \in b.ids

\* partnerId and ids of both statements.
Among(b, r) == OwnerOf[r] = b.partner /\ (b.ids = {} \/ r \in b.ids)

Hits(rows) == hit' = [rows |-> rows, was |-> {state[r] : r \in rows}, by |-> bulk]
CreateReclaimJobsAll ==
  LET rows == {r \in Records \ queued : Among(bulk, r) /\ bulk.status \in {"undefined", state[r]}} IN
  /\ screen = "wallets" /\ bulk # NoBulk
  /\ queued' = queued \cup rows
  /\ Hits(rows)
  /\ bulk' = NoBulk
  /\ UNCHANGED <<screen, partner, choice, selections, state, cache, flights, turns, changes>>

RetryFailedIds ==
  LET rows == {r \in Records : Among(bulk, r) /\ state[r] = "FAILED"} IN
  /\ screen = "callbacks" /\ bulk # NoBulk
  /\ state' = [r \in Records |-> IF r \in rows THEN "PENDING" ELSE state[r]]
  /\ Hits(rows)
  /\ bulk' = NoBulk
  /\ UNCHANGED <<screen, partner, choice, selections, queued, cache, flights, turns, changes>>

\* The workers, and other members, change the rows meanwhile.
RowChanges ==
  /\ changes < MaxChanges
  /\ changes' = changes + 1
  /\ \/ \E r \in Records, s \in StatesOf(screen) : s # state[r] /\ state' = [state EXCEPT ![r] = s] /\ UNCHANGED queued
     \/ \E r \in queued : queued' = queued \ {r} /\ UNCHANGED state
  /\ hit' = NoHit
  /\ UNCHANGED <<screen, partner, choice, selections, cache, flights, bulk, turns>>

Operator ==
  \/ \E p \in Tenants : ChoosePartner(p)
  \/ ChooseStatus \/ SelectRows \/ Reopen \/ HdSweepAssets \/ HdCallbackRetryIds
Arrives == \E f \in flights : Arrive(f)

ListNext == PartnersLoaded \/ Operator \/ FetchRows \/ Arrives \/ CreateReclaimJobsAll \/ RetryFailedIds \/ RowChanges
ListSpec == ListInit /\ [][ListNext]_listVars /\ WF_listVars(FetchRows) /\ WF_listVars(Arrives)

-----------------------------------------------------------------------------
ListTypeOK ==
  /\ screen \in Screens
  /\ partner \in Tenants \cup {NoTenant}
  /\ choice \in [status : ChoicesOf(screen), xvalue : ChoicesOf(screen)]
  /\ selections \subseteq Records /\ queued \subseteq Records
  /\ state \in [Records -> StatesOf(screen)]
  /\ cache \in [CacheKeys -> [loaded : BOOLEAN, rows : SUBSET Records]]
  /\ \A f \in flights : f.key \in CacheKeys /\ f.partner \in Tenants
  /\ bulk.partner \in Tenants \cup {NoTenant} /\ bulk.ids \subseteq Records

\* Whatever has become of the selection meanwhile (the grid it was made in may be
\* gone, and its rows another partner's), a bulk request changes rows of the
\* partner that was on the screen when it was asked for, and only: selected ones
\* when there was a selection; of the status the dropdown showed, for wallets; and
\* failed ones, for callbacks.
BulkStaysWithPartner ==
  \A r \in hit.rows :
    /\ OwnerOf[r] = hit.by.partner
    /\ hit.by.ids # {} => r \in hit.by.ids
    /\ IF screen = "wallets" THEN hit.by.shown = "undefined" \/ hit.was = {hit.by.shown} ELSE hit.was = {"FAILED"}

\* A partner that stays chosen has its rows on the screen in the end, with a query
\* key that knows the partner as with one that does not.
ListFollowsPartner ==
  \A p \in Tenants :
    partner = p ~> (partner # p \/ (Grid.loaded /\ \A r \in Grid.rows : OwnerOf[r] = p))
=============================================================================
