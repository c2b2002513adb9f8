--------------------------- MODULE DebouncedSearch ---------------------------
(***************************************************************************)
(* The debounced list search of the volumes page                           *)
(* (src/ui/src/modules/volumes/volumes-page.tsx) and of the tables page    *)
(* (modules/tables/tables-page.tsx, 300 ms), whose url also carries the    *)
(* route's databaseName and schemaName: the volumes page is the case of a  *)
(* single route.  The raw input feeds useDebounce; the debounced value is  *)
(* the params of the generated list query, whose key is [url, params]      *)
(* (the orval template, navigation-trees.ts lines 42-43).  A query that    *)
(* loses its last observer has its fetch cancelled, because the generated  *)
(* queryFn consumes the abort signal (navigation-trees.ts lines 172-173).  *)
(* A fetch answers with the list for the url and params it was sent with;  *)
(* the list is represented by that pair.                                   *)
(***************************************************************************)
EXTENDS Naturals

CONSTANTS
    Routes,       \* database/schema route params the page can be shown with
    Terms,        \* search strings the user may type
    EmptySearch,  \* useState('')
    NoData        \* the cache entry holds no list

ASSUME EmptySearch \in Terms /\ NoData \notin Routes \X Terms /\ Routes # {}

VARIABLES
    route,      \* useParams: the route the mounted page shows
    search,     \* useState: the raw input
    timers,     \* pending setTimeout callbacks of useDebounce, by value
    debounced,  \* useDebounce's state: the effective search value
    cache       \* react-query entry of each key: data, fetching, params sent

vars == <<route, search, timers, debounced, cache>>

\* Mutant: a hand-written key that leaves the params out.
QueryKeyNoParams(r, t) == <<r, EmptySearch>>

\* Mutant: a key with a fixed url, without the route's database and schema.
QueryKeyNoRoute(r, t) == <<CHOOSE r0 \in Routes : TRUE, t>>

(* getGetTablesQueryKey(databaseName, schemaName, params): the url, built  *)
(* from the route, and the params.                                         *)
QueryKey(r, t) == <<r, t>>

Keys == Routes \X Terms

Entry == [data : Keys \cup {NoData}, fetching : BOOLEAN, params : Keys]

TypeOK ==
    /\ route \in Routes
    /\ search \in Terms
    /\ timers \subseteq Terms
    /\ debounced \in Terms
    /\ cache \in [Keys -> Entry]

\* Start (or restart) the fetch of key k for route r and params t.
Fetch(c, k, r, t) == [c EXCEPT ![k].fetching = TRUE, ![k].params = <<r, t>>]

Init ==
    /\ route \in Routes
    /\ search = EmptySearch
    /\ timers = {}
    /\ debounced = EmptySearch
    /\ cache = Fetch([k \in Keys |-> [data |-> NoData, fetching |-> FALSE,
                                      params |-> k]],
                     QueryKey(route, EmptySearch), route, EmptySearch)

\* Mutant: useDebounce whose effect does not clear the previous timeout.
TypeNoCleanup(t) ==
    /\ t # search
    /\ search' = t
    /\ timers' = timers \cup {t}
    /\ UNCHANGED <<route, debounced, cache>>

(* onSetSearch: the input changes; useDebounce's effect clears the pending *)
(* timeout and schedules one for the new value.                            *)
Type(t) ==
    /\ t # search
    /\ search' = t
    /\ timers' = {t}
    /\ UNCHANGED <<route, debounced, cache>>

(***************************************************************************)
(* The timeout fires and sets the debounced value.  The re-render hands    *)
(* useGetVolumes({search}) its new params: if the key changed, the old     *)
(* query loses its observer and its fetch is cancelled (state reverted),   *)
(* and the new key, stale at staleTime 0, is fetched.                      *)
(***************************************************************************)
TimerFires(t) ==
    LET old == QueryKey(route, debounced)
        new == QueryKey(route, t)
        left == IF old # new THEN [cache EXCEPT ![old].fetching = FALSE] ELSE cache
    IN  /\ t \in timers
        /\ timers' = timers \ {t}
        /\ debounced' = t
        /\ cache' = IF old # new THEN Fetch(left, new, route, t) ELSE left
        /\ UNCHANGED <<route, search>>

(* The refresh button: refetch() of the current key, which cancels a       *)
(* fetch in flight and starts again with the current params.               *)
Refetch ==
    /\ cache' = Fetch(cache, QueryKey(route, debounced), route, debounced)
    /\ UNCHANGED <<route, search, timers, debounced>>

(***************************************************************************)
(* The user picks another schema in the tree: the router shows the same    *)
(* route pattern with new params, so TablesPage stays mounted and keeps    *)
(* its search box and pending timeout; useGetTables re-renders with the    *)
(* new databaseName/schemaName, the old key loses its observer (fetch      *)
(* cancelled) and the new one, stale, is fetched.                          *)
(***************************************************************************)
ChangeSchema(r) ==
    LET old == QueryKey(route, debounced)
        new == QueryKey(r, debounced)
        left == IF old # new THEN [cache EXCEPT ![old].fetching = FALSE] ELSE cache
    IN  /\ r # route
        /\ route' = r
        /\ cache' = IF old # new THEN Fetch(left, new, r, debounced) ELSE left
        /\ UNCHANGED <<search, timers, debounced>>

(* A fetch of key k answers: the list for its params, or an error that     *)
(* keeps the previous data.                                                *)
FetchSettles(k) ==
    /\ cache[k].fetching
    /\ \E ok \in BOOLEAN :
         cache' = [cache EXCEPT ![k].fetching = FALSE,
                                ![k].data = IF ok THEN cache[k].params ELSE @]
    /\ UNCHANGED <<route, search, timers, debounced>>

Next ==
    \/ \E t \in Terms : Type(t) \/ TimerFires(t)
    \/ Refetch
    \/ \E r \in Routes : ChangeSchema(r)
    \/ \E k \in Keys : FetchSettles(k)

Spec == Init /\ [][Next]_vars

-----------------------------------------------------------------------------

\* The list the page renders: the data of the key of its route and search.
Shown == cache[QueryKey(route, debounced)].data

(* Once typing has stopped (no debounce timeout pending) and the visible   *)
(* query is not fetching, the list on screen, if any, is the list of the  *)
(* schema the route shows for the text in the search box: no superseded    *)
(* keystroke's timeout or response, and no schema left while its fetch or *)
(* a timeout was pending, decides what is shown (spec 4.4 and 9).          *)
SettledListMatchesInput ==
    (timers = {} /\ ~cache[QueryKey(route, debounced)].fetching)
        => Shown \in {<<route, search>>, NoData}


=============================================================================
