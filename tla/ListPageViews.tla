---------------------------- MODULE ListPageViews ----------------------------
(***************************************************************************)
(* What the list pages render for the state of their queries: the home     *)
(* page (src/ui/src/modules/home/home-page.tsx), the queries history       *)
(* (queries-history-page.tsx), the volumes page and the tables page, and   *)
(* the DataTable they render into (components/data-table/data-table.tsx).  *)
(* Each query is a react-query entry: status pending/success/error, a      *)
(* fetch in flight or not, and its data, abstracted to an empty or a       *)
(* non-empty list.  Pages mount their observers when the user goes to      *)
(* them (a mount refetches at staleTime 0) and leave them when the user    *)
(* goes elsewhere (the generated queryFn consumes the abort signal, so the *)
(* fetch is cancelled and the entry reverted).                             *)
(***************************************************************************)
EXTENDS Naturals

Pages == {"home", "queriesHistory", "volumes", "tables"}
Keys == {"worksheets", "dashboard", "queries", "volumes", "tables"}
NoData == "undefined"
Lists == {"empty", "items"}   \* items: [] or a non-empty list
Statuses == {"pending", "success", "error"}

\* The queries whose observers a page mounts.
Observed(p) ==
    CASE p = "home"           -> {"worksheets", "dashboard"}
      [] p = "queriesHistory" -> {"queries"}
      [] p = "volumes"        -> {"volumes"}
      [] p = "tables"         -> {"tables"}

\* The list a page shows in its table.
ListOf(p) ==
    CASE p = "home"           -> "worksheets"
      [] p = "queriesHistory" -> "queries"
      [] p = "volumes"        -> "volumes"
      [] p = "tables"         -> "tables"

VARIABLES
    page,  \* the page the router shows
    q      \* the react-query entry of each key

vars == <<page, q>>

Entry == [status : Statuses, fetching : BOOLEAN, data : Lists \cup {NoData},
          before : Statuses]

TypeOK ==
    /\ page \in Pages
    /\ q \in [Keys -> Entry]

(* isLoading: the first fetch of a key with no data is in flight.          *)
isLoading(k) == q[k].status = "pending" /\ q[k].fetching
isFetching(k) == q[k].fetching

(* The body of a DataTable (lines 43-91): its rows, then the nine skeleton *)
(* rows of DataTableLoadingRows when isLoading is set (line 87).           *)
DataTableBody(list, loading) ==
    (IF list = "items" THEN {"rows"} ELSE {}) \cup (IF loading THEN {"skeleton"} ELSE {})

V(panel, body) == [panel |-> panel, body |-> body]

(* HomePage (lines 14-70): nothing until the dashboard has data; then the  *)
(* worksheets table if the list is non-empty, else "No SQL Worksheets      *)
(* Created Yet".                                                           *)
HomeView ==
    LET ws == q["worksheets"].data IN
    IF q["dashboard"].data = NoData THEN V("blank", {})
    ELSE IF ws = "items" THEN V("table", DataTableBody(ws, isLoading("worksheets")))
    ELSE V("empty", {})

(* QueriesHistoryPage (lines 10-37): the table, loading while fetching, if *)
(* the list is non-empty, else "No Queries Found".                         *)
QueriesHistoryView ==
    LET qs == q["queries"].data IN
    IF qs = "items" THEN V("table", DataTableBody(qs, isFetching("queries")))
    ELSE V("empty", {})

\* Mutant: the volumes page's empty-state test without `!isLoadingVolumes`.
VolumesViewNoLoadingCheck ==
    LET vs == q["volumes"].data IN
    IF vs # "items" THEN V("empty", {})
    ELSE V("table", DataTableBody(vs, isLoading("volumes")))

(* VolumesPage (lines 48-59): "No Volumes Found" only when the list is     *)
(* empty or absent and not loading, else the table (volumes ?? []).        *)
VolumesView ==
    LET vs == q["volumes"].data IN
    IF vs # "items" /\ ~isLoading("volumes") THEN V("empty", {})
    ELSE V("table", DataTableBody(vs, isLoading("volumes")))

\* Mutant: the tables page's table told it is loading only while fetching.
TablesViewFetchingFlag ==
    LET ts == q["tables"].data IN
    IF ts # "items" /\ ~isLoading("tables") THEN V("empty", {})
    ELSE V("table", DataTableBody(ts, isFetching("tables") /\ ts = "items"))

(* TablesPage (lines 103-119): the same test for "No Tables Found".        *)
TablesView ==
    LET ts == q["tables"].data IN
    IF ts # "items" /\ ~isLoading("tables") THEN V("empty", {})
    ELSE V("table", DataTableBody(ts, isLoading("tables")))

View(p) ==
    CASE p = "home"           -> HomeView
      [] p = "queriesHistory" -> QueriesHistoryView
      [] p = "volumes"        -> VolumesView
      [] p = "tables"         -> TablesView

(* A fetch starts: an entry without data goes back to pending.             *)
StartFetch(e) ==
    [e EXCEPT !.fetching = TRUE, !.before = e.status,
              !.status = IF e.data = NoData THEN "pending" ELSE @]

(* The last observer leaves: the fetch is cancelled and the entry reverts. *)
CancelFetch(e) ==
    IF e.fetching THEN [e EXCEPT !.fetching = FALSE, !.status = e.before] ELSE e

Init ==
    /\ page \in Pages
    /\ q = [k \in Keys |->
              LET e == [status |-> "pending", fetching |-> FALSE, data |-> NoData,
                        before |-> "pending"]
              IN  IF k \in Observed(page) THEN StartFetch(e) ELSE e]

(* The user goes to another page: its observers mount and refetch, the     *)
(* old page's observers leave.                                             *)
Navigate(p) ==
    /\ p # page
    /\ page' = p
    /\ q' = [k \in Keys |->
               IF k \in Observed(p) THEN StartFetch(q[k])
               ELSE IF k \in Observed(page) THEN CancelFetch(q[k])
               ELSE q[k]]

(* The refresh button of the volumes and tables toolbars: refetch(), which *)
(* restarts a fetch in flight.                                             *)
Refetch ==
    /\ page \in {"volumes", "tables"}
    /\ q' = [q EXCEPT ![ListOf(page)] = StartFetch(@)]
    /\ UNCHANGED page

(* A fetch answers with a list.                                            *)
FetchSucceeds(k, list) ==
    /\ q[k].fetching
    /\ q' = [q EXCEPT ![k] = [@ EXCEPT !.status = "success", !.fetching = FALSE,
                                       !.data = list]]
    /\ UNCHANGED page

(* A fetch fails after its retries: error status, previous data kept.      *)
FetchFails(k) ==
    /\ q[k].fetching
    /\ q' = [q EXCEPT ![k] = [@ EXCEPT !.status = "error", !.fetching = FALSE]]
    /\ UNCHANGED page

Next ==
    \/ \E p \in Pages : Navigate(p)
    \/ Refetch
    \/ \E k \in Keys : FetchFails(k) \/ \E l \in Lists : FetchSucceeds(k, l)

Spec == Init /\ [][Next]_vars

-----------------------------------------------------------------------------

(* While the first fetch of the list a page shows is in flight, the page   *)
(* shows the table with its skeleton rows, never the "No ... Found" empty  *)
(* state: spec 4.2, isLoading lets views tell the "empty skeleton" from    *)
(* data.  The same entry passes through pending again when a refetch      *)
(* follows an error, and the lists are shared between pages.              *)
LoadingShowsSkeleton(p) ==
    (page = p /\ isLoading(ListOf(p))) =>
        /\ View(p).panel = "table"
        /\ "skeleton" \in View(p).body

(* A page shows its "No ... Found" panel only for a list the server has    *)
(* answered as empty, or whose fetch has failed: never for an entry that  *)
(* is pending, whether first loaded, refetched after an error, or         *)
(* reverted by a fetch cancelled when the user left the page.             *)
EmptyStateMeansAnswered(p) ==
    (page = p /\ View(p).panel = "empty") =>
        \/ q[ListOf(p)].data = "empty"
        \/ q[ListOf(p)].status = "error"

\* The volumes and tables pages show what the server has said of their list.
VolumesShowsServerAnswer ==
    LoadingShowsSkeleton("volumes") /\ EmptyStateMeansAnswered("volumes")
TablesShowsServerAnswer ==
    LoadingShowsSkeleton("tables") /\ EmptyStateMeansAnswered("tables")

(* The same for the home page, once it renders at all, and for the        *)
(* queries history.                                                        *)
HomeAndHistoryLoadingShowSkeleton ==
    /\ LoadingShowsSkeleton("home") \/ HomeView.panel = "blank"
    /\ LoadingShowsSkeleton("queriesHistory")

(* When the home page's dashboard query has failed and nothing is fetching *)
(* it again, the home page is not blank (spec 7: persistent absence of     *)
(* data shows an empty-state panel rather than a blank screen).            *)
HomeNeverBlankAfterFailure ==
    (page = "home" /\ q["dashboard"].status = "error" /\ ~q["dashboard"].fetching)
        => HomeView.panel # "blank"

=============================================================================
