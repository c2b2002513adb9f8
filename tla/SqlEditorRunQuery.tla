------------------------- MODULE SqlEditorRunQuery -------------------------
(***************************************************************************)
(* Running a query from the SQL editor's centre panel                      *)
(* (src/ui/src/modules/sql-editor/sql-editor-center-panel/                 *)
(*  sql-editor-center-panel.tsx).                                          *)
(*                                                                         *)
(* handleRunQuery fires the useCreateQuery mutation.  When the request     *)
(* settles, the hook-level onSettled handler opens the right panel if the  *)
(* render it closes over saw it collapsed, invalidates the queries,        *)
(* dashboard and navigation-trees cache keys, awaits their refetch, and    *)
(* stores the new query record as the selected record of the worksheet    *)
(* its closure names.                                                      *)
(*                                                                         *)
(* What a handler reads comes from the render it was created in: `view` is *)
(* the snapshot of the last render.  The mutation observer gives its       *)
(* current (latest) mutation the options of every new render, so only     *)
(* that run's closure follows `view`; a superseded run keeps the closure   *)
(* of the last render while it was current.                                *)
(***************************************************************************)
EXTENDS Naturals, FiniteSets

CONSTANTS
    Worksheets,    \* worksheet ids reachable as /sql-editor/$worksheetId
    MaxRuns,       \* bound on the number of queries run in one behaviour
    ObservedKeys,  \* invalidated keys the editor's own observers refetch
    AwayPages      \* pages shown instead of the editor (see PageObserved)

Keys == {"queries", "dashboard", "navigationTrees"}

ASSUME /\ MaxRuns \in Nat \ {0}
       /\ ObservedKeys \subseteq Keys
       /\ AwayPages \subseteq {"home", "queriesHistory", "other"}
       /\ Worksheets # {}

RunIds == 1..MaxRuns

\* The store holds no record for a worksheet.
NoRecord == 0

Phases == {"unsent", "inflight", "handled", "awaiting", "done"}

(* The pages the router can show instead of the editor, by the invalidated *)
(* keys they observe: the home page reads the dashboard (home-page.tsx     *)
(* line 16), the queries history the queries list (queries-history-page   *)
(* line 11), the volumes and tables pages none of the three.               *)
Pages == AwayPages \cup {"editor"}

PageObserved(p) ==
    CASE p = "editor"         -> ObservedKeys
      [] p = "home"           -> {"dashboard"}
      [] p = "queriesHistory" -> {"queries"}
      [] p = "other"          -> {}

VARIABLES
    page,                 \* the page the router shows; the panel is mounted on "editor"
    worksheetId,          \* the $worksheetId route parameter of the mounted panel
    rightPanelExpanded,   \* the right panel's expanded flag (panels state provider)
    selectedQueryRecord,  \* settings store: worksheet -> selected query record id
    view,                 \* what the last render read: worksheetId, isRightPanelExpanded
    runs,                 \* the createQuery mutation of each run id
    current,              \* the observer's current mutation, 0 before the first run
    created,              \* server: ids of the query records created so far
    cache                 \* react-query cache entry of each invalidated key

vars == <<page, worksheetId, rightPanelExpanded, selectedQueryRecord, view, runs,
          current, created, cache>>

Closure == [worksheetId : Worksheets, isRightPanelExpanded : BOOLEAN]

Run == [phase : Phases, ok : BOOLEAN, ws : Worksheets, closure : Closure,
        awaits : SUBSET Keys]

Entry == [data : SUBSET RunIds, invalid : BOOLEAN, fetching : BOOLEAN]

TypeOK ==
    /\ page \in Pages
    /\ worksheetId \in Worksheets
    /\ rightPanelExpanded \in BOOLEAN
    /\ selectedQueryRecord \in [Worksheets -> RunIds \cup {NoRecord}]
    /\ view \in Closure
    /\ runs \in [RunIds -> Run]
    /\ current \in RunIds \cup {0}
    /\ created \subseteq RunIds
    /\ cache \in [Keys -> Entry]

Snapshot == [worksheetId |-> worksheetId, isRightPanelExpanded |-> rightPanelExpanded]

Init ==
    /\ page = "editor"
    /\ worksheetId \in Worksheets
    /\ rightPanelExpanded \in BOOLEAN
    /\ selectedQueryRecord = [w \in Worksheets |-> NoRecord]
    /\ view = Snapshot
    /\ runs = [n \in RunIds |-> [phase |-> "unsent", ok |-> FALSE, ws |-> worksheetId,
                                 closure |-> Snapshot, awaits |-> {}]]
    /\ current = 0
    /\ created = {}
    /\ cache = [k \in Keys |-> [data |-> {}, invalid |-> FALSE, fetching |-> FALSE]]

(* A user event only reaches a screen that shows the current state: React *)
(* renders the updates of one discrete event before handling the next.    *)
Rendered == view = Snapshot

\* The panel is mounted and shows the current state to the user.
Shown == page = "editor" /\ Rendered

(* The observer's current mutation whose onSettled has not been called    *)
(* yet: setOptions reaches its options, while an onSettled already running *)
(* keeps the closure it was called with.                                   *)
Pending(n) == n # 0 /\ runs[n].phase \in {"inflight", "handled"}

(***************************************************************************)
(* Component render (lines 23-38): reads the route parameter, the store    *)
(* and the panel state; useMutation then hands the new options, and so the *)
(* new closure, to the observer's current mutation.                        *)
(***************************************************************************)
Render ==
    /\ page = "editor"
    /\ ~Rendered
    /\ view' = Snapshot
    /\ runs' = IF Pending(current) THEN [runs EXCEPT ![current].closure = Snapshot]
               ELSE runs
    /\ UNCHANGED <<page, worksheetId, rightPanelExpanded, selectedQueryRecord,
                   current, created, cache>>

(* The user selects another open worksheet tab: the route parameter        *)
(* changes and the same panel instance stays mounted.                      *)
SwitchWorksheet(w) ==
    /\ Shown
    /\ w # worksheetId
    /\ worksheetId' = w
    /\ UNCHANGED <<page, rightPanelExpanded, selectedQueryRecord, view, runs, current,
                   created, cache>>

\* toggleRightPanel of the panels state provider flips the panel.
toggleRightPanel == ~rightPanelExpanded

(* The user collapses or expands the right panel by hand; the update of a  *)
(* click is rendered, and its effects flushed, before any other task.      *)
UserToggleRightPanel ==
    LET rendered == [view EXCEPT !.isRightPanelExpanded = toggleRightPanel]
    IN
    /\ Shown
    /\ rightPanelExpanded' = toggleRightPanel
    /\ view' = rendered
    /\ runs' = IF Pending(current) THEN [runs EXCEPT ![current].closure = rendered]
               ELSE runs
    /\ UNCHANGED <<page, worksheetId, selectedQueryRecord, current, created, cache>>

(***************************************************************************)
(* handleRunQuery (lines 73-84): mutate with the worksheet id of the       *)
(* render the click handler belongs to.  The run button is not disabled    *)
(* while a run is pending, so runs may overlap.                            *)
(***************************************************************************)
HandleRunQuery(n) ==
    /\ Shown
    /\ runs[n].phase = "unsent"
    /\ \A m \in 1..(n - 1) : runs[m].phase # "unsent"
    /\ runs' = [runs EXCEPT ![n] = [phase |-> "inflight", ok |-> FALSE,
                                    ws |-> view.worksheetId, closure |-> view,
                                    awaits |-> {}]]
    /\ current' = n
    /\ UNCHANGED <<page, worksheetId, rightPanelExpanded, selectedQueryRecord, view,
                   created, cache>>

(* The backend answers the POST: it creates the query record, or fails.    *)
ServerHandle(n) ==
    /\ runs[n].phase = "inflight"
    /\ \E ok \in BOOLEAN :
         /\ runs' = [runs EXCEPT ![n].phase = "handled", ![n].ok = ok]
         /\ created' = IF ok THEN created \cup {n} ELSE created
    /\ UNCHANGED <<page, worksheetId, rightPanelExpanded, selectedQueryRecord, view,
                   current, cache>>

(***************************************************************************)
(* invalidateQueries of one key: mark it invalid; if an observer is        *)
(* mounted, refetch it, cancelling a refetch already in flight.            *)
(***************************************************************************)
Invalidate(k) ==
    [cache[k] EXCEPT !.invalid = TRUE,
                     !.fetching = (k \in PageObserved(page)) \/ cache[k].fetching]

\* Mutant: one of the three invalidations left out.
InvalidatedKeysWithoutTree == {"queries", "dashboard"}

\* The three keys onSettled invalidates (lines 48-58).
InvalidatedKeys == {"queries", "dashboard", "navigationTrees"}

(***************************************************************************)
(* onSettled, up to its await (lines 44-58); runs on success and on error  *)
(* alike (onError, lines 63-69, only shows a toast).  The awaited promise  *)
(* of a refetch that a newer invalidation cancels resolves at once, so     *)
(* runs already awaiting a restarted key stop waiting for it.              *)
(***************************************************************************)
RunSettles(n) ==
    LET restarted == {k \in InvalidatedKeys \cap PageObserved(page) : cache[k].fetching}
    IN
    /\ runs[n].phase = "handled"
    /\ rightPanelExpanded' = IF runs[n].closure.isRightPanelExpanded
                             THEN rightPanelExpanded ELSE toggleRightPanel
    /\ cache' = [k \in Keys |-> IF k \in InvalidatedKeys THEN Invalidate(k) ELSE cache[k]]
    /\ runs' = [m \in RunIds |->
                  IF m = n
                  THEN [runs[m] EXCEPT !.phase = "awaiting",
                                       !.awaits = InvalidatedKeys \cap PageObserved(page)]
                  ELSE [runs[m] EXCEPT !.awaits = @ \ restarted]]
    /\ UNCHANGED <<page, worksheetId, selectedQueryRecord, view, current, created>>

(* A refetch of key k returns the server's records, or fails and keeps the *)
(* old data; either way the runs awaiting it go on.                        *)
FetchSettles(k) ==
    /\ cache[k].fetching
    /\ \/ cache' = [cache EXCEPT ![k] = [data |-> created, invalid |-> FALSE,
                                         fetching |-> FALSE]]
       \/ cache' = [cache EXCEPT ![k].fetching = FALSE]
    /\ runs' = [m \in RunIds |-> [runs[m] EXCEPT !.awaits = @ \ {k}]]
    /\ UNCHANGED <<page, worksheetId, rightPanelExpanded, selectedQueryRecord, view,
                   current, created>>

\* setSelectedQueryRecord(worksheetId, record) of the settings store.
setSelectedQueryRecord(w, r) == [selectedQueryRecord EXCEPT ![w] = r]

(* The record onSettled receives: the created record on success,          *)
(* undefined on failure.                                                   *)
Undefined == MaxRuns + 1   \* undefined: an id no run has
newQueryRecord(n) == IF runs[n].ok THEN n ELSE Undefined

\* Mutant: the `if (newQueryRecord)` check is dropped.
RunFinishesUnchecked(n) ==
    /\ runs[n].phase = "awaiting"
    /\ runs[n].awaits = {}
    /\ selectedQueryRecord' =
           setSelectedQueryRecord(runs[n].closure.worksheetId, newQueryRecord(n))
    /\ runs' = [runs EXCEPT ![n].phase = "done"]
    /\ UNCHANGED <<page, worksheetId, rightPanelExpanded, view, current, created, cache>>

(***************************************************************************)
(* onSettled after Promise.all (lines 59-61): a record came back only on   *)
(* success; it is stored under the worksheet id of the closure.            *)
(***************************************************************************)
RunFinishes(n) ==
    /\ runs[n].phase = "awaiting"
    /\ runs[n].awaits = {}
    /\ selectedQueryRecord' = IF newQueryRecord(n) # Undefined
                              THEN setSelectedQueryRecord(runs[n].closure.worksheetId,
                                                          newQueryRecord(n))
                              ELSE selectedQueryRecord
    /\ runs' = [runs EXCEPT ![n].phase = "done"]
    /\ UNCHANGED <<page, worksheetId, rightPanelExpanded, view, current, created, cache>>

(***************************************************************************)
(* Changing pages: the router swaps route components.  Observers of the    *)
(* new page mount and refetch (staleTime 0); those only the old page had   *)
(* leave, and their fetch is cancelled and reverted, which resolves an     *)
(* invalidateQueries awaiting it.  The useCreateQuery observer leaves with *)
(* the panel; a run in flight keeps the callbacks of its last render and   *)
(* still settles, and a remounted panel starts with no current mutation.   *)
(* The panel flags and the selected records live in stores, not in the    *)
(* panel, and are kept.                                                    *)
(***************************************************************************)
Remount(from, to) ==
    [k \in Keys |-> IF k \in to THEN [cache[k] EXCEPT !.fetching = TRUE]
                   ELSE IF k \in from \ to THEN [cache[k] EXCEPT !.fetching = FALSE]
                   ELSE cache[k]]

ReleaseCancelled(from, to) ==
    LET cancelled == {k \in from \ to : cache[k].fetching}
    IN  [m \in RunIds |-> [runs[m] EXCEPT !.awaits = @ \ cancelled]]

(* The user leaves the editor, or moves between other pages.               *)
Navigate(p) ==
    /\ page = "editor" => Rendered
    /\ p # page
    /\ page' = p
    /\ cache' = Remount(PageObserved(page), PageObserved(p))
    /\ runs' = ReleaseCancelled(PageObserved(page), PageObserved(p))
    /\ current' = 0
    /\ UNCHANGED <<worksheetId, rightPanelExpanded, selectedQueryRecord, view, created>>

(* The user opens /sql-editor/$worksheetId again: the panel mounts and     *)
(* renders with the route parameter and the stores as they are.           *)
OpenEditor(w) ==
    /\ page # "editor"
    /\ page' = "editor"
    /\ worksheetId' = w
    /\ view' = [worksheetId |-> w, isRightPanelExpanded |-> rightPanelExpanded]
    /\ cache' = Remount(PageObserved(page), ObservedKeys)
    /\ runs' = ReleaseCancelled(PageObserved(page), ObservedKeys)
    /\ UNCHANGED <<rightPanelExpanded, selectedQueryRecord, current, created>>

Next ==
    \/ Render
    \/ \E w \in Worksheets : SwitchWorksheet(w)
    \/ UserToggleRightPanel
    \/ \E n \in RunIds :
         \/ HandleRunQuery(n)
         \/ ServerHandle(n)
         \/ RunSettles(n)
         \/ RunFinishes(n)
    \/ \E k \in Keys : FetchSettles(k)
    \/ \E p \in AwayPages : Navigate(p)
    \/ \E w \in Worksheets : OpenEditor(w)

Spec == Init /\ [][Next]_vars

-----------------------------------------------------------------------------
(***************************************************************************)
(* Properties                                                              *)
(***************************************************************************)

(* A worksheet's selected query record is one that was run on that         *)
(* worksheet: setSelectedQueryRecord at line 60 must never attach the      *)
(* result of a query run on one worksheet to another (spec 4.3).           *)
SelectedRecordBelongsToWorksheet ==
    \A w \in Worksheets :
        selectedQueryRecord[w] # NoRecord => runs[selectedQueryRecord[w]].ws = w

(* Once the right panel is open, a run's onSettled never closes it again:  *)
(* the check of isRightPanelExpanded at line 45 must only ever open it     *)
(* (spec 8, "expands it exactly once and does not re-collapse it").        *)
SettleNeverCollapsesRightPanel ==
    [][\A n \in RunIds :
          RunSettles(n) => (rightPanelExpanded => rightPanelExpanded')]_vars

(* A failed createQuery leaves every cache entry as it was: onSettled      *)
(* (lines 44-58) must not invalidate after an error (spec 4.2 and 8).      *)
FailedRunKeepsCache ==
    [][\A n \in RunIds :
          (RunSettles(n) /\ ~runs[n].ok) => UNCHANGED cache]_vars

(* No cached list silently misses a query record: whenever no run stands   *)
(* between the server creating its record and its onSettled, every         *)
(* observed key that is not marked invalid holds all records the server    *)
(* has created.  This is what invalidating all three keys on settlement    *)
(* buys.                                                                   *)
ObservedCacheCurrent ==
    (\A n \in RunIds : runs[n].phase # "handled") =>
        \A k \in PageObserved(page) :
            (~cache[k].invalid /\ ~cache[k].fetching) => cache[k].data = created

=============================================================================
