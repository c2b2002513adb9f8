-------------------------- MODULE WorksheetCreation --------------------------
(***************************************************************************)
(* The three places that create a worksheet with useCreateWorksheet:       *)
(*   "home"   Create SQL Worksheet (modules/home/home-action-buttons.tsx)  *)
(*   "tabs"   the "+" of the editor tab bar                                *)
(*            (sql-editor-center-panel/sql-editor-center-panel-tabs.tsx)   *)
(*   "tables" Add Table (modules/tables/tables-page.tsx)                   *)
(* with the settings store's tabs, the route and the cached worksheets     *)
(* list.  Each button is disabled once its own pending mutation has been   *)
(* rendered (isPending reaches the DOM a render after the click); a        *)
(* component that unmounts leaves its mutation running and its hook-level  *)
(* onSuccess still fires.  Worksheet n is the one the n-th click creates.  *)
(***************************************************************************)
EXTENDS Naturals, Sequences, SequencesExt

CONSTANTS
    Schemas,      \* database/schema pairs whose tables page can be open
    MaxCreates,   \* bound on the number of create clicks in one behaviour
    NoTab,        \* the store's "no tab selected"
    NoSchema      \* no tree node selected; also the schema of a non-tables page

ASSUME MaxCreates \in Nat \ {0} /\ NoSchema \notin Schemas

Store == INSTANCE SqlEditorSettingsStore

WsIds == 1..MaxCreates
Sites == {"home", "tabs", "tables"}
Phases == {"unsent", "inflight", "handled", "done"}
Locations ==
    {[page |-> "home", ws |-> 0, schema |-> NoSchema]}
    \cup {[page |-> "tables", ws |-> 0, schema |-> s] : s \in Schemas}
    \cup {[page |-> "editor", ws |-> w, schema |-> NoSchema] : w \in WsIds}

VARIABLES
    location,      \* the route the router shows
    tabs,          \* store: open worksheet ids, in order
    selectedTab,   \* store: selected worksheet id, or NoTab
    selectedTree,  \* store: selected database/schema (tableName always '')
    creates,       \* createWorksheet mutation of each click
    created,       \* server: worksheet ids created so far
    list,          \* cache entry of getGetWorksheetsQueryKey()
    toasts         \* creates whose failure a toast.error notification has shown

vars == <<location, tabs, selectedTab, selectedTree, creates, created, list, toasts>>

Create == [site : Sites, phase : Phases, ok : BOOLEAN,
           schema : Schemas \cup {NoSchema}, alive : BOOLEAN, shown : BOOLEAN]

TypeOK ==
    /\ location \in Locations
    /\ tabs \in Seq(WsIds) /\ Len(tabs) <= MaxCreates
    /\ selectedTab \in WsIds \cup {NoTab}
    /\ selectedTree \in Schemas \cup {NoSchema}
    /\ creates \in [WsIds -> Create]
    /\ created \subseteq WsIds
    /\ list \in [data : SUBSET WsIds, invalid : BOOLEAN, fetching : BOOLEAN]
    /\ toasts \subseteq WsIds

\* The creating component mounted at a location.
SiteAt(loc) == CASE loc.page = "home"   -> "home"
                 [] loc.page = "tables" -> "tables"
                 [] loc.page = "editor" -> "tabs"

\* The home page and the editor's left panel observe the worksheets list.
Observes(loc) == loc.page \in {"home", "editor"}

EditorOf(w) == [page |-> "editor", ws |-> w, schema |-> NoSchema]

Init ==
    /\ location \in Locations \ {EditorOf(w) : w \in WsIds}
    /\ tabs = <<>>
    /\ selectedTab = NoTab
    /\ selectedTree = NoSchema
    /\ creates = [n \in WsIds |-> [site |-> "home", phase |-> "unsent", ok |-> FALSE,
                                   schema |-> NoSchema, alive |-> FALSE, shown |-> FALSE]]
    /\ created = {}
    /\ list = [data |-> {}, invalid |-> FALSE, fetching |-> FALSE]
    /\ toasts = {}

(* The observer's current mutation at a site: the latest click on the      *)
(* mounted component.  useMutation's setOptions reaches only its options;  *)
(* a create superseded by a second click keeps the closure it had.         *)
IsCurrent(cs, n) ==
    /\ cs[n].alive /\ cs[n].phase # "unsent"
    /\ \A m \in WsIds : (m > n /\ cs[m].site = cs[n].site) => ~cs[m].alive

Remount(cs, loc) ==
    [n \in WsIds |->
       IF SiteAt(loc) = cs[n].site /\ cs[n].alive
       THEN [cs[n] EXCEPT !.schema = IF @ = NoSchema \/ ~IsCurrent(cs, n) THEN @
                                     ELSE loc.schema]
       ELSE [cs[n] EXCEPT !.alive = FALSE]]

\* Mounting a list observer refetches the list (staleTime 0).
Mounts(loc) == Observes(loc) /\ SiteAt(loc) # SiteAt(location)

\* invalidateQueries({queryKey: getGetWorksheetsQueryKey()}) after a navigate(loc).
invalidateList(loc) ==
    list' = [list EXCEPT !.invalid = TRUE, !.fetching = @ \/ Observes(loc)]

(* The user follows a link or selects a tab (spec 6, URL structure).       *)
UserNavigate(loc) ==
    /\ loc # location
    /\ loc.page = "editor" => Contains(tabs, loc.ws)
    /\ location' = loc
    /\ creates' = Remount(creates, loc)
    /\ list' = IF Mounts(loc) THEN [list EXCEPT !.fetching = TRUE] ELSE list
    /\ UNCHANGED <<tabs, selectedTab, selectedTree, created, toasts>>

(* A click on the create button of the mounted site.  The button is       *)
(* disabled={isPending} only once the re-render of that component's       *)
(* pending mutation has happened: a second click may come before it.       *)
ClickCreate(n) ==
    LET site == SiteAt(location) IN
    /\ creates[n].phase = "unsent"
    /\ \A m \in 1..(n - 1) : creates[m].phase # "unsent"
    /\ ~\E m \in WsIds : /\ creates[m].site = site /\ creates[m].alive
                         /\ creates[m].phase \in {"inflight", "handled"}
                         /\ creates[m].shown
    /\ creates' = [creates EXCEPT ![n] = [site |-> site, phase |-> "inflight", ok |-> FALSE,
                                          schema |-> location.schema, alive |-> TRUE,
                                          shown |-> FALSE]]
    /\ UNCHANGED <<location, tabs, selectedTab, selectedTree, created, list, toasts>>

(* The mutation observer's pending state is rendered: the button becomes  *)
(* disabled.                                                               *)
RenderPending(n) ==
    /\ creates[n].alive /\ ~creates[n].shown
    /\ creates[n].phase \in {"inflight", "handled"}
    /\ creates' = [creates EXCEPT ![n].shown = TRUE]
    /\ UNCHANGED <<location, tabs, selectedTab, selectedTree, created, list, toasts>>

(* The server's answer to the POST reaches the client.                     *)
ServerHandle(n) ==
    /\ creates[n].phase = "inflight"
    /\ \E ok \in BOOLEAN :
         /\ creates' = [creates EXCEPT ![n].phase = "handled", ![n].ok = ok]
         /\ created' = IF ok THEN created \cup {n} ELSE created
    /\ UNCHANGED <<location, tabs, selectedTab, selectedTree, list, toasts>>

(* A failed create: home's mutate has no onError; the tabs and tables      *)
(* sites' mutateAsync promises reject unhandled.  Nothing changes.         *)
CreateFails(n) ==
    /\ creates[n].phase = "handled" /\ ~creates[n].ok
    /\ creates' = [creates EXCEPT ![n].phase = "done"]
    /\ UNCHANGED <<location, tabs, selectedTab, selectedTree, created, list, toasts>>

(* Home onSuccess: addTab, navigate to the editor, invalidate the list.    *)
HomeOnSuccess(n) ==
    /\ creates[n].site = "home" /\ creates[n].phase = "handled" /\ creates[n].ok
    /\ tabs' = Store!addTab(tabs, n) /\ selectedTab' = n
    /\ location' = EditorOf(n)
    /\ creates' = Remount([creates EXCEPT ![n].phase = "done"], EditorOf(n))
    /\ invalidateList(EditorOf(n))
    /\ UNCHANGED <<selectedTree, created, toasts>>

(* Tables onSuccess (lines 49-65): addTab, setSelectedTree to the database *)
(* and schema its closure names with tableName '', navigate, invalidate.   *)
TablesOnSuccess(n) ==
    /\ creates[n].site = "tables" /\ creates[n].phase = "handled" /\ creates[n].ok
    /\ tabs' = Store!addTab(tabs, n) /\ selectedTab' = n
    /\ selectedTree' = creates[n].schema
    /\ location' = EditorOf(n)
    /\ creates' = Remount([creates EXCEPT ![n].phase = "done"], EditorOf(n))
    /\ invalidateList(EditorOf(n))
    /\ UNCHANGED <<created, toasts>>

\* Mutant: the tab bar's onSuccess without its invalidation.
TabsOnSuccessNoInvalidate(n) ==
    /\ creates[n].site = "tabs" /\ creates[n].phase = "handled" /\ creates[n].ok
    /\ tabs' = Store!addTab(tabs, n) /\ selectedTab' = n
    /\ location' = EditorOf(n)
    /\ creates' = Remount([creates EXCEPT ![n].phase = "done"], EditorOf(n))
    /\ list' = IF Mounts(EditorOf(n)) THEN [list EXCEPT !.fetching = TRUE] ELSE list
    /\ UNCHANGED <<selectedTree, created, toasts>>

\* Mutant: handleAddTab without its addTab.
TabsOnSuccessNoAddTab(n) ==
    /\ creates[n].site = "tabs" /\ creates[n].phase = "handled" /\ creates[n].ok
    /\ invalidateList(EditorOf(n))
    /\ location' = EditorOf(n)
    /\ creates' = Remount([creates EXCEPT ![n].phase = "done"], EditorOf(n))
    /\ UNCHANGED <<tabs, selectedTab, selectedTree, created, toasts>>

(***************************************************************************)
(* Tab bar: the synchronous onSuccess (lines 18-28) invalidates the list   *)
(* and navigates; handleAddTab, resumed after `await mutateAsync` in the   *)
(* microtasks that follow (lines 39-45), calls addTab and navigates again. *)
(* No render, event or other response runs in between: one step.  The     *)
(* list is refetched by the editor's left panel, mounted or already there. *)
(***************************************************************************)
TabsOnSuccess(n) ==
    /\ creates[n].site = "tabs" /\ creates[n].phase = "handled" /\ creates[n].ok
    /\ tabs' = Store!addTab(tabs, n) /\ selectedTab' = n
    /\ invalidateList(EditorOf(n))
    /\ location' = EditorOf(n)
    /\ creates' = Remount([creates EXCEPT ![n].phase = "done"], EditorOf(n))
    /\ UNCHANGED <<selectedTree, created, toasts>>

(* A refetch of the list returns the server's worksheets, or fails and     *)
(* keeps the old ones.                                                     *)
ListFetchSettles ==
    /\ list.fetching
    /\ \/ list' = [data |-> created, invalid |-> FALSE, fetching |-> FALSE]
       \/ list' = [list EXCEPT !.fetching = FALSE]
    /\ UNCHANGED <<location, tabs, selectedTab, selectedTree, creates, created, toasts>>

(* The worksheets a page lists: the home table shows the cached data; the  *)
(* editor's left panel (SqlEditorLeftPanelWorksheets, lines 23-40) shows a *)
(* skeleton instead of its entries while the list is fetching.             *)
Listed(loc) ==
    CASE loc.page = "home"   -> list.data
      [] loc.page = "editor" -> IF list.fetching THEN {} ELSE list.data
      [] OTHER               -> {}

(* The user opens a worksheet of the list (home table or editor left       *)
(* panel): addTab, select it, show it.                                     *)
OpenWorksheet(w) ==
    /\ w \in Listed(location)
    /\ tabs' = Store!addTab(tabs, w) /\ selectedTab' = w
    /\ location' = EditorOf(w)
    /\ creates' = Remount(creates, EditorOf(w))
    /\ list' = IF Mounts(EditorOf(w)) THEN [list EXCEPT !.fetching = TRUE] ELSE list
    /\ UNCHANGED <<selectedTree, created, toasts>>

(* The user closes an open tab.                                            *)
CloseTab(w) ==
    /\ Contains(tabs, w)
    /\ tabs' = Store!removeTab(tabs, w)
    /\ selectedTab' = Store!SelectedAfterRemove(tabs, selectedTab, w)
    /\ UNCHANGED <<location, selectedTree, creates, created, list, toasts>>

Next ==
    \/ \E loc \in Locations : UserNavigate(loc)
    \/ ListFetchSettles
    \/ \E n \in WsIds :
         \/ ClickCreate(n) \/ RenderPending(n) \/ ServerHandle(n) \/ CreateFails(n)
         \/ HomeOnSuccess(n) \/ TablesOnSuccess(n) \/ TabsOnSuccess(n)
         \/ OpenWorksheet(n) \/ CloseTab(n)

(* Callbacks of a response that has reached the client, and the resumption *)
(* of an awaiting async function, are run by the event loop: weak fairness.*)
Fairness ==
    \A n \in WsIds :
        /\ WF_vars(CreateFails(n)) /\ WF_vars(HomeOnSuccess(n))
        /\ WF_vars(TablesOnSuccess(n)) /\ WF_vars(TabsOnSuccess(n))

Spec == Init /\ [][Next]_vars

FairSpec == Spec /\ Fairness

-----------------------------------------------------------------------------

(* The worksheets list does not silently miss a created worksheet: when no *)
(* successful create is waiting for its onSuccess, a list entry that is    *)
(* neither invalid nor refetching holds every worksheet the server has.    *)
WorksheetsListCurrent ==
    (\A n \in WsIds : ~(creates[n].phase = "handled" /\ creates[n].ok)) =>
        ((~list.invalid /\ ~list.fetching) => list.data = created)

(* A create that fails is reported to the user: spec 7, errors from        *)
(* mutations are handled at each call site with a toast carrying the      *)
(* backend's message, and transient failures show a notification.  None   *)
(* of the three sites has an onError (home-action-buttons.tsx:21-36,      *)
(* tables-page.tsx:47-76, sql-editor-center-panel-tabs.tsx:16-45).        *)
FailedCreateNotified ==
    \A n \in WsIds :
        (creates[n].phase = "handled" /\ ~creates[n].ok) ~> n \in toasts

(* Every worksheet whose creation succeeded is eventually open, selected  *)
(* and shown (spec 8: "tab set containing id 42, selected, and navigation *)
(* to /sql-editor/42"), from every site, even when the creating component *)
(* unmounted while the request was in flight: useCreateWorksheet's        *)
(* onSuccess is hook-level (home-action-buttons.tsx:23-34), so it still   *)
(* runs, and navigates the user to the new worksheet from wherever they   *)
(* went meanwhile.                                                         *)
CreatedWorksheetShown ==
    \A n \in WsIds :
        (creates[n].phase = "handled" /\ creates[n].ok) ~>
            (Contains(tabs, n) /\ selectedTab = n /\ location = EditorOf(n))

=============================================================================
