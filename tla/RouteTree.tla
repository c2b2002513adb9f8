------------------------------ MODULE RouteTree ------------------------------
(***************************************************************************)
(* The generated route tree (src/ui/src/app/routeTree.gen.ts) and its     *)
(* resolution.  A path is a sequence of segment tokens; a segment that is  *)
(* a $name is a parameter.  The file states the tree several times: the    *)
(* runtime route objects with their getParentRoute (lines 27-105), the     *)
(* children lists passed to _addFileChildren (313-347), and the declared   *)
(* tables of full paths, 'to' paths and ids (107-149).  The router         *)
(* resolves a URL to the leaf whose pattern matches it, binding each       *)
(* parameter by position (spec 4.1); navigate({to, params}) builds the URL *)
(* by substituting the params into the 'to' path.                          *)
(***************************************************************************)
EXTENDS Naturals, Sequences, FiniteSets

CONSTANT Values   \* concrete segment values a parameter may take

ParamNames == {"$worksheetId", "$queryId", "$databaseName", "$schemaName", "$tableName"}

ASSUME Values \cap ParamNames = {}

Root == "__root__"

(***************************************************************************)
(* The runtime route objects (lines 27-105): the id/path segments of each  *)
(* route, whether it ends in '/', whether it is pathless (the layout has an *)
(* id but no path), and getParentRoute.  Names drop the "Route" suffix and *)
(* abbreviate DatabasesDataPagesLayout... to Layout...                     *)
(***************************************************************************)
R(seg, index, pathless, parent) ==
    [seg |-> seg, index |-> index, pathless |-> pathless, parent |-> parent]

\* Mutant: the columns route generated under /databases instead of the layout.
RoutesMisparented ==
    [Databases |-> R(<<"databases">>, FALSE, FALSE, Root),
     Volumes |-> R(<<"volumes">>, FALSE, FALSE, Root),
     Home |-> R(<<"home">>, FALSE, FALSE, Root),
     Index |-> R(<<>>, TRUE, FALSE, Root),
     QueriesIndex |-> R(<<"queries">>, TRUE, FALSE, Root),
     Layout |-> R(<<"_dataPagesLayout">>, FALSE, TRUE, "Databases"),
     SqlEditorWorksheetIdIndex |-> R(<<"sql-editor", "$worksheetId">>, TRUE, FALSE, Root),
     QueriesQueryIdIndex |-> R(<<"queries", "$queryId">>, TRUE, FALSE, Root),
     LayoutIndex |-> R(<<>>, TRUE, FALSE, "Layout"),
     Schemas |-> R(<<"$databaseName", "schemas">>, TRUE, FALSE, "Layout"),
     Tables |-> R(<<"$databaseName", "schemas", "$schemaName", "tables">>, TRUE, FALSE, "Layout"),
     DataPreview |-> R(<<"$databaseName", "schemas", "$schemaName", "tables",
                         "$tableName", "data-preview">>, TRUE, FALSE, "Layout"),
     Columns |-> R(<<"$databaseName", "schemas", "$schemaName", "tables",
                     "$tableName", "columns">>, TRUE, FALSE, "Databases")]

Routes ==
    [Databases |-> R(<<"databases">>, FALSE, FALSE, Root),
     Volumes |-> R(<<"volumes">>, FALSE, FALSE, Root),
     Home |-> R(<<"home">>, FALSE, FALSE, Root),
     Index |-> R(<<>>, TRUE, FALSE, Root),
     QueriesIndex |-> R(<<"queries">>, TRUE, FALSE, Root),
     Layout |-> R(<<"_dataPagesLayout">>, FALSE, TRUE, "Databases"),
     SqlEditorWorksheetIdIndex |-> R(<<"sql-editor", "$worksheetId">>, TRUE, FALSE, Root),
     QueriesQueryIdIndex |-> R(<<"queries", "$queryId">>, TRUE, FALSE, Root),
     LayoutIndex |-> R(<<>>, TRUE, FALSE, "Layout"),
     Schemas |-> R(<<"$databaseName", "schemas">>, TRUE, FALSE, "Layout"),
     Tables |-> R(<<"$databaseName", "schemas", "$schemaName", "tables">>, TRUE, FALSE, "Layout"),
     DataPreview |-> R(<<"$databaseName", "schemas", "$schemaName", "tables",
                         "$tableName", "data-preview">>, TRUE, FALSE, "Layout"),
     Columns |-> R(<<"$databaseName", "schemas", "$schemaName", "tables",
                     "$tableName", "columns">>, TRUE, FALSE, "Layout")]

RouteNames == DOMAIN Routes

\* The children lists handed to _addFileChildren (lines 313-347).
Children ==
    [r \in RouteNames \cup {Root} |->
        CASE r = Root   -> {"Index", "Home", "Volumes", "Databases", "QueriesIndex",
                            "QueriesQueryIdIndex", "SqlEditorWorksheetIdIndex"}
          [] r = "Databases" -> {"Layout"}
          [] r = "Layout" -> {"LayoutIndex", "Schemas", "Tables", "Columns", "DataPreview"}
          [] OTHER -> {}]

(* A path as the declared tables write it: segments and a trailing '/'.    *)
P(segs, slash) == [segs |-> segs, slash |-> slash]

\* FileRoutesByFullPath (lines 107-120).
DeclaredFullPaths ==
    {<<P(<<>>, TRUE), "Index">>, <<P(<<"home">>, FALSE), "Home">>,
     <<P(<<"volumes">>, FALSE), "Volumes">>, <<P(<<"databases">>, FALSE), "Layout">>,
     <<P(<<"queries">>, FALSE), "QueriesIndex">>, <<P(<<"databases">>, TRUE), "LayoutIndex">>,
     <<P(<<"queries", "$queryId">>, FALSE), "QueriesQueryIdIndex">>,
     <<P(<<"sql-editor", "$worksheetId">>, FALSE), "SqlEditorWorksheetIdIndex">>,
     <<P(<<"databases", "$databaseName", "schemas">>, FALSE), "Schemas">>,
     <<P(<<"databases", "$databaseName", "schemas", "$schemaName", "tables">>, FALSE), "Tables">>,
     <<P(<<"databases", "$databaseName", "schemas", "$schemaName", "tables", "$tableName",
           "columns">>, FALSE), "Columns">>,
     <<P(<<"databases", "$databaseName", "schemas", "$schemaName", "tables", "$tableName",
           "data-preview">>, FALSE), "DataPreview">>}

\* FileRoutesByTo (lines 121-133): the paths navigate({to}) accepts.
DeclaredTo ==
    {<<<<>>, "Index">>, <<<<"home">>, "Home">>, <<<<"volumes">>, "Volumes">>,
     <<<<"databases">>, "LayoutIndex">>, <<<<"queries">>, "QueriesIndex">>,
     <<<<"queries", "$queryId">>, "QueriesQueryIdIndex">>,
     <<<<"sql-editor", "$worksheetId">>, "SqlEditorWorksheetIdIndex">>,
     <<<<"databases", "$databaseName", "schemas">>, "Schemas">>,
     <<<<"databases", "$databaseName", "schemas", "$schemaName", "tables">>, "Tables">>,
     <<<<"databases", "$databaseName", "schemas", "$schemaName", "tables", "$tableName",
         "columns">>, "Columns">>,
     <<<<"databases", "$databaseName", "schemas", "$schemaName", "tables", "$tableName",
         "data-preview">>, "DataPreview">>}

\* FileRoutesById (lines 134-149), without __root__.
DeclaredIds ==
    {<<P(<<>>, TRUE), "Index">>, <<P(<<"home">>, FALSE), "Home">>,
     <<P(<<"volumes">>, FALSE), "Volumes">>, <<P(<<"databases">>, FALSE), "Databases">>,
     <<P(<<"databases", "_dataPagesLayout">>, FALSE), "Layout">>,
     <<P(<<"queries">>, TRUE), "QueriesIndex">>,
     <<P(<<"databases", "_dataPagesLayout">>, TRUE), "LayoutIndex">>,
     <<P(<<"queries", "$queryId">>, TRUE), "QueriesQueryIdIndex">>,
     <<P(<<"sql-editor", "$worksheetId">>, TRUE), "SqlEditorWorksheetIdIndex">>,
     <<P(<<"databases", "_dataPagesLayout", "$databaseName", "schemas">>, TRUE), "Schemas">>,
     <<P(<<"databases", "_dataPagesLayout", "$databaseName", "schemas", "$schemaName",
           "tables">>, TRUE), "Tables">>,
     <<P(<<"databases", "_dataPagesLayout", "$databaseName", "schemas", "$schemaName",
           "tables", "$tableName", "columns">>, TRUE), "Columns">>,
     <<P(<<"databases", "_dataPagesLayout", "$databaseName", "schemas", "$schemaName",
           "tables", "$tableName", "data-preview">>, TRUE), "DataPreview">>}

(***************************************************************************)
(* Paths derived from the parent chain.  The id joins every route's id     *)
(* segments and keeps the route's trailing '/'.  The full path skips a     *)
(* pathless layout; a trailing '/' survives only for a route whose own     *)
(* path is '/' (the declared '/databases/' and '/').                       *)
(***************************************************************************)
RECURSIVE FullId(_), FullPath(_)
FullId(r) ==
    IF r = Root THEN P(<<>>, FALSE)
    ELSE P(FullId(Routes[r].parent).segs \o Routes[r].seg, Routes[r].index)

FullPath(r) ==
    IF r = Root THEN P(<<>>, FALSE)
    ELSE LET own == IF Routes[r].pathless THEN <<>> ELSE Routes[r].seg
         IN  P(FullPath(Routes[r].parent).segs \o own,
               ~Routes[r].pathless /\ Routes[r].seg = <<>> /\ Routes[r].index)

\* A route and the routes above it, up to the root.
RECURSIVE Chain(_)
Chain(r) == IF r = Root THEN {} ELSE {r} \cup Chain(Routes[r].parent)

\* The routes that render a page: those without children.
Leaves == {r \in RouteNames : \A q \in RouteNames : Routes[q].parent # r}

\* The 'to' path of a leaf, and the parameters navigate() must be given.
ToOf(r) == (CHOOSE d \in DeclaredTo : d[2] = r)[1]

ParamsOf(r) == {ToOf(r)[i] : i \in {i \in 1..Len(ToOf(r)) : ToOf(r)[i] \in ParamNames}}

(***************************************************************************)
(* Matching (spec 4.1): same length, static segments equal, a $name        *)
(* segment binds the value at its position.                                *)
(***************************************************************************)
\* Mutant: a pattern matches every URL it is a prefix of.
MatchesPrefix(r, url) ==
    LET pat == FullPath(r).segs IN
    /\ Len(pat) <= Len(url)
    /\ \A i \in 1..Len(pat) : pat[i] \in ParamNames \/ pat[i] = url[i]

Matches(r, url) ==
    LET pat == FullPath(r).segs IN
    /\ Len(pat) = Len(url)
    /\ \A i \in 1..Len(pat) : pat[i] \in ParamNames \/ pat[i] = url[i]

Resolve(url) == {r \in Leaves : Matches(r, url)}

(* navigate({to, params}): each $name segment of 'to' takes params[name].  *)
Interpolate(to, params) ==
    [i \in 1..Len(to) |-> IF to[i] \in ParamNames THEN params[to[i]] ELSE to[i]]

-----------------------------------------------------------------------------
(* The address bar: navigations and typed URLs, each resolved.             *)

VARIABLES
    url,       \* the location's path segments
    resolved   \* the leaf routes that match it

vars == <<url, resolved>>

\* Every 'to' of the table with every assignment of values to its params.
Navigations == UNION {{[route |-> r, params |-> p] : p \in [ParamsOf(r) -> Values]} :
                      r \in {d[2] : d \in DeclaredTo}}

NavigationUrls == {Interpolate(ToOf(n.route), n.params) : n \in Navigations}

\* URLs a user may type: every prefix of a URL the application navigates to.
TypedUrls == UNION {{SubSeq(u, 1, k) : k \in 0..Len(u)} : u \in NavigationUrls}

Init ==
    /\ url = <<>>
    /\ resolved = Resolve(<<>>)

(* navigate({to, params}) from a link or a handler, e.g. to                *)
(* '/sql-editor/$worksheetId' after a worksheet is created.                *)
Navigate(n) ==
    /\ url' = Interpolate(ToOf(n.route), n.params)
    /\ resolved' = Resolve(url')

(* The user enters a URL; it resolves to a page or to not-found.           *)
EnterUrl(u) ==
    /\ url' = u
    /\ resolved' = Resolve(u)

Next ==
    \/ \E n \in Navigations : Navigate(n)
    \/ \E u \in TypedUrls : EnterUrl(u)

Spec == Init /\ [][Next]_vars

-----------------------------------------------------------------------------

(* A resolved page and each route above it agree across the four          *)
(* statements of the tree in the generated file: the route is in its      *)
(* getParentRoute's children list, and the full path, id and 'to' path     *)
(* derived from the parent chain are the ones FileRoutesByFullPath,        *)
(* FileRoutesById and FileRoutesByTo declare.  (FileRoutesByFullPath       *)
(* lists the layout, not /databases itself, for the path the two share.)   *)
RouteTablesAgree ==
    \A leaf \in resolved :
        /\ <<FullPath(leaf).segs, leaf>> \in DeclaredTo
        /\ \A r \in Chain(leaf) :
              /\ r \in Children[Routes[r].parent]
              /\ <<FullId(r), r>> \in DeclaredIds
              /\ r # "Databases" => <<FullPath(r), r>> \in DeclaredFullPaths

(* Every URL the user can reach resolves to at most one page (spec 4.1:    *)
(* "find the unique route node whose pattern matches"), whatever names     *)
(* the databases, schemas and tables have.                                 *)
ResolutionUnique == Cardinality(resolved) <= 1

=============================================================================
