----------------------- MODULE MC_SqlEditorRunQuery -----------------------
(* Model-checking instance of SqlEditorRunQuery: two worksheets, so that a *)
(* run can settle after the user switched to the other one; the queries   *)
(* list and the navigation tree are mounted in the editor, the home        *)
(* dashboard is not.                                                       *)
EXTENDS SqlEditorRunQuery, TLC

CONSTANTS w1, w2

MCWorksheets == {w1, w2}

MCObservedKeys == {"queries", "navigationTrees"}

(* Away from the editor: the home page, which observes only the dashboard,  *)
(* and the queries history, which observes the queries list; the volumes   *)
(* and tables pages observe none of the three keys, a case the home page   *)
(* already covers for the queries and navigation-tree keys.                *)
MCAwayPages == {"home", "queriesHistory"}

MCSymmetry == Permutations(MCWorksheets)
=============================================================================
