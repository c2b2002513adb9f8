----------------------- MODULE SqlEditorSettingsStore -----------------------
(***************************************************************************)
(* The tab operations of the SQL editor settings store                     *)
(* (modules/sql-editor/sql-editor-settings-store, which is not under src/; *)
(* modelled from spec sections 3 and 4.3).  Tabs are the ordered sequence  *)
(* of open worksheet ids; the selected tab is NoTab when none is open.     *)
(***************************************************************************)
EXTENDS Naturals, Sequences, SequencesExt

CONSTANT NoTab

(* addTab(worksheet): append the worksheet unless it is already open.      *)
addTab(tabs, w) == IF Contains(tabs, w) THEN tabs ELSE Append(tabs, w)

(* Removing the selected tab selects the tab that takes its place, else    *)
(* the one before it, else none; removing another tab keeps the selection. *)
SelectedAfterRemove(tabs, selected, w) ==
    LET i    == CHOOSE j \in 1..Len(tabs) : tabs[j] = w
        rest == Remove(tabs, w)
    IN  IF selected # w THEN selected
        ELSE IF rest = <<>> THEN NoTab
        ELSE IF i <= Len(rest) THEN rest[i]
        ELSE rest[Len(rest)]

(* removeTab(worksheet) on the tab sequence.                               *)
removeTab(tabs, w) == Remove(tabs, w)

=============================================================================
