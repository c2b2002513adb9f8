------------------------ MODULE MC_ThemeProvider ------------------------
(* Two browser tabs sharing the storage key.  MCStored is what a first     *)
(* visit can find under the key when only this provider writes it.         *)
EXTENDS ThemeProvider, TLC

CONSTANTS b1, b2

MCBrowserTabs == {b1, b2}

MCStored == {Absent} \cup Themes

MCSymmetry == Permutations(MCBrowserTabs)
=============================================================================
