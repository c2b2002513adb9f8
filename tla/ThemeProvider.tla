---------------------------- MODULE ThemeProvider ----------------------------
(***************************************************************************)
(* The theme provider (src/ui/src/app/providers/theme-provider.tsx) in     *)
(* several browser tabs of the application, which share one localStorage   *)
(* key.  A tab loads its theme from storage, its effect puts the matching  *)
(* class on the document root, and setTheme writes storage before it sets  *)
(* the state.  A reload starts the tab over from storage.                  *)
(***************************************************************************)
EXTENDS Naturals

CONSTANTS
    BrowserTabs,    \* open browser tabs of the application
    InitialStored,  \* values the storage key may hold when the model starts
    Absent          \* localStorage.getItem found no value

Themes == {"dark", "light", "system"}
Schemes == {"light", "dark"}

\* defaultTheme
DefaultTheme == "dark"

\* setTheme was never called in this behaviour.
NoChoice == "none"

ASSUME Absent \notin STRING /\ InitialStored \subseteq STRING \cup {Absent}

VARIABLES
    storage,     \* localStorage['vite-ui-theme']
    theme,       \* the provider's theme state in each browser tab
    root,        \* classes on each tab's document root (scheme classes only)
    effectDue,   \* the tab rendered a theme its effect has not applied yet
    osDark,      \* prefers-color-scheme: dark
    lastSet,     \* history: the theme most recently passed to setTheme
    fresh        \* history: the tab loaded after the last setTheme

vars == <<storage, theme, root, effectDue, osDark, lastSet, fresh>>

\* Strings a theme state can be read from: storage minus missing or empty.
ReadableStored == InitialStored \ {Absent, ""}

TypeOK ==
    /\ storage \in InitialStored \cup Themes
    /\ theme \in [BrowserTabs -> ReadableStored \cup Themes]
    /\ root \in [BrowserTabs -> SUBSET (ReadableStored \cup Schemes)]
    /\ effectDue \in [BrowserTabs -> BOOLEAN]
    /\ osDark \in BOOLEAN
    /\ lastSet \in Themes \cup {NoChoice}
    /\ fresh \in [BrowserTabs -> BOOLEAN]

\* Mutant: the initialiser without the `|| defaultTheme` fallback.
StoredThemeNoDefault(v) == v

(* useState initialiser (lines 29-35): a missing or empty value gives the  *)
(* default; any other string is taken as a Theme without a check.          *)
StoredTheme(v) == IF v \in {Absent, ""} THEN DefaultTheme ELSE v

\* Mutant: the effect adds the new class without removing the old ones.
ApplyThemeKeep(classes, t) ==
    classes \cup {IF t = "system" THEN (IF osDark THEN "dark" ELSE "light") ELSE t}

(* The effect (lines 37-51): drop light and dark from the root, then add   *)
(* the theme, or for "system" the scheme the media query reports.          *)
ApplyTheme(classes, t) ==
    (classes \ Schemes) \cup {IF t = "system" THEN (IF osDark THEN "dark" ELSE "light")
                              ELSE t}

Init ==
    /\ storage \in InitialStored
    /\ theme = [b \in BrowserTabs |-> StoredTheme(storage)]
    /\ root = [b \in BrowserTabs |-> {}]
    /\ effectDue = [b \in BrowserTabs |-> TRUE]
    /\ osDark \in BOOLEAN
    /\ lastSet = NoChoice
    /\ fresh = [b \in BrowserTabs |-> FALSE]

(* The effect of the first render after a load runs.                       *)
EffectRuns(b) ==
    /\ effectDue[b]
    /\ root' = [root EXCEPT ![b] = ApplyTheme(@, theme[b])]
    /\ effectDue' = [effectDue EXCEPT ![b] = FALSE]
    /\ UNCHANGED <<storage, theme, osDark, lastSet, fresh>>

\* Mutant: setTheme that does not write localStorage.
SetThemeNotStored(b, t) ==
    /\ ~effectDue[b]
    /\ theme' = [theme EXCEPT ![b] = t]
    /\ root' = [root EXCEPT ![b] = IF theme[b] = t THEN @ ELSE ApplyTheme(@, t)]
    /\ lastSet' = t
    /\ fresh' = [c \in BrowserTabs |-> FALSE]
    /\ UNCHANGED <<storage, effectDue, osDark>>

(* setTheme (lines 56-59) from the theme toggle: write storage, set the    *)
(* state; the re-render of a click runs its effect before the next event.  *)
SetTheme(b, t) ==
    /\ ~effectDue[b]
    /\ storage' = t
    /\ theme' = [theme EXCEPT ![b] = t]
    /\ root' = [root EXCEPT ![b] = IF theme[b] = t THEN @ ELSE ApplyTheme(@, t)]
    /\ lastSet' = t
    /\ fresh' = [c \in BrowserTabs |-> FALSE]
    /\ UNCHANGED <<effectDue, osDark>>

(* The user reloads a tab: a new document, the provider mounts again.      *)
Reload(b) ==
    /\ theme' = [theme EXCEPT ![b] = StoredTheme(storage)]
    /\ root' = [root EXCEPT ![b] = {}]
    /\ effectDue' = [effectDue EXCEPT ![b] = TRUE]
    /\ fresh' = [fresh EXCEPT ![b] = TRUE]
    /\ UNCHANGED <<storage, osDark, lastSet>>

(* The operating system switches between light and dark.                   *)
OsSchemeChanges ==
    /\ osDark' = ~osDark
    /\ UNCHANGED <<storage, theme, root, effectDue, lastSet, fresh>>

Next ==
    \/ \E b \in BrowserTabs :
         \/ EffectRuns(b)
         \/ Reload(b)
         \/ \E t \in Themes : SetTheme(b, t)
    \/ OsSchemeChanges

Spec == Init /\ [][Next]_vars

-----------------------------------------------------------------------------

(* A tab loaded after the last setTheme, in whichever tab it was called,   *)
(* shows that theme: the choice survives reloads and reaches other tabs    *)
(* (spec 6: "read once at store initialization, written on every theme     *)
(* change").                                                               *)
ReloadRestoresLastChoice ==
    \A b \in BrowserTabs :
        (fresh[b] /\ lastSet # NoChoice) => theme[b] = lastSet

(* Once a tab's effect has run, its root carries exactly one of light and  *)
(* dark, and the one its theme names when that is not "system".            *)
RootHasOneScheme ==
    \A b \in BrowserTabs :
        ~effectDue[b] =>
            /\ \E s \in Schemes : root[b] \cap Schemes = {s}
            /\ theme[b] \in Schemes => theme[b] \in root[b]

=============================================================================
