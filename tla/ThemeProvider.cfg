\* The theme choice survives reloads and reaches other tabs; the root
\* always carries exactly one colour scheme.
CONSTANTS
    b1 = b1
    b2 = b2
    Absent = Absent
    BrowserTabs <- MCBrowserTabs
    InitialStored <- MCStored
SPECIFICATION Spec
SYMMETRY MCSymmetry
INVARIANT TypeOK
INVARIANT ReloadRestoresLastChoice
INVARIANT RootHasOneScheme
