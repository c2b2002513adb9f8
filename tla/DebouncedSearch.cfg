\* The debounced volumes and tables search: what settles on screen is the list of the
\* route's schema for the text in the search box.
CONSTANTS
    e = e
    s3 = s3
    s3v = s3v
    r1 = r1
    r2 = r2
    Routes <- MCRoutes
    NoData = NoData
    Terms <- MCTerms
    EmptySearch = e
SPECIFICATION Spec
SYMMETRY MCSymmetry
INVARIANT SettledListMatchesInput
