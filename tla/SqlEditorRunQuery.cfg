\* Safety of the run-query flow: no observed cache key is left valid while
\* missing a record the server created.
CONSTANTS
    w1 = w1
    w2 = w2
    Worksheets <- MCWorksheets
    ObservedKeys <- MCObservedKeys
    AwayPages <- MCAwayPages
    MaxRuns = 2
SPECIFICATION Spec
SYMMETRY MCSymmetry
INVARIANT TypeOK
INVARIANT ObservedCacheCurrent
