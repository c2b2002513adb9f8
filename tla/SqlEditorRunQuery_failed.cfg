\* A failed run invalidates the cache.
CONSTANTS
    w1 = w1
    w2 = w2
    Worksheets <- MCWorksheets
    ObservedKeys <- MCObservedKeys
    AwayPages <- MCAwayPages
    MaxRuns = 2
SPECIFICATION Spec
SYMMETRY MCSymmetry
PROPERTY FailedRunKeepsCache
