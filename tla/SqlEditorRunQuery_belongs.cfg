\* A query record run on one worksheet is selected for another.
CONSTANTS
    w1 = w1
    w2 = w2
    Worksheets <- MCWorksheets
    ObservedKeys <- MCObservedKeys
    AwayPages <- MCAwayPages
    MaxRuns = 2
SPECIFICATION Spec
SYMMETRY MCSymmetry
INVARIANT SelectedRecordBelongsToWorksheet
