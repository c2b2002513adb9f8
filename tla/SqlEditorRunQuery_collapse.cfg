\* A run's onSettled collapses the right panel it should only open.
CONSTANTS
    w1 = w1
    w2 = w2
    Worksheets <- MCWorksheets
    ObservedKeys <- MCObservedKeys
    AwayPages <- MCAwayPages
    MaxRuns = 2
SPECIFICATION Spec
SYMMETRY MCSymmetry
PROPERTY SettleNeverCollapsesRightPanel
