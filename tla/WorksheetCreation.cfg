\* The worksheets list, the opening of every created worksheet, and the
\* schema Add Table selects.
CONSTANTS
    s1 = s1
    s2 = s2
    Schemas <- MCSchemas
    NoTab = NoTab
    NoSchema = NoSchema
    MaxCreates = 2
SPECIFICATION FairSpec
INVARIANT WorksheetsListCurrent
PROPERTY CreatedWorksheetShown
 
