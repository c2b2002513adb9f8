\* A failed create is never reported to the user.
CONSTANTS
    s1 = s1
    s2 = s2
    Schemas <- MCSchemas
    NoTab = NoTab
    NoSchema = NoSchema
    MaxCreates = 2
SPECIFICATION FairSpec
PROPERTY FailedCreateNotified
