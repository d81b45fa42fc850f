SPECIFICATION Spec
CONSTANTS
    Songs = {s1, s2}
    FetchMayFail = TRUE
    MaxRows = 3
    MaxSkip = 3
INVARIANTS
    TypeOK
    ContextContinuesStore
PROPERTIES
    SavedSkipsSurvive
    QuitSavesOrAsks
    ImplementsLedger
