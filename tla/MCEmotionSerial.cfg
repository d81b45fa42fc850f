SPECIFICATION FairSpec
CONSTANTS
    Threads = {t1}
    CameraMayFail = TRUE
    MaxAppearances = 2
    MaxCaptures = 2
    MaxFaces = 2
    Marks <- MCMarks
CHECK_DEADLOCK FALSE
INVARIANTS
    OutputRuns
    ClassifiesOwnLines
PROPERTIES
    CapturesSettle
