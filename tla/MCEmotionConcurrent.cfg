SPECIFICATION Spec
CONSTANTS
    Threads = {t1, t2}
    CameraMayFail = FALSE
    MaxAppearances = 2
    MaxCaptures = 3
    MaxFaces = 1
    Marks <- MCFewMarks
CHECK_DEADLOCK FALSE
INVARIANTS
    TypeOK
    NoFaceDropped
    FacesMatchImage
