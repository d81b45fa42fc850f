SPECIFICATION Spec
CONSTANTS
    Unit = 2
    ViewSize <- MCViewSize
    Observed <- MCObserved
INVARIANTS
    ShapeIgnoresBox
    ZeroDistanceIsInFace
PROPERTIES
    EyebrowNeedsOwnProportions
