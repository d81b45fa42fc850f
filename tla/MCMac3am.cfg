SPECIFICATION Spec
CONSTANTS
    Count = 3
    MayFail <- MCMayFail
    BadArtwork <- MCNone
    MaxTicks = 1
    FetchMayFail = FALSE
    MaxRows = 3
    MaxSkip = 2
INVARIANTS
    SkipsGoToTheSkippedSong
    OneRowPerSong
PROPERTIES
    QuitStoresAllPressed
    ImplementsPlayback
    ImplementsSkipStore
