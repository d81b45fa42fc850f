SPECIFICATION MCButtonsSpec
CONSTANTS
    Count = 4
    MayFail <- MCNone
    BadArtwork <- MCNone
    MaxTicks = 2
PROPERTIES
    SkipMovesToNextMusic
