SPECIFICATION FairSpec
CONSTANTS
    Count = 4
    MayFail <- MCMayFail
    BadArtwork <- MCNone
    MaxTicks = 2
INVARIANTS
    SelectedMusicPlays
