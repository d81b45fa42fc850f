SPECIFICATION FairSpec
CONSTANTS
    Count = 4
    MayFail <- MCMayFail
    BadArtwork <- MCBadArtwork
    MaxTicks = 2
INVARIANTS
    TypeOK
    CurrentSongAgrees
    PlayerIsControllable
    PauseImageWhilePlaying
    SampleHasPlayer
PROPERTIES
    MovingOnSilencesOldSong
    IndicatorCatchesUp
