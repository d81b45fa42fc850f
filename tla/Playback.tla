------------------------------ MODULE Playback ------------------------------
(***************************************************************************)
(* The player half of PlayViewController: the play list table, the         *)
(* transport buttons, the one global AVAudioPlayer and the progress        *)
(* indicator.                                                              *)
(*                                                                         *)
(* Every handler runs to completion on the main thread, so a handler is    *)
(* one action.  What makes the handlers hard is re-entrance: a successful  *)
(* load_Play_Music selects the row of the song, NSTableView delivers       *)
(* tableViewSelectionDidChange from inside that call, and the notification *)
(* stops the player just started and loads the song a second time before   *)
(* the first call goes on.                                                 *)
(*                                                                         *)
(* A song is the row of its file in musicList, and an AVAudioPlayer is     *)
(* identified with the row of the file it was opened on.  A forced unwrap, *)
(* a forced cast or an array index out of range traps: alive is FALSE      *)
(* until the user launches the program again.                              *)
(***************************************************************************)
EXTENDS Integers

CONSTANTS
    Count,        \* musicList.count, 0 when the folder cannot be read
    MayFail,      \* rows AVAudioPlayer(contentsOf:) may refuse: no audio, file gone
    BadArtwork,   \* rows whose "artwork" metadata value is not Data
    MaxTicks      \* bound on the samples waiting in the main queue

Rows  == 0 .. Count - 1
NoRow == -1       \* a nil AVAudioPlayer, or NSTableView.selectedRow without selection

ASSUME CountAssumption    == Count \in Nat
ASSUME MayFailAssumption  == MayFail \subseteq Rows /\ BadArtwork \subseteq Rows
ASSUME MaxTicksAssumption == MaxTicks \in Nat \ {0}

VARIABLES
    alive,               \* the process runs
    currentMusicIndex,   \* index of the current song in musicList
    selectedRow,         \* tableView.selectedRow
    player,              \* the global player
    isPlaying,           \* player.isPlaying
    currentMusicPlayer,  \* the controller's own reference to the player
    playBtnEnabled,      \* playBtn.isEnabled
    playBtnImage,        \* name of playBtn.image
    maxValue,            \* the song whose duration scales the indicator
    shown,               \* the song whose currentTime the indicator last took
    progressRunning,     \* the first block of the serial queue "progress" runs
    ticks                \* samples posted to the main queue and not yet taken

playerVars   == <<player, isPlaying, currentMusicPlayer>>
buttonVars   == <<playBtnEnabled, playBtnImage>>
progressVars == <<maxValue, shown, progressRunning, ticks>>
vars == <<alive, currentMusicIndex, selectedRow, playerVars, buttonVars, progressVars>>

TypeOK ==
    /\ alive \in BOOLEAN
    /\ currentMusicIndex \in Nat
    /\ selectedRow \in Rows \cup {NoRow}
    /\ player \in Rows \cup {NoRow}
    /\ isPlaying \in BOOLEAN
    /\ currentMusicPlayer \in Rows \cup {NoRow}
    /\ playBtnEnabled \in BOOLEAN
    /\ playBtnImage \in {"play-2", "pause-2"}
    /\ maxValue \in Rows \cup {NoRow}
    /\ shown \in Rows \cup {NoRow}
    /\ progressRunning \in BOOLEAN
    /\ ticks \in 0 .. MaxTicks

(***************************************************************************)
(* The controller after viewDidLoad: nothing is selected, the play button  *)
(* is disabled and shows the image the storyboard gives it.                *)
(***************************************************************************)
Init ==
    /\ alive = TRUE
    /\ currentMusicIndex = 0
    /\ selectedRow = NoRow
    /\ player = NoRow
    /\ isPlaying = FALSE
    /\ currentMusicPlayer = NoRow
    /\ playBtnEnabled = FALSE
    /\ playBtnImage = "play-2"
    /\ maxValue = NoRow
    /\ shown = NoRow
    /\ progressRunning = FALSE
    /\ ticks = 0

\* A trap ends the process in the middle of the handler.
Trap ==
    /\ alive' = FALSE
    /\ UNCHANGED <<currentMusicIndex, selectedRow, playerVars, buttonVars, progressVars>>

-----------------------------------------------------------------------------
(***************************************************************************)
(* load_Play_Music(url) for the file of row i, with row sel selected in    *)
(* the table and the player already stopped.                               *)
(***************************************************************************)

\* Bug variant: player?.stop() was forgotten before the load.
OpenFailsWithoutStop(i, sel) ==
    /\ i \in MayFail
    /\ selectedRow' = sel
    /\ UNCHANGED <<alive, playerVars, playBtnImage, progressVars>>

\* Bug variant: the progress loop is started although no player was opened.
OpenFailsAfterQueueing(i, sel) ==
    /\ i \in MayFail
    /\ isPlaying' = FALSE
    /\ selectedRow' = sel
    /\ progressRunning' = TRUE
    /\ UNCHANGED <<alive, player, currentMusicPlayer, playBtnImage, maxValue, shown, ticks>>

\* AVAudioPlayer(contentsOf:) throws: the old player object stays in place.
OpenFails(i, sel) ==
    /\ i \in MayFail
    /\ isPlaying' = FALSE
    /\ selectedRow' = sel
    /\ UNCHANGED <<alive, player, currentMusicPlayer, playBtnImage, progressVars>>

\* The global player and the controller's own are the one opened on i, and
\* button, indicator range and progress loop are set.
NewPlayer(i) ==
    /\ player' = i
    /\ currentMusicPlayer' = i
    /\ playBtnImage' = "pause-2"
    /\ maxValue' = i
    /\ progressRunning' = TRUE
    /\ UNCHANGED <<alive, shown, ticks>>

\* selectRowIndexes.  If the row was not selected yet this re-enters
\* tableViewSelectionDidChange, which stops the new player and opens the file
\* once more; only if that second attempt fails does the song stay silent.
SelectRow(i, sel) ==
    /\ selectedRow' = i
    /\ isPlaying' \in BOOLEAN
    /\ sel = i \/ i \notin MayFail => isPlaying'

\* Bug variant: selectRowIndexes was forgotten, so there is no nested call.
OpenSucceedsUnselected(i, sel) ==
    /\ i \notin BadArtwork
    /\ NewPlayer(i)
    /\ isPlaying' = TRUE
    /\ selectedRow' = sel

\* The file opens.  A nested load puts a second player on the same file in place
\* of the first: rows do not tell the two apart, whose durations are the same.
OpenSucceeds(i, sel) ==
    /\ i \notin BadArtwork
    /\ NewPlayer(i)
    /\ SelectRow(i, sel)

\* The handler made i the current index: it opens the file and plays it, or
\* traps because musicList has no such element or the artwork is no Data.
\* enabled is the value playBtn.isEnabled has when the load begins.
LoadPlayMusic(i, sel, enabled) ==
    \/ /\ i \in Rows
       /\ currentMusicIndex' = i
       /\ \/ OpenFails(i, sel) /\ playBtnEnabled' = enabled
          \/ OpenSucceeds(i, sel) /\ playBtnEnabled' = (enabled \/ sel # i)
    \/ i \notin Rows /\ Trap
    \/ i \in BadArtwork /\ Trap

-----------------------------------------------------------------------------
(***************************************************************************)
(* The handlers.                                                           *)
(***************************************************************************)

\* Bug variant: playBtn.isEnabled = true was forgotten.
SelectionDidChangeNotEnabling(r) ==
    /\ alive
    /\ r # selectedRow
    /\ LoadPlayMusic(r, r, playBtnEnabled)

\* tableViewSelectionDidChange for a selection the user made; NoRow when a
\* click deselects (the table allows an empty selection and column selection).
TableViewSelectionDidChange(r) ==
    /\ alive
    /\ r # selectedRow
    /\ LoadPlayMusic(r, r, TRUE)

\* The button acts on whatever the global player holds, and shows image then.
PauseOrPlay(image) ==
    /\ alive
    /\ playBtnEnabled
    /\ player # NoRow
    /\ isPlaying' = ~isPlaying
    /\ playBtnImage' = image
    /\ UNCHANGED <<alive, currentMusicIndex, selectedRow, player, currentMusicPlayer,
                   playBtnEnabled, progressVars>>

\* Bug variant: the image is not exchanged when the player resumes.
PlayBtnTouchedSameImage == PauseOrPlay("play-2")

\* Bug variant: the image is named without the suffix of the asset catalogue.
PlayBtnTouchedWrongAsset == PauseOrPlay(IF isPlaying THEN "play" ELSE "pause")

PlayBtnTouched == PauseOrPlay(IF isPlaying THEN "play-2" ELSE "pause-2")

PreviousIndex ==
    IF currentMusicIndex - 1 < 0 THEN Count - 1 ELSE currentMusicIndex - 1

PreviousBtnTouched ==
    /\ alive
    /\ LoadPlayMusic(PreviousIndex, selectedRow, playBtnEnabled)

\* The index skipBtnTouched moves to.
NextIndex ==
    IF currentMusicIndex + 2 = Count THEN 0 ELSE currentMusicIndex + 2

\* skipBtnTouched, from the button or from any key: with an empty list it traps
\* at musicList[currentMusicIndex] before anything else.
SkipBtnTouched ==
    /\ alive
    /\ IF currentMusicIndex \in Rows
       THEN LoadPlayMusic(NextIndex, selectedRow, playBtnEnabled)
       ELSE Trap

-----------------------------------------------------------------------------
(***************************************************************************)
(* What happens beside the handlers.                                       *)
(***************************************************************************)

\* The song reaches its end (or play() could not start it): nobody observes
\* AVAudioPlayerDelegate, so nothing but isPlaying changes.
SongEnds ==
    /\ alive
    /\ isPlaying
    /\ isPlaying' = FALSE
    /\ UNCHANGED <<alive, currentMusicIndex, selectedRow, player, currentMusicPlayer,
                   buttonVars, progressVars>>

\* One turn of the endless loop on the queue "progress".  The queue is serial:
\* the loops of later loads wait behind the first one for ever.
ProgressPost ==
    /\ alive
    /\ progressRunning
    /\ ticks < MaxTicks
    /\ ticks' = ticks + 1
    /\ UNCHANGED <<alive, currentMusicIndex, selectedRow, playerVars, buttonVars,
                   maxValue, shown, progressRunning>>

\* The posted block on the main thread: (currentMusicPlayer?.currentTime)! traps
\* on nil, otherwise the indicator shows the time of song.
TakeSample(song) ==
    /\ alive
    /\ ticks > 0
    /\ IF currentMusicPlayer = NoRow
       THEN Trap
       ELSE /\ shown' = song
            /\ ticks' = ticks - 1
            /\ UNCHANGED <<alive, currentMusicIndex, selectedRow, playerVars, buttonVars,
                           maxValue, progressRunning>>

\* Bug variant: the block captures the player of the load that queued the loop;
\* only the first loop ever runs.
ProgressTickFirstPlayer == TakeSample(IF shown = NoRow THEN currentMusicPlayer ELSE shown)

ProgressTick == TakeSample(currentMusicPlayer)

\* The user quits, or the process is killed.
Terminate == alive /\ Trap

\* The user starts the program again.
Relaunch ==
    /\ ~alive
    /\ alive' = TRUE
    /\ currentMusicIndex' = 0
    /\ selectedRow' = NoRow
    /\ player' = NoRow
    /\ isPlaying' = FALSE
    /\ currentMusicPlayer' = NoRow
    /\ playBtnEnabled' = FALSE
    /\ playBtnImage' = "play-2"
    /\ maxValue' = NoRow
    /\ shown' = NoRow
    /\ progressRunning' = FALSE
    /\ ticks' = 0

Next ==
    \/ \E r \in Rows \cup {NoRow} : TableViewSelectionDidChange(r)
    \/ PlayBtnTouched
    \/ PreviousBtnTouched
    \/ SkipBtnTouched
    \/ SongEnds
    \/ ProgressPost
    \/ ProgressTick
    \/ Terminate
    \/ Relaunch

Spec == Init /\ [][Next]_vars

\* libdispatch keeps running the loop and the main run loop drains its queue;
\* the user owes nothing.
FairSpec == Spec /\ WF_vars(ProgressPost) /\ WF_vars(ProgressTick)

-----------------------------------------------------------------------------
(***************************************************************************)
(* Properties.                                                             *)
(***************************************************************************)

\* The three notions of "current song" - the index (line 31), the table's
\* selection and the player's file - are written at different points of the
\* handlers and of the nested notification.  They agree once a player exists,
\* unless the file at the current index is one that may refuse to open.
CurrentSongAgrees ==
    player # NoRow /\ currentMusicIndex \notin MayFail
        => player = currentMusicIndex /\ selectedRow = currentMusicIndex

\* playBtn starts disabled and only tableViewSelectionDidChange enables it, yet
\* skip and previous also start songs: whenever there is a player, the button
\* that pauses it can be pressed.
PlayerIsControllable == player # NoRow => playBtnEnabled

\* A song that sounds is always shown with the pause image, whichever of the
\* five ways (select, previous, skip, nested load, play button) started it.
PauseImageWhilePlaying == isPlaying => playBtnImage = "pause-2"

\* The forced unwrap in the sample block (line 316) never meets nil: no sample
\* is posted before the controller holds a player.
SampleHasPlayer == progressRunning \/ ticks > 0 => currentMusicPlayer # NoRow

\* Moving to another song never leaves the old one sounding, not even when the
\* new file refuses to open: what sounds after the move is the new current
\* song, and its row is the selected one.
MovingOnSilencesOldSong ==
    [][currentMusicIndex' # currentMusicIndex /\ isPlaying'
        => player' = currentMusicIndex' /\ selectedRow' = currentMusicIndex']_vars

\* Although the loop of every later load is stuck behind the first one, the
\* indicator catches up with each song that stays the player's.
IndicatorCatchesUp ==
    \A r \in Rows : player = r ~> (shown = r \/ player # r \/ ~alive)

\* "현재 선택된 음악 플레이." (play the currently selected music, line 548): the
\* song that sounds is the selected one.
SelectedMusicPlays == isPlaying => player = selectedRow

\* "//next Music" (line 262), with the wrap-around of lines 264-266: a skip from
\* the last song of the list goes on with the first one.
SkipFromLastWraps ==
    [][SkipBtnTouched /\ currentMusicIndex = Count - 1
        => alive' /\ currentMusicIndex' = 0]_vars

\* "//next Music" (line 262): a skip goes on with the song behind the current one.
SkipMovesToNextMusic ==
    [][SkipBtnTouched /\ currentMusicIndex + 1 \in Rows
        => currentMusicIndex' = currentMusicIndex + 1]_vars

=============================================================================
