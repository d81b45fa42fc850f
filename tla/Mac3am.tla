------------------------------- MODULE Mac3am --------------------------------
(***************************************************************************)
(* The application: login window, player and skip records in one process,  *)
(* driven by the mouse and by the key monitor.                             *)
(*                                                                         *)
(* The main thread runs one handler at a time, but skipBtnTouched has      *)
(* three parts that other parts of the system see: it stops the player,    *)
(* records the skip in the store, and only then moves to another song,     *)
(* which may trap.  The process may end between any two steps: the user    *)
(* kills it, or a completion handler of the camera traps.                  *)
(*                                                                         *)
(* The key monitor is installed by the player's viewDidLoad, never         *)
(* removed, and sees the keys pressed in the dialogs of quitting.  The     *)
(* mouse reaches the player only while no dialog is open.                  *)
(*                                                                         *)
(* The third thing a skip does, asking the camera for an image, touches    *)
(* nothing that is modelled here; see EmotionPipeline.                     *)
(***************************************************************************)
EXTENDS Integers, Sequences

CONSTANTS Count, MayFail, BadArtwork, MaxTicks,   \* as in Playback
          FetchMayFail, MaxRows, MaxSkip          \* as in SkipStore

ASSUME StoreAssumption == FetchMayFail \in BOOLEAN /\ MaxRows \in Nat /\ MaxSkip \in Nat

VARIABLES
    alive, currentMusicIndex, selectedRow, player, isPlaying, currentMusicPlayer,
    playBtnEnabled, playBtnImage, maxValue, shown, progressRunning, ticks,
    context, store, phase,
    screen,     \* what the window shows, "login" or "player"
    skipping,   \* skipBtnTouched has recorded the skip and has not moved yet
    atLaunch,   \* auxiliary: the skips of each song when the process started
    pressed     \* auxiliary: the skips of each song pressed in this process

Player == INSTANCE Playback
Store  == INSTANCE SkipStore WITH Songs <- 0 .. Count - 1

playerVars == <<alive, currentMusicIndex, selectedRow, player, isPlaying, currentMusicPlayer,
                playBtnEnabled, playBtnImage, maxValue, shown, progressRunning, ticks>>
storeVars  == <<context, store, phase>>
appVars    == <<screen, skipping>>
auxVars    == <<atLaunch, pressed>>
vars == <<playerVars, storeVars, appVars, auxVars>>

\* The skips of each song in rows.
Totals(rows) == [s \in Player!Rows |-> Store!Total(rows, s)]

Init ==
    /\ Player!Init
    /\ Store!Init
    /\ screen = "login"
    /\ skipping = FALSE
    /\ atLaunch = [s \in Player!Rows |-> 0]
    /\ pressed = [s \in Player!Rows |-> 0]

TypeOK ==
    /\ Player!TypeOK
    /\ Store!TypeOK
    /\ screen \in {"login", "player"}
    /\ skipping \in BOOLEAN
    /\ atLaunch \in [Player!Rows -> Nat]
    /\ pressed \in [Player!Rows -> Nat]

\* Bug variant: a trap leaves the pending changes saved.
StoreFollowsSaving ==
    IF alive' THEN UNCHANGED storeVars
              ELSE phase' = "crashed" /\ store' = context /\ UNCHANGED context

\* A step of the player that traps takes the pending changes with it.
StoreFollows ==
    IF alive' THEN UNCHANGED storeVars ELSE Store!Crash

-----------------------------------------------------------------------------
\* prepare(for:): whatever the fields hold, the window shows a new player.
Login ==
    /\ alive
    /\ phase = "running"
    /\ screen = "login"
    /\ screen' = "player"
    /\ UNCHANGED <<playerVars, storeVars, skipping, auxVars>>

\* A click in the player's view.
Mouse ==
    /\ screen = "player"
    /\ phase = "running"
    /\ ~skipping
    /\ \/ \E r \in Player!Rows \cup {Player!NoRow} : Player!TableViewSelectionDidChange(r)
       \/ Player!PlayBtnTouched
       \/ Player!PreviousBtnTouched
    /\ StoreFollows
    /\ UNCHANGED <<appVars, auxVars>>

\* The skip of the song at row i is recorded, then the handler goes on.
Record(i) ==
    /\ Store!RecordSkip(i)
    /\ isPlaying' = FALSE
    /\ skipping' = TRUE
    /\ UNCHANGED <<alive, currentMusicIndex, selectedRow, player, currentMusicPlayer,
                   playBtnEnabled, playBtnImage, maxValue, shown, progressRunning, ticks,
                   screen, atLaunch>>

\* Bug variant: the skip is recorded for the song it moves to.
SkipBeginsForNext ==
    /\ alive
    /\ screen = "player"
    /\ ~skipping
    /\ Player!NextIndex \in Player!Rows
    /\ Record(Player!NextIndex)
    /\ pressed' = [pressed EXCEPT ![currentMusicIndex] = @ + 1]

\* The handler to line 218.  An empty list traps.
SkipToSave ==
    /\ alive
    /\ ~skipping
    /\ IF currentMusicIndex \in Player!Rows
       THEN /\ Record(currentMusicIndex)
            /\ pressed' = [pressed EXCEPT ![currentMusicIndex] = @ + 1]
       ELSE /\ Player!SkipBtnTouched
            /\ Store!Crash
            /\ UNCHANGED <<appVars, auxVars>>

\* skipBtnTouched from the button or a key; both exist once the player's view is
\* loaded.
SkipBegins == screen = "player" /\ SkipToSave

\* skipBtnTouched from line 263.
SkipMoves ==
    /\ skipping
    /\ Player!SkipBtnTouched
    /\ StoreFollows
    /\ skipping' = FALSE
    /\ UNCHANGED <<screen, auxVars>>

-----------------------------------------------------------------------------
\* The queue "progress", the main queue and the end of a song.
Background ==
    /\ \/ Player!ProgressPost
       \/ ~skipping /\ Player!ProgressTick
       \/ Player!SongEnds
    /\ StoreFollows
    /\ UNCHANGED <<appVars, auxVars>>

\* Bug variant: the delegate lets the process end before the dialog has returned.
QuitUnasked ==
    /\ ~skipping
    /\ \/ Store!ShouldTerminate
       \/ phase = "presenting error" /\ phase' = "quit" /\ context' = store /\ UNCHANGED store
    /\ IF phase' = "quit" THEN Player!Terminate ELSE UNCHANGED playerVars
    /\ UNCHANGED <<appVars, auxVars>>

\* applicationShouldTerminate up to its return or its next dialog.
Quit ==
    /\ ~skipping
    /\ \/ Store!ShouldTerminate
       \/ Store!ErrorPresented
       \/ Store!CancelChosen
       \/ Store!QuitAnywayChosen
    /\ IF phase' = "quit" THEN Player!Terminate ELSE UNCHANGED playerVars
    /\ UNCHANGED <<appVars, auxVars>>

\* The process is killed, or a handler of the camera traps on its thread.
Kill ==
    /\ Player!Terminate
    /\ Store!Crash
    /\ UNCHANGED <<appVars, auxVars>>

\* Bug variant: the player finds its play list where the last process left it.
LaunchRestored ==
    /\ alive' = TRUE
    /\ UNCHANGED <<currentMusicIndex, selectedRow, player, isPlaying, currentMusicPlayer,
                   playBtnEnabled, playBtnImage, maxValue, shown, progressRunning, ticks>>
    /\ Store!Launch
    /\ screen' = "login"
    /\ skipping' = FALSE
    /\ atLaunch' = Totals(store)
    /\ pressed' = [s \in Player!Rows |-> 0]

\* A new process: the login window first.
Launch ==
    /\ Player!Relaunch
    /\ Store!Launch
    /\ screen' = "login"
    /\ skipping' = FALSE
    /\ atLaunch' = Totals(store)
    /\ pressed' = [s \in Player!Rows |-> 0]

Next ==
    \/ Login
    \/ Mouse
    \/ SkipBegins
    \/ SkipMoves
    \/ Background
    \/ Quit
    \/ Kill
    \/ Launch

Spec == Init /\ [][Next]_vars

-----------------------------------------------------------------------------
(***************************************************************************)
(* Properties.                                                             *)
(***************************************************************************)

\* The parts agree on whether there is a process, and before the login nothing
\* has been played or recorded by it: the monitor is not there yet.
LoginComesFirst ==
    /\ alive <=> phase \in Store!Alive
    /\ alive /\ screen = "login" => player = Player!NoRow /\ ~skipping /\ ~Store!HasChanges

\* Whatever the player did between the skips - nested loads, files that refuse,
\* a previous - each skip is on the account of the song that was current when it
\* was pressed: a process knows what was stored when it started and what was
\* pressed since.
SkipsGoToTheSkippedSong ==
    alive => \A s \in Player!Rows : Totals(context)[s] = atLaunch[s] + pressed[s]

\* However skips, quits that are cancelled, kills and launches alternate, no song has
\* two rows, as long as no fetch throws.
OneRowPerSong == Store!OneRowPerSong

\* A quit without question has stored every skip pressed in the process, those
\* pressed in a dialog of an earlier attempt included.
QuitStoresAllPressed ==
    [][phase' = "quit" /\ phase # "asking" =>
        \A s \in Player!Rows : Totals(store')[s] = atLaunch[s] + pressed[s]]_vars

\* In the middle of a skip, after the record and before the move, no song sounds.
SilentWhileSkipping == skipping /\ alive => ~isPlaying

\* The application implements its player: what the player's handlers promise
\* holds although a skip is split and a process may end in the middle of it.
ImplementsPlayback == Player!Spec

\* And it implements the skip records.
ImplementsSkipStore == Store!Spec
=============================================================================
