--------------------------- MODULE PlaybackProofs ---------------------------
(***************************************************************************)
(* Proofs about Playback for every Count, every set of files that may      *)
(* refuse to open or carry bad artwork, and every bound on the samples.    *)
(*                                                                         *)
(* The invariants are proved together, as one inductive invariant that     *)
(* adds one fact to them: a selected row means an enabled play button.     *)
(* PlayerIsControllable needs it where a load finds its row selected, for  *)
(* then there is no nested notification to enable the button.              *)
(***************************************************************************)
EXTENDS Playback, TLAPS

SelectionEnablesPlayBtn == selectedRow # NoRow => playBtnEnabled

IInv ==
    /\ TypeOK
    /\ CurrentSongAgrees
    /\ PlayerIsControllable
    /\ PauseImageWhilePlaying
    /\ SampleHasPlayer
    /\ SelectionEnablesPlayBtn

-----------------------------------------------------------------------------
\* A trap changes nothing the invariant speaks about but alive.
LEMMA TrapPreservesIInv ==
    ASSUME IInv, Trap
    PROVE  IInv'
BY DEF IInv, TypeOK, CurrentSongAgrees, PlayerIsControllable, PauseImageWhilePlaying,
       SampleHasPlayer, SelectionEnablesPlayBtn,
       Trap, playerVars, buttonVars, progressVars

\* load_Play_Music preserves the invariant from each handler that calls it: the
\* button is enabled if a row is selected or there is a player.
LEMMA LoadPreservesIInv ==
    ASSUME IInv,
           NEW i, NEW sel \in Rows \cup {NoRow}, NEW enabled \in BOOLEAN,
           sel # NoRow => enabled,
           player # NoRow => enabled,
           LoadPlayMusic(i, sel, enabled)
    PROVE  IInv'
<1>1. CASE Trap
  BY <1>1, TrapPreservesIInv
<1>2. CASE /\ i \in Rows
           /\ currentMusicIndex' = i
           /\ OpenFails(i, sel)
           /\ playBtnEnabled' = enabled
  <2>1. TypeOK'
    <3>1. currentMusicIndex' \in Nat
      BY <1>2, CountAssumption DEF Rows
    <3> QED
      BY <1>2, <3>1 DEF IInv, TypeOK, OpenFails, progressVars
  <2>2. CurrentSongAgrees'
    BY <1>2 DEF CurrentSongAgrees, OpenFails
  <2>3. PlayerIsControllable' /\ SelectionEnablesPlayBtn'
    BY <1>2 DEF IInv, PlayerIsControllable, SelectionEnablesPlayBtn, OpenFails
  <2>4. PauseImageWhilePlaying' /\ SampleHasPlayer'
    BY <1>2 DEF IInv, PauseImageWhilePlaying, SampleHasPlayer,
                OpenFails, playerVars, progressVars
  <2> QED
    BY <2>1, <2>2, <2>3, <2>4 DEF IInv
<1>3. CASE /\ i \in Rows
           /\ currentMusicIndex' = i
           /\ OpenSucceeds(i, sel)
           /\ playBtnEnabled' = (enabled \/ sel # i)
  <2>1. TypeOK'
    <3>1. currentMusicIndex' \in Nat
      BY <1>3, CountAssumption DEF Rows
    <3>2. playBtnEnabled' \in BOOLEAN
      BY <1>3, Zenon
    <3> QED
      BY <1>3, <3>1, <3>2 DEF IInv, TypeOK, OpenSucceeds, NewPlayer, SelectRow
  <2>2. CurrentSongAgrees'
    BY <1>3 DEF CurrentSongAgrees, OpenSucceeds, NewPlayer, SelectRow
  <2>3. PlayerIsControllable' /\ SelectionEnablesPlayBtn'
    BY <1>3 DEF PlayerIsControllable, SelectionEnablesPlayBtn, OpenSucceeds, NewPlayer, SelectRow
  <2>4. PauseImageWhilePlaying' /\ SampleHasPlayer'
    <3>1. i # NoRow
      BY <1>3, CountAssumption DEF Rows, NoRow
    <3> QED
      BY <1>3, <3>1
         DEF PauseImageWhilePlaying, SampleHasPlayer,
             OpenSucceeds, NewPlayer, SelectRow
  <2> QED
    BY <2>1, <2>2, <2>3, <2>4 DEF IInv
<1> QED
  BY <1>1, <1>2, <1>3 DEF LoadPlayMusic

-----------------------------------------------------------------------------
\* The controller as viewDidLoad leaves it satisfies the invariant.
LEMMA InitIInv == Init => IInv
<1>1. 0 \in 0 .. MaxTicks
  BY MaxTicksAssumption
<1>2. ASSUME Init PROVE TypeOK
  BY <1>1, <1>2 DEF Init, TypeOK
<1>3. Init => SampleHasPlayer
  BY DEF Init, SampleHasPlayer
<1> QED
  BY <1>2, <1>3 DEF Init, IInv, CurrentSongAgrees, PlayerIsControllable,
                    PauseImageWhilePlaying, SelectionEnablesPlayBtn

\* Every handler, and everything that happens beside the handlers, preserves it.
LEMMA NextIInv == IInv /\ [Next]_vars => IInv'
<1> SUFFICES ASSUME IInv, [Next]_vars
             PROVE  IInv'
  OBVIOUS
<1>t. TypeOK
  BY DEF IInv
<1>1. ASSUME NEW r \in Rows \cup {NoRow}, TableViewSelectionDidChange(r)
      PROVE  IInv'
  BY <1>1, LoadPreservesIInv DEF TableViewSelectionDidChange
<1>2. CASE PlayBtnTouched
  BY <1>2 DEF IInv, TypeOK, CurrentSongAgrees, PlayerIsControllable, PauseImageWhilePlaying,
              SampleHasPlayer, SelectionEnablesPlayBtn,
              PlayBtnTouched, PauseOrPlay, progressVars
<1>3. CASE PreviousBtnTouched
  BY <1>t, <1>3, LoadPreservesIInv
     DEF IInv, TypeOK, PlayerIsControllable, SelectionEnablesPlayBtn, PreviousBtnTouched
<1>4. CASE SkipBtnTouched
  BY <1>t, <1>4, LoadPreservesIInv, TrapPreservesIInv
     DEF IInv, TypeOK, PlayerIsControllable, SelectionEnablesPlayBtn, SkipBtnTouched
<1>5. CASE SongEnds
  BY <1>5 DEF IInv, TypeOK, CurrentSongAgrees, PlayerIsControllable, PauseImageWhilePlaying,
              SampleHasPlayer, SelectionEnablesPlayBtn,
              SongEnds, buttonVars, progressVars
<1>6. CASE ProgressPost
  BY <1>6, MaxTicksAssumption
     DEF IInv, TypeOK, CurrentSongAgrees, PlayerIsControllable, PauseImageWhilePlaying,
         SampleHasPlayer, SelectionEnablesPlayBtn,
         ProgressPost, playerVars, buttonVars
<1>7. CASE ProgressTick
  <2>1. CASE currentMusicPlayer = NoRow
    BY <1>7, <2>1, TrapPreservesIInv DEF ProgressTick, TakeSample
  <2>2. CASE currentMusicPlayer # NoRow
    BY <1>7, <2>2, MaxTicksAssumption
       DEF IInv, TypeOK, CurrentSongAgrees, PlayerIsControllable, PauseImageWhilePlaying,
           SampleHasPlayer, SelectionEnablesPlayBtn,
           ProgressTick, TakeSample, playerVars, buttonVars
  <2> QED
    BY <2>1, <2>2
<1>8. CASE Relaunch
  <2>1. 0 \in 0 .. MaxTicks
    BY MaxTicksAssumption
  <2>2. TypeOK'
    BY <1>8, <2>1 DEF TypeOK, Relaunch
  <2> QED
    BY <1>8, <2>2 DEF IInv, CurrentSongAgrees, PlayerIsControllable, PauseImageWhilePlaying,
                      SampleHasPlayer, SelectionEnablesPlayBtn, Relaunch
<1>9. CASE Terminate
  BY <1>9, TrapPreservesIInv DEF Terminate
<1>10. CASE UNCHANGED vars
  BY <1>10 DEF IInv, TypeOK, CurrentSongAgrees, PlayerIsControllable, PauseImageWhilePlaying,
              SampleHasPlayer, SelectionEnablesPlayBtn,
              vars, playerVars, buttonVars, progressVars
<1> QED
  BY <1>1, <1>2, <1>3, <1>4, <1>5, <1>6, <1>7, <1>8, <1>9, <1>10 DEF Next

\* The inductive invariant holds in every reachable state.
THEOREM IInvInvariant == Spec => []IInv
BY InitIInv, NextIInv, PTL DEF Spec

-----------------------------------------------------------------------------
\* Every variable keeps its type: among others no row outside musicList is ever
\* selected, played or shown while the program runs.
THEOREM TypeCorrect == Spec => []TypeOK
<1>1. IInv => TypeOK
  BY DEF IInv
<1> QED
  BY <1>1, IInvInvariant, PTL

\* Index, selection and player agree, however long the folder and whichever
\* handler started the song, unless the current file may refuse to open.
THEOREM CurrentSong == Spec => []CurrentSongAgrees
<1>1. IInv => CurrentSongAgrees
  BY DEF IInv
<1> QED
  BY <1>1, IInvInvariant, PTL

\* Whenever there is a player, playBtn is enabled.
THEOREM Controllable == Spec => []PlayerIsControllable
<1>1. IInv => PlayerIsControllable
  BY DEF IInv
<1> QED
  BY <1>1, IInvInvariant, PTL

\* What sounds is shown with the pause image.
THEOREM PauseImage == Spec => []PauseImageWhilePlaying
<1>1. IInv => PauseImageWhilePlaying
  BY DEF IInv
<1> QED
  BY <1>1, IInvInvariant, PTL

\* The forced unwrap in the sample block never meets nil.
THEOREM Samples == Spec => []SampleHasPlayer
<1>1. IInv => SampleHasPlayer
  BY DEF IInv
<1> QED
  BY <1>1, IInvInvariant, PTL

-----------------------------------------------------------------------------
\* A load that leaves something sounding leaves the song of its row sounding,
\* with that row selected.
LEMMA LoadPlaysItsRow ==
    ASSUME TypeOK, NEW i, NEW sel, NEW enabled,
           LoadPlayMusic(i, sel, enabled),
           currentMusicIndex' # currentMusicIndex,
           isPlaying'
    PROVE  player' = currentMusicIndex' /\ selectedRow' = currentMusicIndex'
BY DEF LoadPlayMusic, OpenFails, OpenSucceeds, NewPlayer, SelectRow, Trap

\* Moving to another song never leaves the old one sounding.
THEOREM MovingOnSilences == Spec => MovingOnSilencesOldSong
<1>1. ASSUME TypeOK, [Next]_vars,
             currentMusicIndex' # currentMusicIndex, isPlaying'
      PROVE  player' = currentMusicIndex' /\ selectedRow' = currentMusicIndex'
  <2>1. CASE \E r \in Rows \cup {NoRow} : TableViewSelectionDidChange(r)
    BY <1>1, <2>1, LoadPlaysItsRow DEF TableViewSelectionDidChange
  <2>2. CASE PreviousBtnTouched
    BY <1>1, <2>2, LoadPlaysItsRow DEF PreviousBtnTouched
  <2>3. CASE SkipBtnTouched
    BY <1>1, <2>3, LoadPlaysItsRow DEF SkipBtnTouched, Trap
  <2>4. CASE PlayBtnTouched \/ SongEnds \/ ProgressPost \/ ProgressTick
          \/ Terminate \/ Relaunch
    BY <1>1, <2>4 DEF PlayBtnTouched, PauseOrPlay, SongEnds, ProgressPost, ProgressTick,
                      TakeSample, Terminate, Relaunch, Trap
  <2>5. CASE UNCHANGED vars
    BY <1>1, <2>5 DEF vars
  <2> QED
    BY <1>1, <2>1, <2>2, <2>3, <2>4, <2>5 DEF Next
<1>2. TypeOK /\ [Next]_vars =>
        [currentMusicIndex' # currentMusicIndex /\ isPlaying'
            => player' = currentMusicIndex' /\ selectedRow' = currentMusicIndex']_vars
  BY <1>1
<1> QED
  BY <1>2, TypeCorrect, PTL DEF Spec, MovingOnSilencesOldSong
=============================================================================
