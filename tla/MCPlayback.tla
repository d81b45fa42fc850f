----------------------------- MODULE MCPlayback -----------------------------
(***************************************************************************)
(* Playback for TLC: a folder of four files, so that a skip can land on a  *)
(* row, wrap around to the first one and run past the end of the list.     *)
(***************************************************************************)
EXTENDS Playback

MCMayFail    == {1, 3}   \* .DS_Store and a file that may be deleted
MCBadArtwork == {3}
MCNone       == {}

\* A user who goes through the list with the buttons alone: in these behaviours
\* only a skip moves the index as a skip does, and only a skip can trap.
MCButtonsNext ==
    \/ PlayBtnTouched
    \/ PreviousBtnTouched
    \/ SkipBtnTouched
    \/ SongEnds
    \/ ProgressPost
    \/ ProgressTick
    \/ Relaunch

MCButtonsSpec ==
    Init /\ [][MCButtonsNext]_vars /\ WF_vars(ProgressPost) /\ WF_vars(ProgressTick)
=============================================================================
