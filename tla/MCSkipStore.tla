---------------------------- MODULE MCSkipStore -----------------------------
(***************************************************************************)
(* SkipStore for TLC: two songs, room for a second and a third row of a    *)
(* song, and for a row to be raised more than once.                        *)
(***************************************************************************)
EXTENDS SkipStore
=============================================================================
