------------------------------ MODULE MCMac3am -------------------------------
(***************************************************************************)
(* Mac3am for TLC: three files, the middle one of which may refuse to      *)
(* open, so that a skip wraps around or runs past the end.                 *)
(***************************************************************************)
EXTENDS Mac3am

MCMayFail == {1}
MCNone    == {}
=============================================================================
