-------------------------- MODULE MCReadWriteMutex --------------------------
(***************************************************************************)
(* ReadWriteMutex for TLC.                                                 *)
(***************************************************************************)
EXTENDS ReadWriteMutex
=============================================================================
