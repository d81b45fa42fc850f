--------------------------- MODULE MCParallelFor ---------------------------
(***************************************************************************)
(* ParallelFor for TLC.                                                    *)
(***************************************************************************)
EXTENDS ParallelFor
=============================================================================
