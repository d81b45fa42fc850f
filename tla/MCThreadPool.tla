---------------------------- MODULE MCThreadPool ----------------------------
(***************************************************************************)
(* ThreadPool for TLC.                                                     *)
(***************************************************************************)
EXTENDS ThreadPool, TLC

\* The threads of a kind are interchangeable.
Symmetry == Permutations(Workers) \cup Permutations(Clients)

=============================================================================
