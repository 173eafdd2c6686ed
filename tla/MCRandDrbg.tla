----------------------------- MODULE MCRandDrbg -----------------------------
(***************************************************************************)
(* Instances of RandDrbg for TLC.                                          *)
(***************************************************************************)
EXTENDS RandDrbg, TLC

\* The threads of a process are interchangeable.
Interchangeable == Permutations(Threads)

=============================================================================
