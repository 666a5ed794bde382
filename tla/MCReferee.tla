------------------------------ MODULE MCReferee ------------------------------
(***************************************************************************)
(* One swap: swaps share no state but the worker pool.                     *)
(***************************************************************************)
EXTENDS RefereeSafety

WorkerSymmetry == Permutations(Workers)
=============================================================================
