---------------------------- MODULE MCRunWorker -----------------------------
(***************************************************************************)
(* Instances of RunWorker for TLC.  Workers are interchangeable.           *)
(***************************************************************************)
EXTENDS RunWorker, TLC

Symmetry == Permutations(Workers)
=============================================================================
