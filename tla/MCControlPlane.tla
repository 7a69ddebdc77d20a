--------------------------- MODULE MCControlPlane ---------------------------
(***************************************************************************)
(* Instances of ControlPlane for TLC.  Requests and attempts are           *)
(* interchangeable: no definition tells two of them apart.                 *)
(***************************************************************************)
EXTENDS ControlPlane, TLC

Symmetry == Permutations(Requests) \cup Permutations(Attempts)
=============================================================================
