----------------------------- MODULE MCRunQuota -----------------------------
(* RunQuota for TLC: creates are interchangeable, and so are finishers. *)
EXTENDS RunQuota, TLC

RequestSymmetry == Permutations(Creates) \cup Permutations(Finishers)
=============================================================================
