----------------------------- MODULE MCArtifacts -----------------------------
(***************************************************************************)
(* Two files, two contents of the same size. Each deployment is given what *)
(* makes its own interleavings: two attempts, orphaned containers and      *)
(* fallbacks, the limit of the executor, or concurrent cleanups.           *)
(***************************************************************************)
EXTENDS Artifacts, TLC

CONSTANTS v1, v2

MCSizeOf == [v \in Versions |-> 1]

Symmetry == Permutations(Versions)

MCDeployments ==
    {\* Two attempts of which the first is stale.
     [store |-> "memory", executor |-> "local", maxArtifacts |-> 2, deleteFiles |-> TRUE,
      attempts |-> 2, commands |-> 2, cleanups |-> 0, faults |-> 1],
     \* Containers that go on, fallbacks, and calls of the store that fail.
     [store |-> "postgres", executor |-> "container", maxArtifacts |-> 2, deleteFiles |-> TRUE,
      attempts |-> 1, commands |-> 2, cleanups |-> 0, faults |-> 1],
     \* Too many files for a scan, and a container that writes for an attempt that is stale.
     [store |-> "postgres", executor |-> "container", maxArtifacts |-> 1, deleteFiles |-> TRUE,
      attempts |-> 2, commands |-> 1, cleanups |-> 1, faults |-> 1],
     \* Cleanups at the same time, one of which may die.
     [store |-> "postgres", executor |-> "local", maxArtifacts |-> 2, deleteFiles |-> TRUE,
      attempts |-> 1, commands |-> 2, cleanups |-> 2, faults |-> 1],
     [store |-> "memory", executor |-> "local", maxArtifacts |-> 2, deleteFiles |-> TRUE,
      attempts |-> 1, commands |-> 2, cleanups |-> 2, faults |-> 1],
     \* A cleanup of the rows alone.
     [store |-> "memory", executor |-> "local", maxArtifacts |-> 2, deleteFiles |-> FALSE,
      attempts |-> 1, commands |-> 1, cleanups |-> 1, faults |-> 0]}
=============================================================================
