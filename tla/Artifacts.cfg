SPECIFICATION Spec
CONSTANTS
    Deployments <- MCDeployments
    MaxAttempts = 2
    MaxCommands = 2
    MaxPaths = 2
    Versions = {v1, v2}
    v1 = v1
    v2 = v2
    NoFile = NoFile
    SizeOf <- MCSizeOf
    MaxArtifactBytes = 1
    MaxArtifactTotal = 2
    Cleaners = {k1, k2}
    CleanupLimit = 2
SYMMETRY Symmetry
INVARIANT OutputsRegistered
INVARIANT ArtifactKeepsFile
INVARIANT FilesReclaimed
CHECK_DEADLOCK FALSE
