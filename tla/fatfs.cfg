SPECIFICATION Spec
CONSTANTS
    n_fatent = 9
    PerFat = 3
    SS = 2
    csize = 1
    Handles = {h1}
    Paths <- MCPaths
    Modes <- MCModes
    Volumes <- MCVolumes
    MaxSize = 3
    MaxCalls = 3
    MaxCrashes = 1
    MaxFaults = 1
    FaultAt = {4}
INVARIANT ChainsSound
INVARIANT KeptSurvives
INVARIANT ClustersAccounted
INVARIANT ReadsBack
 
CHECK_DEADLOCK FALSE
