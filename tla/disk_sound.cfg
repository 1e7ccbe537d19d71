SPECIFICATION DiskFairSpec
CONSTANTS
    Volumes = 2
    DriveSectors = 3
    RegisterSize = 2
    Contents = {0, 1}
    MaxCount = 2
    SectorsPerTrack = 1
    WriteFaults = FALSE
INVARIANT ReadIsFaithful
INVARIANT AckedIsStored
PROPERTY CallsReturn
