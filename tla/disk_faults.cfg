SPECIFICATION DiskSpec
CONSTANTS
    Volumes = 1
    DriveSectors = 3
    RegisterSize = 2
    Contents = {0, 1}
    MaxCount = 2
    SectorsPerTrack = 1
    WriteFaults = TRUE
INVARIANT WriteOkIsStored
