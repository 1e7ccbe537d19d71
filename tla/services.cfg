SPECIFICATION FairSpec
CONSTANTS
  MaxArgs = 3
  MaxLength = 8
  LastYear = 2099
  Times <- MCTimes
  MaxTicks = 3
  RESETS = 2
  RETRIES = 2
  PS2_TIMEOUT = 2
  PowerUp <- MCPowerUp
  Scancodes <- MCScancodes
  MaxTyped = 1
  MAX_EXP_DEVICES = 4
  MaxRetries = 2
  Devices <- MCDevices
  MaxLines = 4
  Memory = {0, 1, 2, 3}
  NameSet <- MCNames
  MaxName = 4
  PartLen = 2
  BodyLen = 2
  MaxNumber = 3
  PerSector = 2
  SlotCount = 7
  MaxOps = 3
  Commands <- MCCommands
  Builtins = {"dir"}
  Drives = {0, 1}
  Volumes <- MCVolumes
  Addresses = {0, 1, 2, 3}
  NUM_FILE_EXTENSIONS = 2
  MaxCommands = 2
  MaxFailures = 1
INVARIANT ArgsAreWords
INVARIANT RunsWhatWasTyped
INVARIANT ReadIsATime
INVARIANT ClockIsRight
INVARIANT FoundWorks
INVARIANT BoardsAgree
INVARIANT LoadIsFaithful
INVARIANT FilesKeepNames
 
 
PROPERTY LoadEnds
CHECK_DEADLOCK FALSE
