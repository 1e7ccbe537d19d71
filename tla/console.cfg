SPECIFICATION FairSpec
CONSTANTS
  LineLen = 3
  Printable = {"a"}
  SerialDepth = 3
  MaxKeys = 3
  Timeout = 3
  Requests = {1, 2}
  WordSize = 4
INVARIANT NoKeyLost
INVARIANT CommandsAreLines
INVARIANT ShortOnlyAfterSilence
PROPERTY LoopGoesOn
