SPECIFICATION Spec
CONSTANTS
  LineLen = 3
  Printable = {"a"}
  SerialDepth = 3
  MaxKeys = 3
  Timeout = 3
  Requests = {0, 1}
  WordSize = 4
INVARIANT NeverTooMany
