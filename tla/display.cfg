SPECIFICATION DisplaySpec
CONSTANTS
  Width = 3
  Height = 3
  Chars = {"a", "b"}
INVARIANT ScreenAgrees
INVARIANT EraseUndoes
