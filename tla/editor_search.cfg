SPECIFICATION FairSpec
CHECK_DEADLOCK FALSE
CONSTANTS
  Keys = {"TAB", "SPACE", "RETURN", "BACKSPACE", "ESCAPE", "F2", "CAPSLOCK", "LCTRL", "Z"}
  LetterKeys = {"Z"}
  NumberKeys = {}
  Height = 1
  Width = 2
  MaxHistory = 3
  MaxSearch = 2
INVARIANTS HaltsOnlyOnStaleResults
PROPERTIES SearchFindsExactly ResultsFrozen TextIsCleared
