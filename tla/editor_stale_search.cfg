SPECIFICATION Spec
CHECK_DEADLOCK FALSE
CONSTANTS
  Keys = {"Z", "RETURN", "ESCAPE", "LCTRL"}
  LetterKeys = {"Z"}
  NumberKeys = {}
  Height = 2
  Width = 3
  MaxHistory = 2
  MaxSearch = 1
INVARIANTS NoAssertFailure
