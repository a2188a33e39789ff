SPECIFICATION UndoSpec
CHECK_DEADLOCK FALSE
CONSTANTS
  Keys = {"Z", "SPACE", "TAB", "RETURN", "BACKSPACE", "UP", "DOWN", "LEFT", "RIGHT", "LCTRL", "LSHIFT", "CAPSLOCK"}
  LetterKeys = {"Z"}
  NumberKeys = {}
  Height = 2
  Width = 2
  MaxHistory = 3
  MaxSearch = 0
INVARIANTS UndoTypeOK
PROPERTIES UndoRestores
