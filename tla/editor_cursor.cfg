SPECIFICATION Spec
CHECK_DEADLOCK FALSE
CONSTANTS
  Keys = {"Z", "SPACE", "TAB", "RETURN", "BACKSPACE", "ESCAPE", "UP", "DOWN", "LEFT", "RIGHT", "LCTRL"}
  LetterKeys = {"Z"}
  NumberKeys = {}
  Height = 2
  Width = 2
  MaxHistory = 3
  MaxSearch = 1
INVARIANTS EditorTypeOK
PROPERTIES CursorHiddenOnlyBy
