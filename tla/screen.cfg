SPECIFICATION ScreenSpec
CHECK_DEADLOCK FALSE
CONSTANTS
  Keys = {"Z", "TAB", "RETURN", "BACKSPACE", "ESCAPE", "LEFT", "LCTRL"}
  LetterKeys = {"Z"}
  NumberKeys = {}
  Height = 2
  Width = 2
  MaxHistory = 2
  MaxSearch = 1
INVARIANTS ScreenTypeOK OverrunNeedsLongLine
PROPERTIES ScreenShowsText
