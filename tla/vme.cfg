SPECIFICATION Spec
CHECK_DEADLOCK FALSE
CONSTANTS
  Pages = {1, 2, 3, 4, 5, 6, 7, 8}
  Spaces = {s, t}
  Words = {0, 1}
  KernelDirs = {0}
  Frames = {f}
  None = None
  NoPage = NoPage
INVARIANTS TypeOK PagesAreOwnedOnce SpaceCanRun
PROPERTIES OnlyCopiesLosePages ImplementsAddressSpaces
CONSTRAINT KernelFirst
ACTION_CONSTRAINT LowestFirst
