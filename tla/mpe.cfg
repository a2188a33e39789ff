SPECIFICATION Spec
CHECK_DEADLOCK FALSE
CONSTANTS
  NCpu = 3
INVARIANTS TypeOK BootStackExclusive EntryAfterAllAreReady ExitsOnce
PROPERTIES BootCompletes EndPowersOff
