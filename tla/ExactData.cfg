SPECIFICATION Spec
CONSTANTS
  Words <- MCWords
  Settings <- MCSettings
  MaxEntries = 5
CHECK_DEADLOCK FALSE
INVARIANTS SameForBoth UsedUp
PROPERTY StoreImplemented
