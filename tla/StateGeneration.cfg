CONSTANTS
  Missing = Missing
  Unreadable = Unreadable
  MaxChanges = 2
  MaxStarts = 2
  MaxLast = 3
  MaxImages = 2
SPECIFICATION GenerationSpec
INVARIANTS RestorableSavesAreWhole
PROPERTIES NothingToldGoesBack
CHECK_DEADLOCK FALSE
