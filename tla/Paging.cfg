\* Up to five events at three times, so that some share theirs, on pages of two.
CONSTANTS
  Event = {e1, e2, e3, e4, e5}
  Time = {1, 2, 3}
  PageSize = 2
  LastPage = 2
  MaxWrites = 3
SPECIFICATION Spec
SYMMETRY Symmetry
INVARIANTS
  TypeOK
  SeenOnce
  NothingHidden
CHECK_DEADLOCK FALSE
