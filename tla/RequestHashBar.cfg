\* Names, addresses and seats that may hold the separator.
CONSTANTS
  Letter = {x, bar}
  Separator = bar
  EventId = {e1}
  MaxName = 2
  MaxEmail = 1
  MaxSeat = 1
SPECIFICATION Spec
INVARIANTS
  RefusedIffDifferent
