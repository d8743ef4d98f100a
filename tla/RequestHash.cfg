\* Two letters, one of them the separator, in names, addresses and seats.
CONSTANTS
  Letter = {x, bar}
  Separator = bar
  EventId = {e1}
  MaxName = 2
  MaxEmail = 1
  MaxSeat = 1
SPECIFICATION Spec
INVARIANTS
  MisledOnlyBySeparator
