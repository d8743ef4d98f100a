\* Three requests at once, a list that lives for two instants, calls of one.
CONSTANTS
  Request = {q1, q2, q3}
  TTL = 2
  Transit = 1
  MaxTime = 6
  MaxChanges = 3
SPECIFICATION Spec
INVARIANTS
  StalenessBounded
  OwnChangesSeen
