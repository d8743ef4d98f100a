\* Two publishers, batches of two rows, and nothing ever fails.
CONSTANTS
  Row = {1, 2}
  Audit = {}
  Worker = {w1, w2}
  BatchSize = 2
  MaxAttempts = 2
  Answer = {"created", "conflict"}
  MaxInterruptions = 0
SPECIFICATION Spec
INVARIANTS
  AtMostOnePost
