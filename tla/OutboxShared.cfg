\* Two publishers whose batches hold two rows: after its first commit the
\* rest of a publisher's batch is free for the other to fetch.
CONSTANTS
  Row = {1, 2}
  Audit = {}
  Worker = {w1, w2}
  BatchSize = 2
  MaxAttempts = 2
  Answer = {"created", "conflict", "rejected", "error", "lost"}
  MaxInterruptions = 1
SPECIFICATION FairSpec
INVARIANTS
  SentMeansDelivered
  NoPrematureFailure
  WaitersHoldNothing
PROPERTIES
  EveryRowSettles
