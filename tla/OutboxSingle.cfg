\* One publisher, as the service is deployed: batches of two rows.
CONSTANTS
  Row = {1, 2, 3}
  Audit = {2}
  Worker = {w1}
  BatchSize = 2
  MaxAttempts = 2
  Answer = {"created", "conflict", "rejected", "error", "lost"}
  MaxInterruptions = 3
SPECIFICATION FairSpec
INVARIANTS
  TypeOK
  SentMeansDelivered
  NoPrematureFailure
  PostsBounded
PROPERTIES
  ImplementsPromise
  EveryRowSettles
