\* Two clicks with one key, a request for seats and a triggered synchronisation on a
\* pool of two.
CONSTANTS
  Clicks = {{r1, r2}}
  Cancellation = {}
  Lookup = {l}
  Trigger = {s}
  PoolSize = 2
SPECIFICATION Spec
INVARIANTS
  NoUseAfterClose
  PoolNeverStuck
PROPERTIES
  EveryRequestEnds
  ShutdownEnds
