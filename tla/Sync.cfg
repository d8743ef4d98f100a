\* Two calls, in one process or in two, under a provider that lists by changed_at
\* or by id, pages of every size, days of two instants, and fewer pages than a
\* restless provider may fill.
CONSTANTS
  s1 = s1
  s2 = s2
  p1 = p1
  p2 = p2
  Event = {1, 2}
  Run <- MCRun
  Process = {p1, p2}
  Homes <- MCHomes
  DayLength = 2
  BatchSize = 2
  MaxPages = 2
  MaxChanges = 3
  MaxFaults = 1
SPECIFICATION FairSpec
INVARIANTS
  TypeOK
  NothingSkipped
PROPERTIES
  NeverBackwards
  WatermarkNeverBack
  Converges
