\* A request and its repetition; one answer of the provider is lost.
CONSTANTS
  r1 = r1
  r2 = r2
  r3 = r3
  r4 = r4
  c1 = c1
  c2 = c2
  ann = ann
  bob = bob
  a = a
  b = b
  k1 = k1
  k2 = k2
  l1 = l1
  None = None
  Person = {ann, bob}
  LockId = {l1}
  Registration = {r1, r2}
  Cancellation = {}
  Seat = {a, b}
  Key = {k1}
  KeyOf <- RetryKey
  PersonOf <- RetryPerson
  SeatOf <- RetrySeat
  LockOf <- RetryLock
  MaxFaults = 1
SPECIFICATION Spec
INVARIANTS
  RetryCanSucceed
