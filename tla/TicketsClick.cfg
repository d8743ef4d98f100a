\* A double click, a changed request under its key, and a key that collides.
CONSTANTS
  r1 = r1
  r2 = r2
  r3 = r3
  r4 = r4
  c1 = c1
  c2 = c2
  ann = ann
  bob = bob
  a = a
  b = b
  k1 = k1
  k2 = k2
  l1 = l1
  None = None
  Person = {ann, bob}
  LockId = {l1}
  Registration = {r1, r2, r3, r4}
  Cancellation = {}
  Seat = {a, b}
  Key = {k1, k2}
  KeyOf <- ClickKey
  PersonOf <- ClickPerson
  SeatOf <- ClickSeat
  LockOf <- ClickLock
  MaxFaults = 2
SPECIFICATION FairSpec
INVARIANTS
  TypeOK
  KeyBuysOnce
  Confirmed
  AnswersAgree
  LockServed
PROPERTIES
  KeepsKeyPromise
  EveryRequestAnswered
