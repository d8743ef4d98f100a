\* One seat, two buyers, two cancellations of its ticket.
CONSTANTS
  r1 = r1
  r2 = r2
  r3 = r3
  r4 = r4
  c1 = c1
  c2 = c2
  ann = ann
  bob = bob
  a = a
  b = b
  k1 = k1
  k2 = k2
  l1 = l1
  None = None
  Person = {ann, bob}
  LockId = {l1}
  Registration = {r1, r2}
  Cancellation = {c1, c2}
  Seat = {a}
  Key = {}
  KeyOf <- ResaleKey
  PersonOf <- ResalePerson
  SeatOf <- ResaleSeat
  LockOf <- NoLock
  MaxFaults = 1
SPECIFICATION Spec
INVARIANTS
  Confirmed
  InStep
  CancelledCounted
