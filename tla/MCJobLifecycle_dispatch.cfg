SPECIFICATION Spec
CONSTANTS
  Jobs = {j1, j2}
  Apis = {a1}
  Requests = {r1}
  Loop = Loop
  Workers = {w1}
  Slots = {1}
  Messages = {m1, m2, m3}
  MaxDispatchAttempts = 2
  RetryLimit = 0
  MaxCrashes = 0
  MaxSlow = 2
  MaxErrors = 1
  NoOwner = NoOwner
  NoMessage = NoMessage
  NoWorker = NoWorker
  NoJob = NoJob
  NoSlot = NoSlot
SYMMETRY Symmetry
PROPERTIES
  LeaseEndedByItsHolder
CHECK_DEADLOCK FALSE
