SPECIFICATION Spec
CONSTANTS
  Jobs = {j1}
  Apis = {a1}
  Requests = {r1}
  Loop = Loop
  Workers = {w1}
  Slots = {1}
  Messages = {m1}
  MaxDispatchAttempts = 2
  RetryLimit = 1
  MaxCrashes = 0
  MaxSlow = 0
  MaxErrors = 1
  NoOwner = NoOwner
  NoMessage = NoMessage
  NoWorker = NoWorker
  NoJob = NoJob
  NoSlot = NoSlot
SYMMETRY Symmetry
PROPERTIES
  ThrowingControllerEndsJob
CHECK_DEADLOCK FALSE
