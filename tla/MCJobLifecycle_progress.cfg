SPECIFICATION FairSpec
CONSTANTS
  Jobs = {j1}
  Apis = {a1}
  Requests = {r1}
  Loop = Loop
  Workers = {w1}
  Slots = {1}
  Messages = {m1, m2, m3}
  MaxDispatchAttempts = 2
  RetryLimit = 1
  MaxCrashes = 1
  MaxSlow = 1
  MaxErrors = 1
  NoOwner = NoOwner
  NoMessage = NoMessage
  NoWorker = NoWorker
  NoJob = NoJob
  NoSlot = NoSlot
PROPERTIES
  SubmittedJobSettles
CHECK_DEADLOCK FALSE
