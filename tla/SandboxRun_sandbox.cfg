SPECIFICATION Spec
CONSTANTS
  NumLines = 2
  BatchSize = 1
  DrainAt = 2
  MaxErrors = 1
INVARIANTS
  VerdictFits
  LinesSurviveSuccess
  StreamComplete
  ContainerAccountedFor
PROPERTIES
  LinesReachTheTable
  RunEnds
CHECK_DEADLOCK FALSE
