SPECIFICATION CoreSpec
CONSTANTS
  NumRoles = 4
  FindingKeys = {"k1", "k2"}
  MaxCodexAttempts = 2
  RoleMaxConcurrency = 2
  MaxIterations = 3
  Cancellable = TRUE
  Plans <- MCPlans
INVARIANTS
  FixIsExported
CHECK_DEADLOCK FALSE
