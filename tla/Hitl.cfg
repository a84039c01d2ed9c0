CONSTANTS
  MODE = "adaptive"
  PlannerActions <- AllActions
  LlmScores = {2}
  Files = {f1, f2}
  MaxTasks = 2
  MaxSessions = 2
  MaxKills = 1
SPECIFICATION FairSpec
INVARIANTS
  AutoRunsAreEarned
  AtMostLastRunUnlogged
  TaskHasOneVerdict
PROPERTIES
  ImplementsAuditTrail
  CleanupKeepsToItsList
  TaskEnds
CHECK_DEADLOCK FALSE
