CONSTANTS
  MODE = "adaptive"
  PlannerActions <- AdaptiveActions
  LlmScores = {2, 9}
  Files = {f1}
  MaxTasks = 2
  MaxSessions = 1
  MaxKills = 0
SPECIFICATION Spec
INVARIANTS
  EveryDecisionLogged
CHECK_DEADLOCK FALSE
