SPECIFICATION FairSpec
CONSTANTS
  TaskId = {"a", "b", "c"}
  File = {"f.py", "new", "long", "../x"}
  Plans <- AllPlans
  Existing = {"f.py", "long"}
  Large = {"long"}
  Python = {"f.py"}
  Unsafe = {"../x"}
  Callers = {"preview", "ci", "worker"}
  Forces = {"none", "gemini", "claude", "unknown"}
  MaxExecutions = 2
CHECK_DEADLOCK FALSE
INVARIANTS TypeOK CyclesAreReal DependentsStop NothingLost StagingFollowsChanges RoutedByPolicy
PROPERTY ExecutionEnds
