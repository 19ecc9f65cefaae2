SPECIFICATION Spec
CONSTANTS
  Configs <- AllConfigs
  Role = {"lint", "test"}
  File <- AllFiles
  Plans <- AllPlans
  Dangerous = {"build"}
  Tier <- Taxonomy
  Source = {"code"}
  MaxRuns = 2
  MaxActs = 1
  Edited = {"doc", "code"}
  Staged = {"code"}
  Commands <- AllCommands
INVARIANTS TypeOK ResultIsTrue  TouchedIsValidated TouchedIsWithinBudget
PROPERTY CommittedIsAccountedFor
