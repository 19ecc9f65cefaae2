SPECIFICATION Spec
CONSTANTS
  Configs <- AllConfigs
  Role = {"lint", "test"}
  File <- AllFiles
  Plans <- AllPlans
  Dangerous = {"build"}
  Tier <- Taxonomy
  Source = {"code"}
  MaxRuns = 1
  MaxActs = 1
  Edited = {"doc", "code"}
  Staged = {"code"}
  Commands <- RealCommands
INVARIANT ApprovedGoesOn
