SPECIFICATION AgentSpec
CONSTANTS
  Script = {s1, s2}
  SourcesV1 <- FirstSources
  Addition = "azure"
  Window = 200
  KeepCycles = 1
  KeepPackages = 2
  Conflicts = TRUE
  Kills = TRUE
  MaxCommands = 3
  MaxRounds = 2
SYMMETRY Scripts
INVARIANTS
  AgentTypeOK
  OwnerReviewed
  LostOnlyToOverlap
  EditEndsWriting
  ListedIsComplete
  ListedIsOnDisk
CHECK_DEADLOCK FALSE
