SPECIFICATION AgentSpec
CONSTANTS
  Script = {s1}
  SourcesV1 <- FirstSources
  Addition = "azure"
  Window = 4
  KeepCycles = 2
  KeepPackages = 2
  Conflicts = FALSE
  Kills = FALSE
  MaxCommands = 2
  MaxRounds = 1
INVARIANTS
  RequestsHold
CHECK_DEADLOCK FALSE
