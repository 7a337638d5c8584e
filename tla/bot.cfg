SPECIFICATION BotSpec
CONSTANTS
  Limit = 1
  MaxUpdates = 3
  MaxLives = 3
INVARIANTS
  NoneLost
  OneScriptAtATime
  RepeatedOnlyByDeath
PROPERTY
  CommandsCarriedOut
CHECK_DEADLOCK FALSE
