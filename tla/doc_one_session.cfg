SPECIFICATION PresenceSpec
CONSTANTS
  Starts = {"login1", "login2"}
  Stops = {"quit"}
  Kills = {}
  NoSession = "nil"
  MaxFailures = 0
  Patient = FALSE
INVARIANTS
  LoopsOwned
CHECK_DEADLOCK FALSE
