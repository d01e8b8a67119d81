SPECIFICATION PresenceSpec
CONSTANTS
  Starts = {"login1"}
  Stops = {"quit"}
  Kills = {}
  NoSession = "nil"
  MaxFailures = 0
  Patient = TRUE
PROPERTIES
  AlwaysComesBack
CHECK_DEADLOCK FALSE
