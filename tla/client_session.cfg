SPECIFICATION PresenceSpec
CONSTANTS
  Starts = {"login1", "login2"}
  Stops = {"sigterm", "quit"}
  Kills = {}
  NoSession = "nil"
  MaxFailures = 2
  Patient = TRUE
INVARIANTS
  SessionsTypeOK
  LoopsOwned
  GoodbyeBeforeEnd
PROPERTIES
  CallsReturn
  ImplementsOneSession
  ComesBack
CHECK_DEADLOCK FALSE
