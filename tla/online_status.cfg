SPECIFICATION OnlineSpec
CONSTANTS
  ChatConns = {}
  PresConns = {"pa1", "pa2"}
  Users = {"alice"}
  Chats = {"ab"}
  SendCap = 1
  HistoryLimit = 1
  MaxMessages = 0
  Inputs = {}
  UserOf <- MCUserOf
  ChatOf <- MCChatOf
  Members <- MCMembers
  Starts = {"login1"}
  Stops = {"quit", "kill"}
  Kills = {"kill"}
  NoSession = "nil"
  MaxFailures = 1
  Patient = TRUE
INVARIANTS
  OnlineExact
  TrackedAreOnline
  HeardAreServed
PROPERTIES
  LostPresenceEnds
  StatusSettles
CHECK_DEADLOCK FALSE
