SPECIFICATION RacesSpec
CONSTANTS
  Users = {"alice", "bob"}
  Requests = {"r1", "r2"}
  Kinds = {"befriend", "unfriend", "chat"}
  Alone = {}
  MaxChats = 3
  QueriesFail = TRUE
INVARIANTS
  ChatsPerPair
  ListsExplained
  ChatsExplained
CHECK_DEADLOCK FALSE
