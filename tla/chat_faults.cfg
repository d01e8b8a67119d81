SPECIFICATION FairSpec
CONSTANTS
  ChatConns = {"a1", "b1"}
  PresConns = {}
  Users = {"alice", "bob"}
  Chats = {"ab"}
  SendCap = 1
  HistoryLimit = 0
  MaxMessages = 2
  Inputs = {"flood", "oversize", "lost"}
  UserOf <- MCUserOf
  ChatOf <- MCChatOf
  Members <- MCMembers
INVARIANTS
  NoAbruptClose
PROPERTIES
  StoredReachesTracked
  ChatSocketsEnd
CHECK_DEADLOCK FALSE
