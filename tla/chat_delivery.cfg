SPECIFICATION Spec
CONSTANTS
  ChatConns = {"a1", "a2", "b1"}
  PresConns = {}
  Users = {"alice", "bob"}
  Chats = {"ab"}
  SendCap = 2
  HistoryLimit = 2
  MaxMessages = 3
  Inputs = {"mark", "unfriend", "dberror"}
  UserOf <- MCUserOf
  ChatOf <- MCChatOf
  Members <- MCMembers
INVARIANTS
  TypeOK
  TrackedOpen
  GapFree
  PerSenderOrder
  ReadByAddressee
CHECK_DEADLOCK FALSE
