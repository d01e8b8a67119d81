SPECIFICATION FairSpec
CONSTANTS
  ChatConns = {"a1", "b1"}
  PresConns = {"pa1"}
  Users = {"alice", "bob"}
  Chats = {"ab"}
  SendCap = 1
  HistoryLimit = 0
  MaxMessages = 1
  Inputs = {"stop", "deadline", "kill", "overping"}
  UserOf <- MCUserOf
  ChatOf <- MCChatOf
  Members <- MCMembers
INVARIANTS
  ClosingHangsUp
  NoAbruptClose
PROPERTIES
  ShutdownTerminates
