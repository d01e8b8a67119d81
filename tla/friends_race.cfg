SPECIFICATION FriendshipSpec
CONSTANTS
  Users = {"alice", "bob"}
  Requests = {"r1", "r2", "r3"}
  Kinds = {"befriend", "unfriend", "chat"}
  Alone = {"unfriend"}
  MaxChats = 2
  QueriesFail = TRUE
INVARIANTS
  FriendshipTypeOK
  ConsentBeforeFriends
  ConsentBeforeChat
PROPERTIES
  ImplementsGraph
CHECK_DEADLOCK FALSE
