SPECIFICATION FriendshipSpec
CONSTANTS
  Users = {"alice", "bob"}
  Requests = {"r1", "r2"}
  Kinds = {"befriend"}
  Alone = {}
  MaxChats = 1
  QueriesFail = FALSE
INVARIANTS
  ListsAgree
CHECK_DEADLOCK FALSE
