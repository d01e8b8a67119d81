SPECIFICATION ClientSpec
CONSTANTS
  Opens = {"chat1", "chat2"}
  ChanCap = 1
  Sent <- MCSent
  Nicknames = {"alice"}
  Nobody = "nobody"
  Registered = {}
  MaxInflight = 2
INVARIANTS
  ClientTypeOK
  ScreenOwnsChat
  ShownInOrder
  ScreenIsUsers
PROPERTIES
  ChatsReleased
  EveryMessageShown
CHECK_DEADLOCK FALSE
