---------------------------- MODULE MessageStore ----------------------------
(***************************************************************************)
(* What the chat server keeps in PostgreSQL: the chats, the messages of    *)
(* each with their read marks, and the queries on them.  PostgreSQL runs   *)
(* every query as a transaction of its own, so every query is one step.    *)
(*                                                                         *)
(* A row of messages is reduced to the connection it came in on, and a     *)
(* message is named by its position in its chat: created_at is NOW() at    *)
(* the insert, and the order of the inserts is taken for the order of the  *)
(* timestamps.                                                             *)
(***************************************************************************)
EXTENDS Hub, FiniteSets

CONSTANTS
  Members,       \* Members[ch]: the users chat_members lists for the chat
  HistoryLimit   \* how many messages a new chat socket is shown

\* The comment in handlerChatWS: the send buffer is larger than the history.
ASSUME StoreConstants ==
  /\ Members \in [Chats -> SUBSET Users]
  /\ HistoryLimit \in Nat
  /\ HistoryLimit <= SendCap

VARIABLES
  liveChats,   \* the rows of chats; chat_members and messages cascade from them
  messages,    \* messages[ch][i]: the connection the i-th message came in on
  isRead       \* isRead[ch]: the messages with is_read = TRUE

storeVars == <<liveChats, messages, isRead>>

StoreTypeOK ==
  /\ liveChats \in SUBSET Chats
  /\ messages \in [Chats -> Seq(ChatConns)]
  /\ isRead \in [Chats -> SUBSET (Nat \ {0})]

StoreInit ==
  /\ liveChats = Chats
  /\ messages = [ch \in Chats |-> <<>>]
  /\ isRead = [ch \in Chats |-> {}]

\* Who wrote the message i of a chat.
Sender(ch, i) == UserOf[messages[ch][i]]

\* GetChatMember finds a row.
IsMember(c) == ChatOf[c] \in liveChats /\ UserOf[c] \in Members[ChatOf[c]]

\* GetUnreadMessages, for one chat: what a notification would count for a user.
Unread(ch, u) ==
  IF ch \in liveChats /\ u \in Members[ch]
  THEN {i \in DOMAIN messages[ch] : i \notin isRead[ch] /\ Sender(ch, i) # u}
  ELSE {}
-----------------------------------------------------------------------------
(***************************************************************************)
(* Fault variants.                                                         *)
(***************************************************************************)

\* The inner ORDER BY created_at DESC without the outer ASC.
HistoryNewestFirst(ch) ==
  IF ch \notin liveChats THEN <<>> ELSE
    LET n == Len(messages[ch])
        k == IF n < HistoryLimit THEN n ELSE HistoryLimit
    IN [i \in 1..k |-> n - i + 1]

\* The window taken as full although the chat has fewer messages.
HistoryUnclamped(ch) ==
  IF ch \notin liveChats THEN <<>> ELSE
    [i \in 1..HistoryLimit |-> Len(messages[ch]) - HistoryLimit + i]

\* Whoever opens a chat marks all of it as read, what they wrote themselves included.
MarkAllAsRead(ch, u) ==
  /\ isRead' = [isRead EXCEPT ![ch] = IF ch \in liveChats THEN DOMAIN messages[ch] ELSE @]
  /\ UNCHANGED <<liveChats, messages>>
-----------------------------------------------------------------------------
\* GetMessagesByChat: the last HistoryLimit messages, oldest first.
History(ch) ==
  IF ch \notin liveChats THEN <<>> ELSE
    LET n == Len(messages[ch])
        k == IF n < HistoryLimit THEN n ELSE HistoryLimit
    IN [i \in 1..k |-> n - k + i]

\* MarkMessagesAsRead: whatever the others have written up to now.
MarkMessagesAsRead(ch, u) ==
  /\ isRead' = [isRead EXCEPT ![ch] =
                  IF ch \in liveChats
                  THEN @ \cup {i \in DOMAIN messages[ch] : Sender(ch, i) # u}
                  ELSE @]
  /\ UNCHANGED <<liveChats, messages>>

\* CreateMessage: the foreign key on chat_id needs the chat to be there.
CreateMessage(c) ==
  /\ ChatOf[c] \in liveChats
  /\ messages' = [messages EXCEPT ![ChatOf[c]] = Append(@, c)]
  /\ UNCHANGED <<liveChats, isRead>>

\* DeleteChat, the last query of handlerDeleteFriend, with its cascades.
DeleteChat(ch) ==
  /\ ch \in liveChats
  /\ liveChats' = liveChats \ {ch}
  /\ UNCHANGED <<messages, isRead>>
=============================================================================
