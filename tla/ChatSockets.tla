----------------------------- MODULE ChatSockets -----------------------------
(***************************************************************************)
(* The goroutines of a chat socket: handlerChatWS up to the registration,  *)
(* then readFromClient and writeToClient side by side.  pc[c] is where the *)
(* handler, and after it the read loop, of the connection c has got to;    *)
(* writer[c] is the write loop.                                            *)
(*                                                                         *)
(* A peer is whoever dialled: it sends when it likes and may be lost at    *)
(* any time (PeerLost).  What it has received is wire[c].                  *)
(***************************************************************************)
EXTENDS MessageStore, SequencesExt

CONSTANT
  MaxMessages   \* bound: messages read from the peers of one chat

ASSUME MaxMessagesNat == MaxMessages \in Nat

VARIABLES
  pc,         \* pc[c]: the step of handlerChatWS / readFromClient to come
  writer,     \* writer[c]: writeToClient has "none" started, "running", "done"
  history,    \* history[c]: messages, the handler's local variable
  stored,     \* stored[c]: the message the read loop holds for the hub, or 0
  wire,       \* wire[c]: the messages the peer was sent, oldest first
  feed        \* feed[c]: auxiliary, what a registered peer has coming: its history,
              \* then what others broadcast in the chat since, in that order

chatLocals == <<pc, writer, history, stored, wire, feed>>
chatVars == <<storeVars, chatLocals>>

\* The handler runs inside net/http, and can still answer with an error.
InHandler == {"admitted", "loaded", "marked"}
\* readFromClient loops.
Looping == {"reading", "storing", "sending"}
\* The hub has taken the registration and not yet the unregistration.
Registered == Looping \cup {"leaving"}

ChatStates == {"idle", "refused", "hijacked", "unregistered", "done"}
                \cup InHandler \cup Registered

ChatTypeOK ==
  /\ pc \in [ChatConns -> ChatStates]
  /\ writer \in [ChatConns -> {"none", "running", "done"}]
  /\ history \in [ChatConns -> Seq(Nat \ {0})]
  /\ stored \in [ChatConns -> Nat]
  /\ wire \in [ChatConns -> Seq(Nat)]
  /\ feed \in [ChatConns -> Seq(Nat)]

ChatInit ==
  /\ pc = [c \in ChatConns |-> "idle"]
  /\ writer = [c \in ChatConns |-> "none"]
  /\ history = [c \in ChatConns |-> <<>>]
  /\ stored = [c \in ChatConns |-> 0]
  /\ wire = [c \in ChatConns |-> <<>>]
  /\ feed = [c \in ChatConns |-> <<>>]

Goto(c, from, to) == pc[c] = from /\ pc' = [pc EXCEPT ![c] = to]

\* A frame handed to the socket is accepted, although a lost peer never gets it.
Writable(c) == sock[c] = "open" /\ frame[c] = "none"
-----------------------------------------------------------------------------
(***************************************************************************)
(* Fault variants.                                                         *)
(***************************************************************************)

\* The limiter trips, and the loop is left without closeConn.
RateLimitedJustLeaves(c) ==
  /\ Goto(c, "reading", "leaving")
  /\ ~ReadsFail(c)
  /\ UNCHANGED <<writer, history, stored, wire, feed, storeVars,
                 sockVars, hubVars, chanVars>>

\* No read deadline: a connection nobody pings any more is waited for.
ReadErrorNoDeadline(c) ==
  /\ Goto(c, "reading", "leaving")
  /\ sock[c] = "closed"
  /\ UNCHANGED <<writer, history, stored, wire, feed, storeVars,
                 sockVars, hubVars, chanVars>>

\* A write that fails loses its message, and the loop goes on with the next.
WriteFailsContinues(c) ==
  /\ writer[c] = "running"
  /\ ~Writable(c) \/ peer[c] = "gone"
  /\ send[c] # <<>>
  /\ send' = [send EXCEPT ![c] = Tail(@)]
  /\ UNCHANGED <<pc, writer, history, stored, wire, feed, storeVars,
                 sockVars, hubVars, sendOpen>>

\* The hub closed the channel, and the write loop just returns.
WriteGoodbyeSilent(c) ==
  /\ writer[c] = "running"
  /\ send[c] = <<>>
  /\ ~sendOpen[c]
  /\ writer' = [writer EXCEPT ![c] = "done"]
  /\ UNCHANGED <<pc, history, stored, wire, feed, storeVars,
                 sockVars, hubVars, chanVars>>
-----------------------------------------------------------------------------
(***************************************************************************)
(* handlerChatWS                                                           *)
(***************************************************************************)

\* GetChatMember finds the user, then GetUserByID: nothing changes a users row.
Admit(c) ==
  /\ Goto(c, "idle", "admitted")
  /\ IsMember(c)
  /\ UNCHANGED <<writer, history, stored, wire, feed, storeVars,
                 sockVars, hubVars, chanVars>>

LoadHistory(c) ==
  /\ Goto(c, "admitted", "loaded")
  /\ history' = [history EXCEPT ![c] = History(ChatOf[c])]
  /\ UNCHANGED <<writer, stored, wire, feed, storeVars,
                 sockVars, hubVars, chanVars>>

MarkHistoryAsRead(c) ==
  /\ Goto(c, "loaded", "marked")
  /\ MarkMessagesAsRead(ChatOf[c], UserOf[c])
  /\ UNCHANGED <<writer, history, stored, wire, feed,
                 sockVars, hubVars, chanVars>>

\* Not a member (403), a query that fails (500), or a failed upgrade.
Refuse(c) ==
  /\ pc[c] \in {"idle"} \cup InHandler
  /\ pc' = [pc EXCEPT ![c] = "refused"]
  /\ UNCHANGED <<writer, history, stored, wire, feed, storeVars,
                 sockVars, hubVars, chanVars>>

\* Upgrade hijacks the connection; the history goes into the send buffer.
Upgrade(c) ==
  /\ Goto(c, "marked", "hijacked")
  /\ Hijack(c)
  /\ send' = [send EXCEPT ![c] = history[c]]
  /\ UNCHANGED <<writer, history, stored, wire, feed, storeVars,
                 hubVars, sendOpen>>

\* cfg.hub.register <- client, then the two loops are started.
Register(c) ==
  /\ Goto(c, "hijacked", "reading")
  /\ HubRegister(c)
  /\ writer' = [writer EXCEPT ![c] = "running"]
  /\ feed' = [feed EXCEPT ![c] = history[c]]
  /\ UNCHANGED <<history, stored, wire, storeVars>>
-----------------------------------------------------------------------------
(***************************************************************************)
(* readFromClient                                                          *)
(***************************************************************************)

\* ReadMessage returns a message and the limiter allows it.
ReadMessage(c) ==
  /\ Goto(c, "reading", "storing")
  /\ ~ReadsFail(c)
  /\ LET ch == ChatOf[c]
         underway == {d \in ChatConns : ChatOf[d] = ch /\ pc[d] = "storing"}
     IN Len(messages[ch]) + Cardinality(underway) < MaxMessages
  /\ UNCHANGED <<writer, history, stored, wire, feed, storeVars,
                 sockVars, hubVars, chanVars>>

\* ReadMessage returns a message and the limiter does not: hung up, and out.
RateLimited(c) ==
  /\ Goto(c, "reading", "leaving")
  /\ ~ReadsFail(c)
  /\ CloseConn(c, "policy")
  /\ UNCHANGED <<writer, history, stored, wire, feed, storeVars,
                 hubVars, chanVars>>

\* What the peer sends is longer than maxMessageSize: the connection has written a
\* close frame by the time ReadMessage fails.
ReadTooBig(c) ==
  /\ Goto(c, "reading", "leaving")
  /\ ~ReadsFail(c)
  /\ WriteCloseFrame(c, "toobig")
  /\ UNCHANGED <<writer, history, stored, wire, feed, storeVars,
                 hubVars, chanVars>>

StoreMessage(c) ==
  /\ Goto(c, "storing", "sending")
  /\ CreateMessage(c)
  /\ stored' = [stored EXCEPT ![c] = Len(messages[ChatOf[c]]) + 1]
  /\ UNCHANGED <<writer, history, wire, feed,
                 sockVars, hubVars, chanVars>>

\* CreateMessage returns an error: logged, and on to the next message.
StoreFails(c) ==
  /\ Goto(c, "storing", "reading")
  /\ UNCHANGED <<writer, history, stored, wire, feed, storeVars,
                 sockVars, hubVars, chanVars>>

\* A message of c is meant for the others' connections in the chat.
Awaits(d, c) == pc[d] \in Registered /\ ChatOf[d] = ChatOf[c] /\ UserOf[d] # UserOf[c]

\* c.hub.broadcast <- message
Broadcast(c) ==
  /\ Goto(c, "sending", "reading")
  /\ HubBroadcast(c, stored[c])
  /\ feed' = [d \in ChatConns |-> IF Awaits(d, c) THEN Append(feed[d], stored[c])
                                  ELSE feed[d]]
  /\ stored' = [stored EXCEPT ![c] = 0]
  /\ UNCHANGED <<writer, history, wire, storeVars>>

(***************************************************************************)
(* ReadMessage fails: the socket was closed here, the peer is lost, or the *)
(* write loop has ended, so that nobody pings and the read deadline runs   *)
(* out after pongWait.                                                     *)
(***************************************************************************)
ReadError(c) ==
  /\ Goto(c, "reading", "leaving")
  /\ ReadsFail(c) \/ writer[c] = "done"
  /\ UNCHANGED <<writer, history, stored, wire, feed, storeVars,
                 sockVars, hubVars, chanVars>>

\* The deferred c.hub.unregister <- c ...
Unregister(c) ==
  /\ Goto(c, "leaving", "unregistered")
  /\ HubUnregister(c)
  /\ UNCHANGED <<writer, history, stored, wire, feed, storeVars>>

\* ... and closeSocket(c.conn).
Close(c) ==
  /\ Goto(c, "unregistered", "done")
  /\ CloseSocket(c)
  /\ UNCHANGED <<writer, history, stored, wire, feed, storeVars,
                 hubVars, chanVars>>
-----------------------------------------------------------------------------
(***************************************************************************)
(* writeToClient                                                           *)
(***************************************************************************)

\* A message is taken from the buffer and written.
WriteNext(c) ==
  /\ writer[c] = "running"
  /\ send[c] # <<>>
  /\ Writable(c)
  /\ send' = [send EXCEPT ![c] = Tail(@)]
  /\ wire' = [wire EXCEPT ![c] = IF peer[c] = "up" THEN Append(@, Head(send[c])) ELSE @]
  /\ UNCHANGED <<pc, writer, history, stored, feed, storeVars,
                 sockVars, hubVars, sendOpen>>

\* A message or a ping cannot be written: the loop ends, the message with it.
WriteFails(c) ==
  /\ writer[c] = "running"
  /\ ~Writable(c) \/ peer[c] = "gone"
  /\ writer' = [writer EXCEPT ![c] = "done"]
  /\ send' = [send EXCEPT ![c] = IF @ = <<>> THEN @ ELSE Tail(@)]
  /\ UNCHANGED <<pc, history, stored, wire, feed, storeVars,
                 sockVars, hubVars, sendOpen>>

\* The channel is closed and drained: a last close frame, the socket left open.
WriteGoodbye(c) ==
  /\ writer[c] = "running"
  /\ send[c] = <<>>
  /\ ~sendOpen[c]
  /\ WriteCloseFrame(c, "empty")
  /\ writer' = [writer EXCEPT ![c] = "done"]
  /\ UNCHANGED <<pc, history, stored, wire, feed, storeVars,
                 hubVars, chanVars>>
-----------------------------------------------------------------------------
\* handlerMarkAsRead, which the client calls every two seconds with a chat open.
MarkAsRead(c) ==
  /\ pc[c] \in Registered
  /\ peer[c] = "up"
  /\ IsMember(c)
  /\ MarkMessagesAsRead(ChatOf[c], UserOf[c])
  /\ UNCHANGED <<chatLocals, sockVars, hubVars, chanVars>>

\* handlerDeleteFriend ends a friendship, and the chat of the two with it.
EndFriendship(ch) ==
  /\ DeleteChat(ch)
  /\ UNCHANGED <<chatLocals, sockVars, hubVars, chanVars>>
=============================================================================
