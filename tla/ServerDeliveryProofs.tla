------------------------- MODULE ServerDeliveryProofs -------------------------
(***************************************************************************)
(* What reaches the peers and the database, for every number of users,     *)
(* chats, connections and messages, and every size of buffer and history.  *)
(*                                                                         *)
(* GapFree is not inductive: a registration starts its feed from history   *)
(* and must find it, and nothing else, in the send buffer; and a client    *)
(* that the hub has cut off still has a buffer, which its write loop goes  *)
(* on sending.  Delivered says position by position where in the feed the  *)
(* peer and the buffer are.  PerSenderOrder rests on Ordered: what a read  *)
(* loop takes to the hub is the last its connection stored, so whatever is *)
(* in a buffer, a history or on a wire is not behind it.  ReadByAddressee  *)
(* rests on ReadMarks: who marks is a member, who wrote is another.        *)
(***************************************************************************)
EXTENDS ServerProofs

(***************************************************************************)
(* A peer is shown no hole.                                                *)
(***************************************************************************)

Written(c) == Len(wire[c])
Buffered(c) == Len(send[c])
Fed(c) == Len(feed[c])

Served(c) == pc[c] \in Registered /\ writer[c] = "running" /\ peer[c] = "up"

\* GapFree, by positions; what a write loop that ended, or a channel that was
\* closed, leaves unsent is at the end of the feed.
DeliveredTo(c) ==
  /\ pc[c] \in {"idle"} \cup InHandler => wire[c] = <<>>
  /\ pc[c] = "hijacked" => wire[c] = <<>> /\ send[c] = history[c]
  /\ pc[c] \in Registered =>
       Written(c) <= Fed(c) /\ \A i \in 1..Written(c) : wire[c][i] = feed[c][i]
  /\ Served(c) =>
       /\ Written(c) + Buffered(c) <= Fed(c)
       /\ \A j \in 1..Buffered(c) : send[c][j] = feed[c][Written(c) + j]
  /\ Served(c) /\ c \in clients => Written(c) + Buffered(c) = Fed(c)

Delivered == \A c \in ChatConns : DeliveredTo(c)

(***************************************************************************)
(* Who has read what.                                                      *)
(***************************************************************************)

\* Whoever got past the membership query is a member.
AdmittedAreMembers ==
  \A c \in ChatConns :
    pc[c] \notin {"idle", "refused"} => UserOf[c] \in Members[ChatOf[c]]

\* What is stored was sent to its chat by a member of it.
SendersAreMembers ==
  \A ch \in Chats : \A i \in DOMAIN messages[ch] :
    ChatOf[messages[ch][i]] = ch /\ Sender(ch, i) \in Members[ch]

HasOpened(c) == pc[c] \notin {"idle", "admitted", "loaded"}

\* Another member than the author has had the chat open.
ReadByAnother ==
  \A ch \in Chats : \A i \in isRead[ch] :
    /\ i \in DOMAIN messages[ch]
    /\ \E c \in ChatConns : /\ ChatOf[c] = ch /\ HasOpened(c)
                            /\ UserOf[c] \in Members[ch] \ {Sender(ch, i)}

ReadMarks == AdmittedAreMembers /\ SendersAreMembers /\ ReadByAnother

(***************************************************************************)
(* In the order of each sender.                                            *)
(***************************************************************************)

\* For a log m of connections, and sequences of positions in it: of i and j, if of
\* one connection, i is not the later.
InTurn(m, i, j) == m[i] = m[j] => i <= j

Row(m, s) == \A i \in DOMAIN s : s[i] \in DOMAIN m
SenderOrder(m, s, t) == \A i \in DOMAIN s, j \in DOMAIN t : InTurn(m, s[i], t[j])
InOrder(m, s) == \A i, j \in DOMAIN s : i < j => InTurn(m, s[i], s[j])

\* x is the last its connection stored.
Latest(m, x) == x \in DOMAIN m /\ \A i \in DOMAIN m : m[i] = m[x] => i <= x

Log(c) == messages[ChatOf[c]]

\* What a read loop holds for the hub is the last its connection stored.
HeldIsLatest ==
  \A c \in ChatConns :
    pc[c] = "sending" => Latest(Log(c), stored[c]) /\ Log(c)[stored[c]] = c

OrderedAt(c) ==
  /\ pc[c] \in {"idle"} \cup InHandler => wire[c] = <<>>
  /\ Row(Log(c), history[c]) /\ Row(Log(c), send[c]) /\ Row(Log(c), wire[c])
  /\ InOrder(Log(c), history[c])
  /\ InOrder(Log(c), send[c])
  /\ InOrder(Log(c), wire[c])
  /\ SenderOrder(Log(c), wire[c], send[c])

Ordered == HeldIsLatest /\ \A c \in ChatConns : OrderedAt(c)

USE DEF TypeOK, SocketsTypeOK, HubTypeOK, StoreTypeOK, ChatTypeOK, PresenceTypeOK,
        mainVars, sockVars, hubVars, chanVars, storeVars, chatLocals, chatVars,
        ChatStates, InHandler, Registered, Looping

LEMMA Lengths ==
  ASSUME TypeOK, NEW c \in ChatConns
  PROVE  /\ Written(c) \in Nat /\ DOMAIN wire[c] = 1..Written(c)
         /\ Buffered(c) \in Nat /\ DOMAIN send[c] = 1..Buffered(c)
         /\ Fed(c) \in Nat /\ DOMAIN feed[c] = 1..Fed(c)
<1>1. wire[c] \in Seq(Nat) /\ send[c] \in Seq(Nat) /\ feed[c] \in Seq(Nat)
  BY DEF TypeOK, HubTypeOK, ChatTypeOK
<1> QED
  BY <1>1 DEF Written, Buffered, Fed

\* A step that moves nothing towards the peer of c, and nothing in its feed.
Undisturbed(c) ==
  /\ wire'[c] = wire[c] /\ feed'[c] = feed[c]
  /\ pc'[c] \in {"idle"} \cup InHandler => pc[c] \in {"idle"} \cup InHandler
  /\ pc'[c] = "hijacked" => pc[c] = "hijacked" /\ send'[c] = send[c] /\ history'[c] = history[c]
  /\ pc'[c] \in Registered => pc[c] \in Registered
  /\ writer'[c] = "running" => writer[c] = "running" /\ send'[c] = send[c]
  /\ peer'[c] = "up" => peer[c] = "up"
  /\ c \in clients' => c \in clients

LEMMA StillDelivered ==
  ASSUME NEW c \in ChatConns, DeliveredTo(c), Undisturbed(c)
  PROVE  DeliveredTo(c)'
<1>1. Written(c)' = Written(c) /\ Fed(c)' = Fed(c)
  BY DEF Undisturbed, Written, Fed
<1>2. Served(c)' => Served(c) /\ send'[c] = send[c] /\ Buffered(c)' = Buffered(c)
  BY DEF Undisturbed, Served, Buffered
<1> QED
  BY <1>1, <1>2 DEF DeliveredTo, Undisturbed

LEMMA RestUndisturbed ==
  ASSUME TypeOK, Places, NEW c \in ChatConns,
         \/ Sigterm \/ Drained \/ HubDone \/ CloseDB \/ Exit \/ Killed \/ Deadline
         \/ HubStep
         \/ \E p \in PresConns : Presence(p) \/ PresencePeer(p)
         \/ \E d \in Conns : LosePeer(d)
         \/ \E ch \in Chats : Unfriend(ch)
         \/ UNCHANGED vars
  PROVE  Undisturbed(c) /\ (history'[c] = history[c])
<1> c \in Conns
  BY DEF Conns
<1>1. CASE Sigterm \/ Drained \/ HubDone \/ CloseDB \/ Exit \/ Killed \/ Deadline
  BY <1>1 DEF Sigterm, Drained, HubDone, CloseDB, Exit, Killed, Deadline, MainStep, Undisturbed
<1>2. CASE HubStep
  BY <1>2 DEF HubStep, HubShutdown, HubHangUp, HubExit, CloseConn, Undisturbed
<1>3. ASSUME NEW p \in PresConns, Presence(p) \/ PresencePeer(p)
      PROVE  Undisturbed(c) /\ (history'[c] = history[c])
  BY <1>3
     DEF Presence, PresencePeer, SetOnline, HubSetOnline, RegisterPresence,
         HubRegisterPresence, PresenceReadError, UnregisterPresence, HubUnregisterPresence,
         SetOffline, HubSetOffline, PresenceClose, CloseSocket, PresenceUpgrade, Hijack,
         PresenceRefuse, PresenceReadTooBig, WriteCloseFrame, Undisturbed
<1>4. ASSUME NEW d \in Conns, LosePeer(d)
      PROVE  Undisturbed(c) /\ (history'[c] = history[c])
  BY <1>4 DEF LosePeer, PeerLost, Undisturbed
<1>5. ASSUME NEW ch \in Chats, Unfriend(ch)
      PROVE  Undisturbed(c) /\ (history'[c] = history[c])
  BY <1>5 DEF Unfriend, EndFriendship, Undisturbed
<1>6. CASE UNCHANGED vars
  BY <1>6 DEF vars, Undisturbed
<1> QED
  BY <1>1, <1>2, <1>3, <1>4, <1>5, <1>6

LEMMA StepUndisturbed ==
  ASSUME TypeOK, Places, NEW c \in ChatConns, NEW d \in ChatConns,
         Handler(d) \/ Reader(d) \/ Writer(d) \/ ChatPeer(d),
         ~Broadcast(d),
         ~(d = c /\ (Upgrade(d) \/ Register(d) \/ WriteNext(d)))
  PROVE  Undisturbed(c)
<1> USE DEF Undisturbed, Goto
<1> c \in Conns /\ d \in Conns
  BY DEF Conns
<1>1. CASE Handler(d)
  <2>1. CASE LoadHistory(d) \/ MarkHistoryAsRead(d) \/ Refuse(d)
    BY <2>1 DEF LoadHistory, MarkHistoryAsRead, MarkMessagesAsRead, Refuse
  <2>2. CASE Upgrade(d) /\ d # c
    BY <2>2 DEF Upgrade, Hijack
  <2>3. CASE Register(d) /\ d # c
    BY <2>3 DEF Register, HubRegister
  <2> QED
    BY <1>1, <2>1, <2>2, <2>3 DEF Handler
<1>2. CASE Reader(d)
  <2>1. CASE StoreMessage(d) \/ StoreFails(d) \/ ReadError(d)
    BY <2>1 DEF StoreMessage, StoreFails, ReadError
  <2>2. CASE Unregister(d)
    BY <2>2 DEF Unregister, HubUnregister
  <2>3. CASE Close(d)
    BY <2>3 DEF Close, CloseSocket
  <2> QED
    BY <1>2, <2>1, <2>2, <2>3 DEF Reader
<1>3. CASE Writer(d)
  <2>1. CASE WriteNext(d) /\ d # c
    BY <2>1 DEF WriteNext
  <2>2. CASE WriteFails(d)
    BY <2>2 DEF WriteFails, Places, ChatPlace, BeforeRegister
  <2>3. CASE WriteGoodbye(d)
    BY <2>3 DEF WriteGoodbye, WriteCloseFrame
  <2> QED
    BY <1>3, <2>1, <2>2, <2>3 DEF Writer
<1>4. CASE ChatPeer(d)
  <2>1. CASE Admit(d) \/ Refuse(d) \/ ReadMessage(d)
    BY <2>1 DEF Admit, Refuse, ReadMessage
  <2>2. CASE RateLimited(d)
    BY <2>2 DEF RateLimited, CloseConn
  <2>3. CASE MarkAsRead(d)
    BY <2>3 DEF MarkAsRead, MarkMessagesAsRead
  <2>4. CASE ReadTooBig(d)
    BY <2>4 DEF ReadTooBig, WriteCloseFrame
  <2> QED
    BY <1>4, <2>1, <2>2, <2>3, <2>4 DEF ChatPeer
<1> QED
  BY <1>1, <1>2, <1>3, <1>4

LEMMA DeliveredUpgrade ==
  ASSUME TypeOK, NEW c \in ChatConns, DeliveredTo(c), Upgrade(c)
  PROVE  DeliveredTo(c)'
  BY DEF Upgrade, Goto, Hijack, DeliveredTo, Served

LEMMA DeliveredRegister ==
  ASSUME TypeOK, NEW c \in ChatConns, DeliveredTo(c), Register(c)
  PROVE  DeliveredTo(c)'
<1>1. pc'[c] = "reading" /\ wire'[c] = <<>> /\ send'[c] = history[c] /\ feed'[c] = history[c]
  BY DEF Register, HubRegister, Goto, DeliveredTo
<1>2. history[c] \in Seq(Nat)
  OBVIOUS
<1>3. Written(c)' = 0
  BY <1>1 DEF Written
<1>4. Buffered(c)' = Fed(c)' /\ Fed(c)' \in Nat
  BY <1>1, <1>2 DEF Buffered, Fed
<1> QED
  BY <1>1, <1>3, <1>4 DEF DeliveredTo

LEMMA DeliveredWrite ==
  ASSUME TypeOK, Places, NEW c \in ChatConns, DeliveredTo(c), WriteNext(c)
  PROVE  DeliveredTo(c)'
<1>1. /\ send[c] # <<>> /\ send'[c] = Tail(send[c])
      /\ wire'[c] = IF peer[c] = "up" THEN Append(wire[c], Head(send[c])) ELSE wire[c]
      /\ UNCHANGED <<pc, writer, peer, clients, feed>> /\ writer[c] = "running"
  BY DEF WriteNext
<1>2. pc[c] \notin BeforeRegister
  BY <1>1 DEF Places, ChatPlace
<1>3. send[c] \in Seq(Nat) /\ wire[c] \in Seq(Nat) /\ feed'[c] = feed[c]
  BY <1>1
<1>4. peer[c] \in {"up", "gone"}
  BY DEF Conns
<1> HIDE DEF TypeOK
<1>5. CASE peer[c] = "gone"
  <2>1. wire'[c] = wire[c] /\ ~Served(c)'
    BY <1>1, <1>5 DEF Served
  <2>2. Written(c)' = Written(c) /\ Fed(c)' = Fed(c)
    BY <1>3, <2>1 DEF Written, Fed
  <2> QED
    BY <1>1, <1>2, <2>1, <2>2, <1>3 DEF DeliveredTo, BeforeRegister
<1>6. CASE peer[c] = "up"
  <2>1. wire'[c] = Append(wire[c], send[c][1])
    BY <1>1, <1>3, <1>6
  <2>2. Written(c)' = Written(c) + 1 /\ Buffered(c)' = Buffered(c) - 1 /\ Fed(c)' = Fed(c)
    <3>1. Len(wire'[c]) = Len(wire[c]) + 1
      BY <2>1, <1>3
    <3>2. Len(send'[c]) = Len(send[c]) - 1
      BY <1>1, <1>3
    <3> QED
      BY <3>1, <3>2, <1>3 DEF Written, Buffered, Fed
  <2>3. Written(c) \in Nat /\ Buffered(c) \in Nat /\ Fed(c) \in Nat /\ Buffered(c) > 0
    <3>1. Len(send[c]) > 0
      BY <1>1, <1>3
    <3> QED
      BY <3>1, Lengths DEF Buffered
  <2>4. \A i \in 1..Written(c) : wire'[c][i] = wire[c][i]
    BY <2>1, <1>3 DEF Written
  <2>5. wire'[c][Written(c) + 1] = send[c][1]
    BY <2>1, <1>3 DEF Written
  <2>6. \A j \in 1..(Buffered(c) - 1) : send'[c][j] = send[c][j + 1]
    BY <1>1, <1>3 DEF Buffered
  <2>7. Served(c)' => Served(c)
    BY <1>1 DEF Served
  <2>8. CASE pc[c] \in Registered
    <3>1. Served(c)
      BY <1>1, <1>6, <2>8 DEF Served
    <3>2. /\ Written(c) + Buffered(c) <= Fed(c)
          /\ \A j \in 1..Buffered(c) : send[c][j] = feed[c][Written(c) + j]
          /\ c \in clients => Written(c) + Buffered(c) = Fed(c)
          /\ \A i \in 1..Written(c) : wire[c][i] = feed[c][i]
      BY <3>1, <2>8 DEF DeliveredTo
    <3>3. Written(c)' <= Fed(c)'
      BY <3>2, <2>2, <2>3
    <3>4. \A i \in 1..Written(c)' : wire'[c][i] = feed'[c][i]
      <4> SUFFICES ASSUME NEW i \in 1..(Written(c) + 1) PROVE wire'[c][i] = feed[c][i]
        BY <2>2, <1>3
      <4>1. CASE i \in 1..Written(c)
        BY <4>1, <3>2, <2>4
      <4>2. CASE i = Written(c) + 1
        <5>1. 1 \in 1..Buffered(c)
          BY <2>3
        <5>2. send[c][1] = feed[c][Written(c) + 1]
          BY <5>1, <3>2
        <5> QED
          BY <4>2, <5>2, <2>5
      <4> QED
        BY <4>1, <4>2, <2>3
    <3>5. \A j \in 1..Buffered(c)' : send'[c][j] = feed'[c][Written(c)' + j]
      <4> SUFFICES ASSUME NEW j \in 1..(Buffered(c) - 1)
                   PROVE  send'[c][j] = feed[c][(Written(c) + 1) + j]
        BY <2>2, <1>3
      <4>1. j + 1 \in 1..Buffered(c) /\ Written(c) + (j + 1) = (Written(c) + 1) + j
        BY <2>3
      <4> QED
        BY <4>1, <3>2, <2>6
    <3>6. /\ Written(c)' + Buffered(c)' <= Fed(c)'
          /\ c \in clients => Written(c)' + Buffered(c)' = Fed(c)'
      <4>1. Written(c)' + Buffered(c)' = Written(c) + Buffered(c)
        BY <2>2, <2>3
      <4> QED
        BY <4>1, <3>2, <2>2
    <3> QED
      BY <3>3, <3>4, <3>5, <3>6, <1>1, <2>8 DEF DeliveredTo
  <2> QED
    BY <2>8, <1>1, <1>2, <2>7 DEF DeliveredTo, BeforeRegister, Served
<1> QED
  BY <1>4, <1>5, <1>6

LEMMA DeliveredBroadcast ==
  ASSUME TypeOK, Places, NEW c \in ChatConns, NEW d \in ChatConns,
         DeliveredTo(c), Broadcast(d)
  PROVE  DeliveredTo(c)'
<1>1. /\ pc[d] = "sending" /\ pc' = [pc EXCEPT ![d] = "reading"]
      /\ send'[c] = IF c \in Reached(d) THEN Append(send[c], stored[d]) ELSE send[c]
      /\ clients' = clients \ Overflowing(d)
      /\ feed'[c] = IF Awaits(c, d) THEN Append(feed[c], stored[d]) ELSE feed[c]
      /\ UNCHANGED <<wire, writer, peer, history>>
  BY DEF Broadcast, HubBroadcast, Goto
<1>2. Recipients(d) = {e \in clients : Awaits(e, d)}
  BY DEF Recipients, Awaits, Places, ChatPlace
<1>3. send[c] \in Seq(Nat) /\ feed[c] \in Seq(Nat) /\ stored[d] \in Nat
  OBVIOUS
<1>4. Written(c) \in Nat /\ Buffered(c) \in Nat /\ Fed(c) \in Nat /\ Written(c)' = Written(c)
  BY <1>1, Lengths DEF Written
<1> HIDE DEF TypeOK
<1>5. CASE ~Awaits(c, d)
  <2>1. c \notin Reached(d) /\ feed'[c] = feed[c]
    BY <1>1, <1>2, <1>5 DEF Reached
  <2>2. Undisturbed(c)
    BY <1>1, <2>1 DEF Undisturbed
  <2> QED
    BY <2>2, StillDelivered
<1>6. CASE Awaits(c, d)
  <2>1. feed'[c] = Append(feed[c], stored[d]) /\ c # d
    BY <1>1, <1>6 DEF Awaits
  <2>2. pc'[c] = pc[c] /\ pc[c] \in Registered
    BY <1>1, <2>1, <1>6 DEF Awaits
  <2>3. Fed(c)' = Fed(c) + 1
    BY <2>1, <1>3 DEF Fed
  <2>4. \A i \in 1..Fed(c) : feed'[c][i] = feed[c][i]
    BY <2>1, <1>3 DEF Fed
  <2>5. feed'[c][Fed(c) + 1] = stored[d]
    BY <2>1, <1>3 DEF Fed
  <2>6. /\ Written(c) <= Fed(c) /\ \A i \in 1..Written(c) : wire[c][i] = feed[c][i]
        /\ Served(c) =>
             /\ Written(c) + Buffered(c) <= Fed(c)
             /\ \A j \in 1..Buffered(c) : send[c][j] = feed[c][Written(c) + j]
        /\ Served(c) /\ c \in clients => Written(c) + Buffered(c) = Fed(c)
    BY <2>2 DEF DeliveredTo
  <2>7. Served(c)' <=> Served(c)
    BY <1>1, <2>2 DEF Served
  <2>8. Written(c)' <= Fed(c)' /\ \A i \in 1..Written(c)' : wire'[c][i] = feed'[c][i]
    <3>1. \A i \in 1..Written(c) : i \in 1..Fed(c)
      BY <2>6, <1>4
    <3>2. \A i \in 1..Written(c) : wire[c][i] = feed'[c][i]
      BY <3>1, <2>4, <2>6
    <3>3. Written(c)' <= Fed(c)'
      BY <2>3, <2>6, <1>4
    <3> QED
      BY <3>2, <3>3, <1>1, <1>4
  <2>9. CASE c \notin Reached(d)
    <3>1. c \notin clients' /\ send'[c] = send[c] /\ Buffered(c)' = Buffered(c)
      BY <2>9, <1>1, <1>2, <1>6 DEF Reached, Buffered
    <3>2. Served(c) => \A j \in 1..Buffered(c) : Written(c) + j \in 1..Fed(c)
      BY <2>6, <1>4
    <3>3. Served(c)' => /\ Written(c)' + Buffered(c)' <= Fed(c)'
                        /\ \A j \in 1..Buffered(c)' : send'[c][j] = feed'[c][Written(c)' + j]
      BY <3>1, <3>2, <2>3, <2>4, <2>6, <2>7, <1>4
    <3> QED
      BY <2>2, <2>8, <3>1, <3>3 DEF DeliveredTo
  <2>10. CASE c \in Reached(d)
    <3>1. c \in clients
      BY <2>10, <1>2 DEF Reached
    <3>2. send'[c] = Append(send[c], stored[d])
      BY <2>10, <1>1
    <3>3. Buffered(c)' = Buffered(c) + 1
      BY <3>2, <1>3 DEF Buffered
    <3>4. \A j \in 1..Buffered(c) : send'[c][j] = send[c][j]
      BY <3>2, <1>3 DEF Buffered
    <3>5. send'[c][Buffered(c) + 1] = stored[d]
      BY <3>2, <1>3 DEF Buffered
    <3>6. Served(c)' => Written(c)' + Buffered(c)' = Fed(c)'
      BY <3>1, <3>3, <2>3, <2>6, <2>7, <1>4
    <3>7. ASSUME Served(c), NEW j \in 1..(Buffered(c) + 1)
          PROVE  send'[c][j] = feed'[c][Written(c) + j]
      <4>1. Written(c) + Buffered(c) = Fed(c)
        BY <3>1, <3>7, <2>6
      <4>2. CASE j \in 1..Buffered(c)
        <5>1. Written(c) + j \in 1..Fed(c)
          BY <4>1, <4>2, <1>4
        <5> QED
          BY <5>1, <4>2, <3>4, <3>7, <2>4, <2>6
      <4>3. CASE j = Buffered(c) + 1
        <5>1. Written(c) + j = Fed(c) + 1
          BY <4>1, <4>3, <1>4
        <5> QED
          BY <5>1, <4>3, <3>5, <2>5
      <4>4. j \in 1..Buffered(c) \/ j = Buffered(c) + 1
        <5>1. Buffered(c) \in Nat /\ j \in 1..(Buffered(c) + 1)
          BY <1>4
        <5> QED
          BY <5>1
      <4> QED
        BY <4>2, <4>3, <4>4
    <3>8. Served(c)' => \A j \in 1..Buffered(c)' : send'[c][j] = feed'[c][Written(c)' + j]
      BY <3>3, <3>7, <2>7, <1>4
    <3>9. Served(c)' => Written(c)' + Buffered(c)' <= Fed(c)'
      BY <3>6, <3>3, <2>3, <1>4
    <3> QED
      BY <2>2, <2>8, <3>6, <3>8, <3>9 DEF DeliveredTo
  <2> QED
    BY <2>9, <2>10
<1> QED
  BY <1>5, <1>6

LEMMA DeliveredInit == Init => Delivered
  BY DEF Init, ChatInit, HubInit, SocketsInit, Delivered, DeliveredTo, Served

LEMMA DeliveredStep ==
  ASSUME TypeOK, Places, Delivered, [Next]_vars
  PROVE  Delivered'
<1> SUFFICES ASSUME NEW c \in ChatConns PROVE DeliveredTo(c)'
  BY DEF Delivered
<1>1. DeliveredTo(c)
  BY DEF Delivered
<1>2. ASSUME NEW d \in ChatConns, Handler(d) \/ Reader(d) \/ Writer(d) \/ ChatPeer(d)
      PROVE  DeliveredTo(c)'
  <2>1. CASE d = c /\ (Upgrade(d) \/ Register(d) \/ WriteNext(d))
    BY <1>1, <2>1, DeliveredUpgrade, DeliveredRegister, DeliveredWrite
  <2>2. CASE Broadcast(d)
    BY <1>1, <2>2, DeliveredBroadcast
  <2> QED
    BY <1>1, <1>2, <2>1, <2>2, StepUndisturbed, StillDelivered
<1>3. CASE \E d \in ChatConns : Handler(d) \/ Reader(d) \/ Writer(d) \/ ChatPeer(d)
  BY <1>2, <1>3
<1>4. CASE ~\E d \in ChatConns : Handler(d) \/ Reader(d) \/ Writer(d) \/ ChatPeer(d)
  <2>1. Undisturbed(c)
    BY <1>4, RestUndisturbed DEF Next, Gone
  <2> QED
    BY <1>1, <2>1, StillDelivered
<1> QED
  BY <1>3, <1>4

LEMMA DeliveredInvariant == Spec => []Delivered
  BY TypeCorrect, PlacesInvariant, DeliveredInit, DeliveredStep, PTL DEF Spec

\* A sequence that agrees with another as far as it goes is a prefix of it.
LEMMA PrefixByPositions ==
  ASSUME NEW s \in Seq(Nat), NEW t \in Seq(Nat), Len(s) <= Len(t),
         \A i \in 1..Len(s) : s[i] = t[i]
  PROVE  IsPrefix(s, t)
<1>1. SubSeq(t, 1, Len(s)) = s
  OBVIOUS
<1> QED
  BY <1>1 DEF IsPrefix

\* ... and with what is missing behind it, it is the other.
LEMMA WholeByPositions ==
  ASSUME NEW s \in Seq(Nat), NEW t \in Seq(Nat), NEW u \in Seq(Nat),
         Len(s) + Len(t) = Len(u),
         \A i \in 1..Len(s) : s[i] = u[i],
         \A j \in 1..Len(t) : t[j] = u[Len(s) + j]
  PROVE  s \o t = u
<1> DEFINE m == Len(s)
<1>1. m \in Nat /\ Len(t) \in Nat /\ Len(u) = m + Len(t)
  OBVIOUS
<1>2. s \o t \in Seq(Nat) /\ Len(s \o t) = Len(u)
  OBVIOUS
<1>3. ASSUME NEW i \in 1..Len(u) PROVE (s \o t)[i] = u[i]
  <2>1. CASE i \in 1..m
    BY <2>1
  <2>2. CASE i \notin 1..m
    <3>1. i - m \in 1..Len(t) /\ m + (i - m) = i
      BY <2>2, <1>1
    <3>2. (s \o t)[i] = t[i - m]
      BY <2>2, <1>1
    <3> QED
      BY <3>1, <3>2
  <2> QED
    BY <2>1, <2>2
<1> DEFINE w == s \o t
<1>4. w \in Seq(Nat) /\ Len(w) = Len(u) /\ \A i \in 1..Len(u) : w[i] = u[i]
  BY <1>2, <1>3
<1> HIDE DEF w
<1>5. w = [i \in 1..Len(w) |-> w[i]]
  BY <1>4
<1>6. u = [i \in 1..Len(u) |-> u[i]]
  OBVIOUS
<1>7. [i \in 1..Len(w) |-> w[i]] = [i \in 1..Len(u) |-> u[i]]
  BY <1>4
<1> QED
  BY <1>5, <1>6, <1>7 DEF w

LEMMA DeliveredGapFree == TypeOK /\ Delivered => GapFree
<1> SUFFICES ASSUME TypeOK, Delivered, NEW c \in ChatConns, pc[c] \in Registered
             PROVE  /\ IsPrefix(wire[c], feed[c])
                    /\ (c \in clients /\ writer[c] = "running" /\ peer[c] = "up")
                         => wire[c] \o send[c] = feed[c]
  BY DEF GapFree
<1>1. wire[c] \in Seq(Nat) /\ send[c] \in Seq(Nat) /\ feed[c] \in Seq(Nat)
  OBVIOUS
<1>2. DeliveredTo(c)
  BY DEF Delivered
<1>3. Len(wire[c]) <= Len(feed[c]) /\ \A i \in 1..Len(wire[c]) : wire[c][i] = feed[c][i]
  BY <1>2 DEF DeliveredTo, Written, Fed
<1>4. IsPrefix(wire[c], feed[c])
  BY <1>1, <1>3, PrefixByPositions
<1>5. ASSUME c \in clients, writer[c] = "running", peer[c] = "up"
      PROVE  wire[c] \o send[c] = feed[c]
  <2>1. /\ Len(wire[c]) + Len(send[c]) = Len(feed[c])
        /\ \A j \in 1..Len(send[c]) : send[c][j] = feed[c][Len(wire[c]) + j]
    BY <1>2, <1>5 DEF DeliveredTo, Served, Written, Buffered, Fed
  <2> QED
    BY <1>1, <1>3, <2>1, WholeByPositions
<1> QED
  BY <1>4, <1>5

\* What a peer has received is a prefix of its history and the broadcasts since,
\* and while it is served the rest is in its buffer.
THEOREM NoHoles == Spec => []GapFree
  BY TypeCorrect, DeliveredInvariant, DeliveredGapFree, PTL
-----------------------------------------------------------------------------

\* A step that stores and marks nothing, and lets nobody in.
NothingRead ==
  /\ UNCHANGED <<messages, isRead>>
  /\ \A c \in ChatConns :
       /\ pc'[c] \notin {"idle", "refused"} => pc[c] \notin {"idle", "refused"}
       /\ HasOpened(c) => HasOpened(c)'

LEMMA StillRead ==
  ASSUME ReadMarks, NothingRead
  PROVE  ReadMarks'
<1>1. \A ch, i : Sender(ch, i)' = Sender(ch, i)
  BY DEF NothingRead, Sender
<1>2. AdmittedAreMembers'
  BY DEF ReadMarks, NothingRead, AdmittedAreMembers
<1>3. SendersAreMembers'
  BY <1>1 DEF ReadMarks, NothingRead, SendersAreMembers
<1>4. ReadByAnother'
  BY <1>1 DEF ReadMarks, NothingRead, ReadByAnother
<1> QED
  BY <1>2, <1>3, <1>4 DEF ReadMarks

LEMMA RestNothingRead ==
  ASSUME TypeOK,
         \/ Sigterm \/ Drained \/ HubDone \/ CloseDB \/ Exit \/ Killed \/ Deadline
         \/ HubStep
         \/ \E p \in PresConns : Presence(p) \/ PresencePeer(p)
         \/ \E d \in Conns : LosePeer(d)
         \/ \E ch \in Chats : Unfriend(ch)
         \/ UNCHANGED vars
  PROVE  NothingRead
<1>1. UNCHANGED <<messages, isRead, pc>>
  <2>1. CASE Sigterm \/ Drained \/ HubDone \/ CloseDB \/ Exit \/ Killed \/ Deadline
    BY <2>1 DEF Sigterm, Drained, HubDone, CloseDB, Exit, Killed, Deadline, MainStep
  <2>2. CASE HubStep
    BY <2>2 DEF HubStep
  <2>3. CASE \E p \in PresConns : Presence(p) \/ PresencePeer(p)
    BY <2>3 DEF Presence, PresencePeer
  <2>4. CASE \E d \in Conns : LosePeer(d)
    BY <2>4 DEF LosePeer
  <2>5. CASE \E ch \in Chats : Unfriend(ch)
    BY <2>5 DEF Unfriend, EndFriendship, DeleteChat
  <2>6. CASE UNCHANGED vars
    BY <2>6 DEF vars
  <2> QED
    BY <2>1, <2>2, <2>3, <2>4, <2>5, <2>6
<1> QED
  BY <1>1 DEF NothingRead, HasOpened

LEMMA StepNothingRead ==
  ASSUME TypeOK, NEW d \in ChatConns,
         Handler(d) \/ Reader(d) \/ Writer(d) \/ ChatPeer(d),
         ~Admit(d), ~MarkHistoryAsRead(d), ~MarkAsRead(d), ~StoreMessage(d)
  PROVE  NothingRead
<1> USE DEF NothingRead, HasOpened, Goto
<1>1. CASE Handler(d)
  BY <1>1 DEF Handler, LoadHistory, Refuse, Upgrade, Register
<1>2. CASE Reader(d)
  BY <1>2, SMTT(40) DEF Reader, StoreFails, Broadcast, ReadError, Unregister, Close
<1>3. CASE Writer(d)
  BY <1>3 DEF Writer, WriteNext, WriteFails, WriteGoodbye
<1>4. CASE ChatPeer(d)
  BY <1>4 DEF ChatPeer, Refuse, ReadMessage, RateLimited, ReadTooBig
<1> QED
  BY <1>1, <1>2, <1>3, <1>4

LEMMA AdmitRead ==
  ASSUME TypeOK, ReadMarks, NEW d \in ChatConns, Admit(d)
  PROVE  ReadMarks'
<1> USE DEF Admit, Goto, IsMember
<1>1. \A ch, i : Sender(ch, i)' = Sender(ch, i)
  BY DEF Sender
<1>2. AdmittedAreMembers'
  BY DEF ReadMarks, AdmittedAreMembers
<1>3. SendersAreMembers'
  BY <1>1 DEF ReadMarks, SendersAreMembers
<1>4. \A c \in ChatConns : HasOpened(c) => HasOpened(c)'
  BY DEF HasOpened
<1>5. ReadByAnother'
  BY <1>1, <1>4 DEF ReadMarks, ReadByAnother
<1> QED
  BY <1>2, <1>3, <1>5 DEF ReadMarks

LEMMA Appended ==
  ASSUME NEW S, NEW s \in Seq(S), NEW x \in S
  PROVE  /\ Len(s) \in Nat /\ DOMAIN s = 1..Len(s)
         /\ DOMAIN Append(s, x) = 1..(Len(s) + 1)
         /\ \A i \in 1..Len(s) : Append(s, x)[i] = s[i]
         /\ Append(s, x)[Len(s) + 1] = x
  OBVIOUS

LEMMA StoredAtTheEnd ==
  ASSUME TypeOK, NEW d \in ChatConns, CreateMessage(d), NEW ch, ch = ChatOf[d]
  PROVE  /\ \A k \in Chats : \A i \in DOMAIN messages'[k] :
              \/ i \in DOMAIN messages[k] /\ messages'[k][i] = messages[k][i]
              \/ k = ch /\ i = Len(messages[ch]) + 1 /\ messages'[k][i] = d
         /\ \A k \in Chats : \A i \in DOMAIN messages[k] :
              i \in DOMAIN messages'[k] /\ messages'[k][i] = messages[k][i]
         /\ Len(messages[ch]) + 1 \in DOMAIN messages'[ch]
         /\ messages'[ch][Len(messages[ch]) + 1] = d
         /\ \A i \in DOMAIN messages[ch] : i <= Len(messages[ch])
<1>1. ch \in Chats
  BY HubConstants
<1>2. messages[ch] \in Seq(ChatConns) /\ messages'[ch] = Append(messages[ch], d)
  BY <1>1 DEF CreateMessage
<1>3. \A k \in Chats \ {ch} : messages'[k] = messages[k]
  BY DEF CreateMessage
<1>4. /\ Len(messages[ch]) \in Nat /\ DOMAIN messages[ch] = 1..Len(messages[ch])
      /\ DOMAIN messages'[ch] = 1..(Len(messages[ch]) + 1)
      /\ \A i \in 1..Len(messages[ch]) : messages'[ch][i] = messages[ch][i]
      /\ messages'[ch][Len(messages[ch]) + 1] = d
  BY <1>2, Appended
<1>5. \A i \in DOMAIN messages'[ch] : i \in DOMAIN messages[ch] \/ i = Len(messages[ch]) + 1
  BY <1>4
<1>6. \A i \in DOMAIN messages[ch] : i \in DOMAIN messages'[ch] /\ i <= Len(messages[ch])
  BY <1>4
<1>7. Len(messages[ch]) + 1 \in DOMAIN messages'[ch]
  BY <1>4
<1> QED
  BY <1>1, <1>3, <1>4, <1>5, <1>6, <1>7

LEMMA StoreRead ==
  ASSUME TypeOK, ReadMarks, NEW d \in ChatConns, StoreMessage(d)
  PROVE  ReadMarks'
<1> DEFINE ch == ChatOf[d]
<1>1. /\ pc[d] = "storing" /\ pc' = [pc EXCEPT ![d] = "sending"]
      /\ messages' = [messages EXCEPT ![ch] = Append(@, d)] /\ isRead' = isRead
  BY DEF StoreMessage, CreateMessage, Goto
<1>2. ch \in Chats
  BY HubConstants
<1>3. UserOf[d] \in Members[ch]
  BY <1>1 DEF ReadMarks, AdmittedAreMembers
<1>4. /\ \A k \in Chats : \A i \in DOMAIN messages'[k] :
            \/ i \in DOMAIN messages[k] /\ messages'[k][i] = messages[k][i]
            \/ k = ch /\ messages'[k][i] = d
      /\ \A k \in Chats : \A i \in DOMAIN messages[k] :
            i \in DOMAIN messages'[k] /\ messages'[k][i] = messages[k][i]
  <2>1. CreateMessage(d)
    BY DEF StoreMessage
  <2> HIDE DEF TypeOK
  <2> QED
    BY <2>1, StoredAtTheEnd
<1> HIDE DEF ch
<1>6. AdmittedAreMembers'
  BY <1>1 DEF ReadMarks, AdmittedAreMembers
<1>7. SendersAreMembers'
  <2> SUFFICES ASSUME NEW k \in Chats, NEW i \in DOMAIN messages'[k]
               PROVE  ChatOf[messages'[k][i]] = k /\ UserOf[messages'[k][i]] \in Members[k]
    BY DEF SendersAreMembers, Sender
  <2>1. CASE i \in DOMAIN messages[k] /\ messages'[k][i] = messages[k][i]
    BY <2>1 DEF ReadMarks, SendersAreMembers, Sender
  <2>2. CASE k = ch /\ messages'[k][i] = d
    BY <2>2, <1>3 DEF ch
  <2> QED
    BY <2>1, <2>2, <1>4
<1>8. \A c \in ChatConns : HasOpened(c) => HasOpened(c)'
  BY <1>1 DEF HasOpened
<1>9. ReadByAnother'
  <2> SUFFICES ASSUME NEW k \in Chats, NEW i \in isRead[k]
               PROVE  /\ i \in DOMAIN messages'[k]
                      /\ \E c \in ChatConns :
                           /\ ChatOf[c] = k /\ HasOpened(c)'
                           /\ UserOf[c] \in Members[k] \ {UserOf[messages'[k][i]]}
    BY <1>1 DEF ReadByAnother, Sender
  <2>1. /\ i \in DOMAIN messages[k]
        /\ \E c \in ChatConns : /\ ChatOf[c] = k /\ HasOpened(c)
                                /\ UserOf[c] \in Members[k] \ {UserOf[messages[k][i]]}
    BY DEF ReadMarks, ReadByAnother, Sender
  <2>2. i \in DOMAIN messages'[k] /\ messages'[k][i] = messages[k][i]
    BY <2>1, <1>4
  <2> QED
    BY <2>1, <2>2, <1>8
<1> QED
  BY <1>6, <1>7, <1>9 DEF ReadMarks

LEMMA MarkRead ==
  ASSUME TypeOK, ReadMarks, NEW d \in ChatConns, MarkHistoryAsRead(d) \/ MarkAsRead(d)
  PROVE  ReadMarks'
<1> DEFINE ch == ChatOf[d]
<1>1. /\ messages' = messages
      /\ isRead' = [isRead EXCEPT ![ch] =
                      IF ch \in liveChats
                      THEN @ \cup {i \in DOMAIN messages[ch] : Sender(ch, i) # UserOf[d]}
                      ELSE @]
  BY DEF MarkHistoryAsRead, MarkAsRead, MarkMessagesAsRead
<1>2. pc[d] \notin {"idle", "refused"} /\ pc'[d] \notin {"idle", "admitted", "loaded"}
  BY DEF MarkHistoryAsRead, MarkAsRead, Goto
<1>3. \A c \in ChatConns : c # d => pc'[c] = pc[c]
  BY DEF MarkHistoryAsRead, MarkAsRead, Goto
<1>4. ch \in Chats
  BY HubConstants
<1>5. UserOf[d] \in Members[ch]
  BY <1>2 DEF ReadMarks, AdmittedAreMembers
<1>6. \A k, i : Sender(k, i)' = Sender(k, i)
  BY <1>1 DEF Sender
<1>7. \A c \in ChatConns : HasOpened(c) => HasOpened(c)'
  BY <1>2, <1>3 DEF HasOpened
<1>8. HasOpened(d)'
  BY <1>2 DEF HasOpened
<1>9. AdmittedAreMembers'
  BY <1>2, <1>3, <1>5 DEF ReadMarks, AdmittedAreMembers
<1>10. SendersAreMembers'
  BY <1>1, <1>6 DEF ReadMarks, SendersAreMembers
<1>11. ReadByAnother'
  <2> SUFFICES ASSUME NEW k \in Chats, NEW i \in isRead'[k]
               PROVE  /\ i \in DOMAIN messages[k]
                      /\ \E c \in ChatConns : /\ ChatOf[c] = k /\ HasOpened(c)'
                                              /\ UserOf[c] \in Members[k] \ {Sender(k, i)}
    BY <1>1, <1>6 DEF ReadByAnother
  <2>1. CASE i \in isRead[k]
    BY <2>1, <1>7 DEF ReadMarks, ReadByAnother
  <2>2. CASE i \notin isRead[k]
    <3>1. k = ch /\ i \in DOMAIN messages[ch] /\ Sender(ch, i) # UserOf[d]
      BY <2>2, <1>1, <1>4
    <3> QED
      BY <3>1, <1>5, <1>8
  <2> QED
    BY <2>1, <2>2
<1> QED
  BY <1>9, <1>10, <1>11 DEF ReadMarks

LEMMA ReadMarksInit == Init => ReadMarks
  BY DEF Init, ChatInit, StoreInit, ReadMarks, AdmittedAreMembers, SendersAreMembers,
         ReadByAnother

LEMMA ReadMarksStep ==
  ASSUME TypeOK, ReadMarks, [Next]_vars
  PROVE  ReadMarks'
<1>1. ASSUME NEW d \in ChatConns, Handler(d) \/ Reader(d) \/ Writer(d) \/ ChatPeer(d)
      PROVE  ReadMarks'
  BY <1>1, AdmitRead, StoreRead, MarkRead, StepNothingRead, StillRead
<1>2. CASE ~\E d \in ChatConns : Handler(d) \/ Reader(d) \/ Writer(d) \/ ChatPeer(d)
  <2>1. NothingRead
    BY <1>2, RestNothingRead DEF Next, Gone
  <2> QED
    BY <2>1, StillRead
<1> QED
  BY <1>1, <1>2

LEMMA ReadMarksInvariant == Spec => []ReadMarks
  BY TypeCorrect, ReadMarksInit, ReadMarksStep, PTL DEF Spec

\* createChatForUsers makes every chat for the two sides of a friend request.
ChatsOfTwo == \A ch \in Chats : \A u, v, w \in Members[ch] : u = v \/ v = w \/ u = w

LEMMA AnotherIsTheAddressee ==
  ASSUME ChatsOfTwo, TypeOK, ReadMarks
  PROVE  ReadByAddressee
<1> HIDE DEF TypeOK
<1> SUFFICES ASSUME NEW ch \in liveChats, NEW u \in Members[ch], NEW i \in DOMAIN messages[ch],
                    Sender(ch, i) # u, i \notin Unread(ch, u)
             PROVE  \E c \in ChatConns : ChatOf[c] = ch /\ UserOf[c] = u /\ HasOpened(c)
  BY DEF ReadByAddressee, HasOpened
<1>1. ch \in Chats /\ i \in isRead[ch]
  BY DEF Unread, TypeOK
<1>2. PICK c \in ChatConns : /\ ChatOf[c] = ch /\ HasOpened(c)
                             /\ UserOf[c] \in Members[ch] \ {Sender(ch, i)}
  BY <1>1 DEF ReadMarks, ReadByAnother
<1>3. Sender(ch, i) \in Members[ch]
  BY <1>1 DEF ReadMarks, SendersAreMembers
<1>4. UserOf[c] = u
  BY <1>1, <1>2, <1>3 DEF ChatsOfTwo
<1> QED
  BY <1>2, <1>4

\* In a chat of two only the addressee, by opening it, has a message marked as read.
THEOREM OnlyTheAddresseeReads ==
  ASSUME ChatsOfTwo
  PROVE  Spec => []ReadByAddressee
<1>1. TypeOK /\ ReadMarks => ReadByAddressee
  BY AnotherIsTheAddressee
<1> QED
  BY <1>1, TypeCorrect, ReadMarksInvariant, PTL
-----------------------------------------------------------------------------

\* The log n has all of m, where it was.
Grown(m, n) == \A i \in DOMAIN m : i \in DOMAIN n /\ n[i] = m[i]

LEMMA GrownKeeps ==
  ASSUME NEW m, NEW n, Grown(m, n), NEW s, NEW t, Row(m, s), Row(m, t)
  PROVE  /\ Row(n, s)
         /\ InOrder(m, s) => InOrder(n, s)
         /\ SenderOrder(m, s, t) => SenderOrder(n, s, t)
  BY DEF Grown, Row, InOrder, SenderOrder, InTurn

LEMMA TailKeeps ==
  ASSUME NEW m, NEW s \in Seq(Nat), s # <<>>, NEW t, Row(m, s)
  PROVE  /\ Row(m, Tail(s))
         /\ InOrder(m, s) => InOrder(m, Tail(s))
         /\ SenderOrder(m, t, s) => SenderOrder(m, t, Tail(s))
<1>1. /\ Len(s) \in Nat /\ DOMAIN s = 1..Len(s)
      /\ DOMAIN Tail(s) = 1..(Len(s) - 1)
      /\ \A i \in 1..(Len(s) - 1) : Tail(s)[i] = s[i + 1]
  OBVIOUS
<1>2. \A i \in DOMAIN Tail(s) : i \in Nat /\ i + 1 \in DOMAIN s /\ Tail(s)[i] = s[i + 1]
  BY <1>1
<1>3. Row(m, Tail(s))
  BY <1>2 DEF Row
<1>4. InOrder(m, s) => InOrder(m, Tail(s))
  BY <1>2 DEF InOrder
<1>5. SenderOrder(m, t, s) => SenderOrder(m, t, Tail(s))
  BY <1>2 DEF SenderOrder
<1> QED
  BY <1>3, <1>4, <1>5

LEMMA AppendKeeps ==
  ASSUME NEW m, NEW s \in Seq(Nat), NEW x \in Nat, x \in DOMAIN m, Row(m, s)
  PROVE  /\ Row(m, Append(s, x))
         /\ InOrder(m, s) /\ (\A i \in DOMAIN s : InTurn(m, s[i], x))
              => InOrder(m, Append(s, x))
<1>1. /\ Len(s) \in Nat /\ DOMAIN s = 1..Len(s)
      /\ DOMAIN Append(s, x) = 1..(Len(s) + 1)
      /\ \A i \in 1..Len(s) : Append(s, x)[i] = s[i]
      /\ Append(s, x)[Len(s) + 1] = x
  BY Appended
<1>2. \A i \in DOMAIN Append(s, x) :
        \/ i \in DOMAIN s /\ Append(s, x)[i] = s[i]
        \/ i = Len(s) + 1 /\ Append(s, x)[i] = x
  BY <1>1
<1>3. Row(m, Append(s, x))
  BY <1>2 DEF Row
<1>4. ASSUME InOrder(m, s), \A i \in DOMAIN s : InTurn(m, s[i], x),
             NEW i \in DOMAIN Append(s, x), NEW j \in DOMAIN Append(s, x), i < j
      PROVE  InTurn(m, Append(s, x)[i], Append(s, x)[j])
  <2>1. i \in DOMAIN s /\ Append(s, x)[i] = s[i]
    BY <1>1, <1>4
  <2>2. CASE j \in DOMAIN s /\ Append(s, x)[j] = s[j]
    BY <2>1, <2>2, <1>4 DEF InOrder
  <2>3. CASE Append(s, x)[j] = x
    BY <2>1, <2>3, <1>4
  <2> QED
    BY <2>2, <2>3, <1>2
<1> QED
  BY <1>3, <1>4 DEF InOrder

LEMMA AppendBehind ==
  ASSUME NEW m, NEW s \in Seq(Nat), NEW x \in Nat, NEW t,
         SenderOrder(m, t, s), \A i \in DOMAIN t : InTurn(m, t[i], x)
  PROVE  SenderOrder(m, t, Append(s, x))
<1>1. \A i \in DOMAIN Append(s, x) :
        (i \in DOMAIN s /\ Append(s, x)[i] = s[i]) \/ Append(s, x)[i] = x
  BY Appended
<1> QED
  BY <1>1 DEF SenderOrder

\* The head of what is to be sent goes behind what was sent.
LEMMA MovedKeeps ==
  ASSUME NEW m, NEW w \in Seq(Nat), NEW s \in Seq(Nat), s # <<>>, Row(m, w), Row(m, s),
         InOrder(m, w), InOrder(m, s), SenderOrder(m, w, s)
  PROVE  /\ Row(m, Append(w, Head(s))) /\ InOrder(m, Append(w, Head(s)))
         /\ SenderOrder(m, Append(w, Head(s)), Tail(s))
<1>1. /\ Len(s) \in Nat /\ DOMAIN s = 1..Len(s) /\ 1 \in DOMAIN s
      /\ Head(s) = s[1] /\ s[1] \in Nat
      /\ DOMAIN Tail(s) = 1..(Len(s) - 1)
      /\ \A i \in 1..(Len(s) - 1) : Tail(s)[i] = s[i + 1]
  OBVIOUS
<1>2. s[1] \in DOMAIN m /\ \A i \in DOMAIN w : InTurn(m, w[i], s[1])
  BY <1>1 DEF Row, SenderOrder
<1>3. Row(m, Append(w, s[1])) /\ InOrder(m, Append(w, s[1]))
  BY <1>1, <1>2, AppendKeeps
<1>4. \A j \in DOMAIN Tail(s) : j + 1 \in DOMAIN s /\ 1 < j + 1 /\ Tail(s)[j] = s[j + 1]
  BY <1>1
<1>5. \A i \in DOMAIN Append(w, s[1]) :
        (i \in DOMAIN w /\ Append(w, s[1])[i] = w[i]) \/ Append(w, s[1])[i] = s[1]
  BY <1>1, Appended
<1>6. SenderOrder(m, Append(w, s[1]), Tail(s))
  <2> SUFFICES ASSUME NEW i \in DOMAIN Append(w, s[1]), NEW j \in DOMAIN Tail(s)
               PROVE  InTurn(m, Append(w, s[1])[i], s[j + 1])
    BY <1>4 DEF SenderOrder
  <2>1. j + 1 \in DOMAIN s /\ 1 < j + 1
    BY <1>4
  <2>2. CASE i \in DOMAIN w /\ Append(w, s[1])[i] = w[i]
    BY <2>1, <2>2 DEF SenderOrder
  <2>3. CASE Append(w, s[1])[i] = s[1]
    BY <2>1, <2>3, <1>1 DEF InOrder
  <2> QED
    BY <2>2, <2>3, <1>5
<1> QED
  BY <1>1, <1>3, <1>6

\* The window GetMessagesByChat returns has its positions in order.
LEMMA HistoryOrdered ==
  ASSUME TypeOK, NEW ch \in Chats
  PROVE  Row(messages[ch], History(ch)) /\ InOrder(messages[ch], History(ch))
<1> DEFINE m == messages[ch]
           n == Len(m)
           k == IF n < HistoryLimit THEN n ELSE HistoryLimit
<1>1. m \in Seq(ChatConns) /\ DOMAIN m = 1..n /\ n \in Nat
  OBVIOUS
<1>2. k \in Nat /\ k <= n
  BY <1>1, StoreConstants
<1>3. CASE ch \in liveChats
  <2>1. History(ch) = [i \in 1..k |-> n - k + i]
    BY <1>3 DEF History
  <2> HIDE DEF n, k
  <2>2. DOMAIN History(ch) = 1..k /\ \A i \in 1..k : History(ch)[i] = n - k + i
    BY <2>1
  <2>3. \A i \in 1..k : n - k + i \in 1..n
    BY <1>1, <1>2
  <2>4. Row(m, History(ch))
    BY <1>1, <2>2, <2>3 DEF Row
  <2>5. \A i, j \in 1..k : i < j => n - k + i <= n - k + j
    BY <1>1, <1>2
  <2>6. InOrder(m, History(ch))
    BY <2>2, <2>5 DEF InOrder, InTurn
  <2> QED
    BY <2>4, <2>6
<1>4. CASE ch \notin liveChats
  <2>1. History(ch) = <<>>
    BY <1>4 DEF History
  <2> QED
    BY <2>1 DEF Row, InOrder
<1> QED
  BY <1>3, <1>4

\* A step that leaves what the peer of c is sent, and the log, as they are.
Unsorted(c) ==
  /\ messages' = messages
  /\ history'[c] = history[c] /\ send'[c] = send[c] /\ wire'[c] = wire[c]
  /\ pc'[c] \in {"idle"} \cup InHandler => pc[c] \in {"idle"} \cup InHandler

\* ... and one in which the read loop of c takes nothing to the hub.
Unheld(c) ==
  /\ messages' = messages
  /\ pc'[c] = "sending" => pc[c] = "sending" /\ stored'[c] = stored[c]

LEMMA StillOrdered ==
  ASSUME NEW c \in ChatConns, OrderedAt(c), Unsorted(c)
  PROVE  OrderedAt(c)'
<1>1. Log(c)' = Log(c)
  BY DEF Unsorted, Log
<1> QED
  BY <1>1 DEF OrderedAt, Unsorted

LEMMA StillHeld ==
  ASSUME HeldIsLatest, \A c \in ChatConns : Unheld(c)
  PROVE  HeldIsLatest'
<1>1. \A c \in ChatConns : Log(c)' = Log(c)
  BY DEF Unheld, Log
<1> QED
  BY <1>1 DEF HeldIsLatest, Unheld

LEMMA RestUnsorted ==
  ASSUME TypeOK,
         \/ Sigterm \/ Drained \/ HubDone \/ CloseDB \/ Exit \/ Killed \/ Deadline
         \/ HubStep
         \/ \E p \in PresConns : Presence(p) \/ PresencePeer(p)
         \/ \E d \in Conns : LosePeer(d)
         \/ \E ch \in Chats : Unfriend(ch)
         \/ UNCHANGED vars,
         NEW c \in ChatConns
  PROVE  Unsorted(c) /\ Unheld(c)
<1>1. UNCHANGED <<messages, history, wire, send, pc, stored>>
  <2>1. CASE Sigterm \/ Drained \/ HubDone \/ CloseDB \/ Exit \/ Killed \/ Deadline
    BY <2>1 DEF Sigterm, Drained, HubDone, CloseDB, Exit, Killed, Deadline, MainStep
  <2>2. CASE HubStep
    BY <2>2 DEF HubStep, HubShutdown, HubHangUp, HubExit
  <2>3. CASE \E p \in PresConns : Presence(p) \/ PresencePeer(p)
    BY <2>3
       DEF Presence, PresencePeer, SetOnline, HubSetOnline, RegisterPresence,
           HubRegisterPresence, PresenceReadError, UnregisterPresence, HubUnregisterPresence,
           SetOffline, HubSetOffline, PresenceClose, PresenceUpgrade, PresenceRefuse,
           PresenceReadTooBig
  <2>4. CASE \E d \in Conns : LosePeer(d)
    BY <2>4 DEF LosePeer
  <2>5. CASE \E ch \in Chats : Unfriend(ch)
    BY <2>5 DEF Unfriend, EndFriendship, DeleteChat
  <2>6. CASE UNCHANGED vars
    BY <2>6 DEF vars
  <2> QED
    BY <2>1, <2>2, <2>3, <2>4, <2>5, <2>6
<1> QED
  BY <1>1 DEF Unsorted, Unheld

LEMMA StepUnsorted ==
  ASSUME TypeOK, NEW d \in ChatConns,
         Handler(d) \/ Reader(d) \/ Writer(d) \/ ChatPeer(d),
         ~StoreMessage(d), ~Broadcast(d), ~LoadHistory(d), ~Upgrade(d),
         ~WriteNext(d), ~WriteFails(d),
         NEW c \in ChatConns
  PROVE  Unsorted(c) /\ Unheld(c)
<1> USE DEF Unsorted, Unheld, Goto
<1>1. CASE Handler(d)
  BY <1>1 DEF Handler, MarkHistoryAsRead, MarkMessagesAsRead, Refuse, Register, HubRegister
<1>2. CASE Reader(d)
  BY <1>2 DEF Reader, StoreFails, ReadError, Unregister, HubUnregister, Close
<1>3. CASE Writer(d)
  BY <1>3 DEF Writer, WriteGoodbye
<1>4. CASE ChatPeer(d)
  BY <1>4 DEF ChatPeer, Admit, Refuse, ReadMessage, RateLimited, ReadTooBig, MarkAsRead,
              MarkMessagesAsRead
<1> QED
  BY <1>1, <1>2, <1>3, <1>4

LEMMA OrderedStore ==
  ASSUME TypeOK, Ordered, NEW d \in ChatConns, StoreMessage(d)
  PROVE  Ordered'
<1> DEFINE ch == ChatOf[d]
<1>1. /\ pc[d] = "storing" /\ pc' = [pc EXCEPT ![d] = "sending"]
      /\ stored' = [stored EXCEPT ![d] = Len(messages[ch]) + 1]
      /\ UNCHANGED <<history, send, wire>> /\ CreateMessage(d)
  BY DEF StoreMessage, Goto
<1>2. /\ \A k \in Chats : \A i \in DOMAIN messages'[k] :
              \/ i \in DOMAIN messages[k] /\ messages'[k][i] = messages[k][i]
              \/ k = ch /\ i = Len(messages[ch]) + 1 /\ messages'[k][i] = d
      /\ \A k \in Chats : \A i \in DOMAIN messages[k] :
              i \in DOMAIN messages'[k] /\ messages'[k][i] = messages[k][i]
      /\ Len(messages[ch]) + 1 \in DOMAIN messages'[ch]
      /\ messages'[ch][Len(messages[ch]) + 1] = d
      /\ \A i \in DOMAIN messages[ch] : i <= Len(messages[ch])
  <2> HIDE DEF TypeOK
  <2> QED
    BY <1>1, StoredAtTheEnd
<1>3. \A c \in ChatConns : ChatOf[c] \in Chats
  BY HubConstants
<1>4. Len(messages[ch]) \in Nat /\ DOMAIN messages[ch] = 1..Len(messages[ch])
  <2>1. messages[ch] \in Seq(ChatConns)
    BY <1>3
  <2> QED
    BY <2>1
<1> HIDE DEF ch
<1>5. ASSUME NEW c \in ChatConns
      PROVE  OrderedAt(c)'
  <2>1. Grown(Log(c), Log(c)')
    BY <1>2, <1>3 DEF Grown, Log
  <2>2. OrderedAt(c)
    BY DEF Ordered
  <2>3. pc'[c] \in {"idle"} \cup InHandler => pc[c] \in {"idle"} \cup InHandler
    BY <1>1
  <2> HIDE DEF TypeOK
  <2>4. /\ Row(Log(c)', history[c]) /\ Row(Log(c)', send[c]) /\ Row(Log(c)', wire[c])
        /\ InOrder(Log(c)', history[c]) /\ InOrder(Log(c)', send[c])
        /\ InOrder(Log(c)', wire[c]) /\ SenderOrder(Log(c)', wire[c], send[c])
    BY <2>1, <2>2, GrownKeeps DEF OrderedAt
  <2> QED
    BY <2>2, <2>3, <2>4, <1>1 DEF OrderedAt
<1>6. ASSUME NEW c \in ChatConns, pc'[c] = "sending"
      PROVE  Latest(Log(c)', stored'[c]) /\ Log(c)'[stored'[c]] = c
  <2>1. CASE c = d
    <3>1. stored'[c] = Len(messages[ch]) + 1 /\ Log(c)' = messages'[ch]
      BY <1>1, <2>1 DEF Log, ch
    <3>2. \A i \in DOMAIN messages'[ch] : i <= Len(messages[ch]) + 1
      <4>1. ch \in Chats /\ \A i \in DOMAIN messages[ch] : i <= Len(messages[ch]) + 1
        BY <1>3, <1>4 DEF ch
      <4>2. Len(messages[ch]) + 1 <= Len(messages[ch]) + 1
        BY <1>4
      <4> HIDE DEF TypeOK
      <4> QED
        BY <4>1, <4>2, <1>2, Zenon
    <3> QED
      BY <3>1, <3>2, <1>2, <2>1 DEF Latest
  <2>2. CASE c # d
    <3>1. pc[c] = "sending" /\ stored'[c] = stored[c]
      BY <1>1, <1>6, <2>2
    <3>2. Latest(Log(c), stored[c]) /\ Log(c)[stored[c]] = c
      BY <3>1 DEF Ordered, HeldIsLatest
    <3>3. stored[c] \in DOMAIN Log(c)' /\ Log(c)'[stored[c]] = c
      BY <3>2, <1>2, <1>3 DEF Latest, Log
    <3>4. \A i \in DOMAIN Log(c)' : Log(c)'[i] = c => i \in DOMAIN Log(c) /\ Log(c)[i] = c
      BY <1>2, <1>3, <2>2 DEF Log
    <3> QED
      BY <3>1, <3>2, <3>3, <3>4 DEF Latest
  <2> QED
    BY <2>1, <2>2
<1> QED
  BY <1>5, <1>6 DEF Ordered, HeldIsLatest

LEMMA OrderedBroadcast ==
  ASSUME TypeOK, Ordered, NEW d \in ChatConns, Broadcast(d)
  PROVE  Ordered'
<1> DEFINE m == stored[d]
<1>1. /\ pc[d] = "sending" /\ pc' = [pc EXCEPT ![d] = "reading"]
      /\ \A c \in ChatConns :
           send'[c] = IF c \in Reached(d) THEN Append(send[c], m) ELSE send[c]
      /\ stored' = [stored EXCEPT ![d] = 0]
      /\ UNCHANGED <<history, wire, messages>>
  BY DEF Broadcast, HubBroadcast, Goto
<1>2. Latest(Log(d), m) /\ Log(d)[m] = d /\ m \in Nat
  BY <1>1 DEF Ordered, HeldIsLatest
<1> HIDE DEF m
<1>3. \A c \in ChatConns : Unheld(c)
  BY <1>1 DEF Unheld
<1>4. HeldIsLatest'
  BY <1>3, StillHeld DEF Ordered
<1>5. ASSUME NEW c \in ChatConns PROVE OrderedAt(c)'
  <2>1. OrderedAt(c)
    BY DEF Ordered
  <2>2. CASE c \notin Reached(d)
    <3>1. Unsorted(c)
      BY <2>2, <1>1 DEF Unsorted
    <3> QED
      BY <2>1, <3>1, StillOrdered
  <2>3. CASE c \in Reached(d)
    <3>1. ChatOf[c] = ChatOf[d]
      BY <2>3 DEF Reached, Recipients
    <3>2. Log(c) = Log(d) /\ Log(c)' = Log(c)
      BY <3>1, <1>1 DEF Log
    <3>3. send'[c] = Append(send[c], m) /\ send[c] \in Seq(Nat)
      BY <2>3, <1>1
    <3>4. m \in DOMAIN Log(c) /\ \A i \in DOMAIN Log(c) : InTurn(Log(c), i, m)
      BY <1>2, <3>2 DEF Latest, InTurn
    <3>5. /\ \A i \in DOMAIN send[c] : InTurn(Log(c), send[c][i], m)
          /\ \A i \in DOMAIN wire[c] : InTurn(Log(c), wire[c][i], m)
      BY <2>1, <3>4 DEF OrderedAt, Row
    <3>6. pc'[c] \in {"idle"} \cup InHandler => pc[c] \in {"idle"} \cup InHandler
      BY <1>1
    <3> HIDE DEF TypeOK
    <3>7. Row(Log(c), send'[c]) /\ InOrder(Log(c), send'[c])
      BY <1>2, <2>1, <3>3, <3>4, <3>5, AppendKeeps DEF OrderedAt
    <3>8. SenderOrder(Log(c), wire[c], send'[c])
      BY <1>2, <2>1, <3>3, <3>5, AppendBehind DEF OrderedAt
    <3> QED
      BY <2>1, <3>2, <3>6, <3>7, <3>8, <1>1 DEF OrderedAt
  <2> QED
    BY <2>2, <2>3
<1> QED
  BY <1>4, <1>5 DEF Ordered

LEMMA OrderedHandler ==
  ASSUME TypeOK, Ordered, NEW d \in ChatConns, LoadHistory(d) \/ Upgrade(d)
  PROVE  Ordered'
<1>1. \A c \in ChatConns : Unheld(c)
  BY DEF LoadHistory, Upgrade, Goto, Unheld
<1>2. HeldIsLatest'
  BY <1>1, StillHeld DEF Ordered
<1>3. ASSUME NEW c \in ChatConns PROVE OrderedAt(c)'
  <2>1. OrderedAt(c)
    BY DEF Ordered
  <2>2. CASE c # d
    <3>1. Unsorted(c)
      BY <2>2 DEF LoadHistory, Upgrade, Goto, Unsorted
    <3> QED
      BY <2>1, <3>1, StillOrdered
  <2>3. CASE c = d
    <3>1. ChatOf[c] \in Chats /\ Log(c)' = Log(c)
      BY HubConstants DEF LoadHistory, Upgrade, Log
    <3>2. wire'[c] = wire[c] /\ wire[c] = <<>>
      BY <2>1, <2>3 DEF LoadHistory, Upgrade, Goto, OrderedAt
    <3>3. /\ history'[c] \in {history[c], History(ChatOf[c])}
          /\ send'[c] \in {send[c], history[c]}
      BY <2>3 DEF LoadHistory, Upgrade
    <3> HIDE DEF TypeOK
    <3>4. Row(Log(c), history'[c]) /\ InOrder(Log(c), history'[c])
      BY <2>1, <3>1, <3>3, HistoryOrdered DEF OrderedAt, Log
    <3>5. Row(Log(c), send'[c]) /\ InOrder(Log(c), send'[c])
      BY <2>1, <3>3 DEF OrderedAt
    <3>6. SenderOrder(Log(c), <<>>, send'[c])
      BY DEF SenderOrder
    <3> QED
      BY <2>1, <3>1, <3>2, <3>4, <3>5, <3>6 DEF OrderedAt
  <2> QED
    BY <2>2, <2>3
<1> QED
  BY <1>2, <1>3 DEF Ordered

LEMMA OrderedWriter ==
  ASSUME TypeOK, Places, Ordered, NEW d \in ChatConns, WriteNext(d) \/ WriteFails(d)
  PROVE  Ordered'
<1>1. UNCHANGED <<messages, pc, stored, history>> /\ writer[d] = "running"
  BY DEF WriteNext, WriteFails
<1>2. \A c \in ChatConns : Unheld(c)
  BY <1>1 DEF Unheld
<1>3. HeldIsLatest'
  BY <1>2, StillHeld DEF Ordered
<1>4. ASSUME NEW c \in ChatConns PROVE OrderedAt(c)'
  <2>1. OrderedAt(c) /\ Log(c)' = Log(c)
    BY <1>1 DEF Ordered, Log
  <2>2. CASE send'[c] = send[c] /\ wire'[c] = wire[c]
    BY <2>1, <2>2, <1>1, StillOrdered DEF Unsorted
  <2>3. CASE ~(send'[c] = send[c] /\ wire'[c] = wire[c])
    <3>1. /\ c = d /\ send[c] # <<>> /\ send'[c] = Tail(send[c])
          /\ wire'[c] = wire[c] \/ wire'[c] = Append(wire[c], Head(send[c]))
      <4>1. c = d
        BY <2>3 DEF WriteNext, WriteFails
      <4>2. CASE WriteNext(d)
        BY <2>3, <4>1, <4>2 DEF WriteNext
      <4>3. CASE WriteFails(d)
        BY <2>3, <4>1, <4>3 DEF WriteFails
      <4> QED
        BY <4>1, <4>2, <4>3
    <3>2. send[c] \in Seq(Nat) /\ wire[c] \in Seq(Nat)
      OBVIOUS
    <3>3. pc[c] \notin {"idle"} \cup InHandler
      BY <3>1, <1>1 DEF Places, ChatPlace, BeforeRegister
    <3> HIDE DEF TypeOK
    <3>4. Row(Log(c), send'[c]) /\ InOrder(Log(c), send'[c])
      BY <2>1, <3>1, <3>2, TailKeeps DEF OrderedAt
    <3>5. /\ Row(Log(c), wire'[c]) /\ InOrder(Log(c), wire'[c])
          /\ SenderOrder(Log(c), wire'[c], send'[c])
      <4>1. CASE wire'[c] = wire[c]
        BY <4>1, <2>1, <3>1, <3>2, TailKeeps DEF OrderedAt
      <4>2. CASE wire'[c] = Append(wire[c], Head(send[c]))
        BY <4>2, <2>1, <3>1, <3>2, MovedKeeps DEF OrderedAt
      <4> QED
        BY <4>1, <4>2, <3>1
    <3> QED
      BY <2>1, <3>3, <3>4, <3>5, <1>1 DEF OrderedAt
  <2> QED
    BY <2>2, <2>3
<1> QED
  BY <1>3, <1>4 DEF Ordered

LEMMA OrderedInit == Init => Ordered
  BY DEF Init, ChatInit, HubInit, Ordered, HeldIsLatest, OrderedAt, Row, InOrder, SenderOrder

LEMMA OrderedStep ==
  ASSUME TypeOK, Places, Ordered, [Next]_vars
  PROVE  Ordered'
<1>1. CASE \A c \in ChatConns : Unsorted(c) /\ Unheld(c)
  BY <1>1, StillOrdered, StillHeld DEF Ordered
<1>2. ASSUME NEW d \in ChatConns, Handler(d) \/ Reader(d) \/ Writer(d) \/ ChatPeer(d)
      PROVE  Ordered'
  <2>1. CASE \/ StoreMessage(d) \/ Broadcast(d) \/ LoadHistory(d) \/ Upgrade(d)
             \/ WriteNext(d) \/ WriteFails(d)
    BY <2>1, OrderedStore, OrderedBroadcast, OrderedHandler, OrderedWriter
  <2> QED
    BY <1>1, <1>2, <2>1, StepUnsorted
<1>3. CASE ~\E d \in ChatConns : Handler(d) \/ Reader(d) \/ Writer(d) \/ ChatPeer(d)
  BY <1>1, <1>3, RestUnsorted DEF Next, Gone
<1> QED
  BY <1>2, <1>3

LEMMA OrderedInvariant == Spec => []Ordered
  BY TypeCorrect, PlacesInvariant, OrderedInit, OrderedStep, PTL DEF Spec

\* What one connection wrote is shown to every peer in the order it was written.
THEOREM SendersAreHeardInOrder == Spec => []PerSenderOrder
<1>1. TypeOK /\ Ordered => PerSenderOrder
  <2> SUFFICES ASSUME TypeOK, Ordered, NEW c \in ChatConns,
                      NEW i \in 1..Len(wire[c]), NEW j \in 1..Len(wire[c]), i < j,
                      messages[ChatOf[c]][wire[c][i]] = messages[ChatOf[c]][wire[c][j]]
               PROVE  wire[c][i] <= wire[c][j]
    BY DEF PerSenderOrder
  <2>1. DOMAIN wire[c] = 1..Len(wire[c])
    BY DEF TypeOK, ChatTypeOK
  <2>2. InOrder(Log(c), wire[c])
    BY DEF Ordered, OrderedAt
  <2> QED
    BY <2>1, <2>2 DEF InOrder, InTurn, Log
<1> QED
  BY <1>1, TypeCorrect, OrderedInvariant, PTL
================================================================================
