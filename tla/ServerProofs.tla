----------------------------- MODULE ServerProofs -----------------------------
(***************************************************************************)
(* The safety of the server for every number of users, chats, connections  *)
(* and messages.                                                           *)
(***************************************************************************)
EXTENDS ServerProperties, FiniteSetTheorems, TLAPS

LEMMA TypeInit == Init => TypeOK
<1> SUFFICES ASSUME Init PROVE TypeOK
  OBVIOUS
<1>1. main \in MainStates /\ expired \in BOOLEAN
  BY DEF Init, MainStates
<1>2. SocketsTypeOK
  BY DEF Init, SocketsInit, SocketsTypeOK, SocketStates, Frames
<1>3. HubTypeOK
  BY DEF Init, HubInit, HubTypeOK
<1>4. StoreTypeOK
  BY DEF Init, StoreInit, StoreTypeOK
<1>5. ChatTypeOK
  BY DEF Init, ChatInit, ChatTypeOK, ChatStates
<1>6. PresenceTypeOK
  BY DEF Init, PresenceInit, PresenceTypeOK
<1> QED
  BY <1>1, <1>2, <1>3, <1>4, <1>5, <1>6 DEF TypeOK

(***************************************************************************)
(* Typing, action by action.                                               *)
(***************************************************************************)

USE DEF TypeOK, SocketsTypeOK, HubTypeOK, StoreTypeOK, ChatTypeOK, PresenceTypeOK,
        mainVars, sockVars, hubVars, chanVars, storeVars, chatLocals, chatVars

LEMMA TypeMain ==
  ASSUME TypeOK,
         Sigterm \/ Drained \/ HubDone \/ CloseDB \/ Exit \/ Killed \/ Deadline
  PROVE  TypeOK'
  BY DEF MainStates, Sigterm, Drained, HubDone, CloseDB, Exit, Killed, Deadline, MainStep

LEMMA TypeHub ==
  ASSUME TypeOK, HubStep
  PROVE  TypeOK'
<1>1. CASE HubShutdown /\ UNCHANGED <<mainVars, chatVars, ppc>>
  BY <1>1 DEF HubShutdown, CloseAll, Conns
<1>2. ASSUME NEW c \in Conns, HubHangUp(c), UNCHANGED <<mainVars, chatVars, ppc>>
      PROVE  TypeOK'
  BY <1>2 DEF HubHangUp, CloseConn, FrameAfter, Frames, SocketStates
<1>3. CASE HubExit /\ UNCHANGED <<mainVars, chatVars, ppc>>
  BY <1>3 DEF HubExit
<1> QED
  BY <1>1, <1>2, <1>3 DEF HubStep

LEMMA HistoryType ==
  ASSUME TypeOK, NEW ch \in Chats
  PROVE  History(ch) \in Seq(Nat \ {0})
<1> DEFINE n == Len(messages[ch])
           k == IF n < HistoryLimit THEN n ELSE HistoryLimit
<1>1. n \in Nat
  OBVIOUS
<1> HIDE DEF n
<1>2. HistoryLimit \in Nat
  BY StoreConstants
<1>3. k \in Nat /\ k <= n
  BY <1>1, <1>2
<1> HIDE DEF k
<1>4. [i \in 1..k |-> n - k + i] \in Seq(Nat \ {0})
  BY <1>1, <1>3
<1> QED
  BY <1>4 DEF History, n, k

LEMMA MarkType ==
  ASSUME TypeOK, NEW ch \in Chats, NEW u, MarkMessagesAsRead(ch, u)
  PROVE  isRead' \in [Chats -> SUBSET (Nat \ {0})] /\ UNCHANGED <<liveChats, messages>>
<1> DEFINE new == {i \in DOMAIN messages[ch] : Sender(ch, i) # u}
           marked == IF ch \in liveChats THEN isRead[ch] \cup new ELSE isRead[ch]
<1>1. messages[ch] \in Seq(ChatConns) /\ isRead \in [Chats -> SUBSET (Nat \ {0})]
  OBVIOUS
<1>2. DOMAIN messages[ch] = 1..Len(messages[ch]) /\ Len(messages[ch]) \in Nat
  BY <1>1
<1>3. DOMAIN messages[ch] \subseteq Nat \ {0}
  BY <1>2, SMTT(40)
<1>4. new \subseteq Nat \ {0}
  BY <1>3
<1>5. isRead' = [isRead EXCEPT ![ch] = marked] /\ UNCHANGED <<liveChats, messages>>
  BY <1>1 DEF MarkMessagesAsRead
<1> HIDE DEF new
<1>6. marked \in SUBSET (Nat \ {0})
  BY <1>1, <1>4
<1> HIDE DEF marked
<1> QED
  BY <1>1, <1>5, <1>6

LEMMA TypeHandler ==
  ASSUME TypeOK, NEW c \in ChatConns, Handler(c)
  PROVE  TypeOK'
<1> USE DEF Goto, ChatStates, InHandler, Registered, Looping
<1> c \in Conns /\ ChatOf[c] \in Chats
  BY HubConstants DEF Conns
<1>0. UNCHANGED <<main, expired, ppc>>
  BY DEF Handler
<1>1. CASE LoadHistory(c)
  BY <1>0, <1>1, HistoryType DEF LoadHistory
<1>2. CASE MarkHistoryAsRead(c)
  <2>1. isRead' \in [Chats -> SUBSET (Nat \ {0})]
    BY <1>2, MarkType DEF MarkHistoryAsRead
  <2>2. UNCHANGED <<liveChats, messages>>
    BY <1>2, MarkType DEF MarkHistoryAsRead
  <2> QED
    BY <1>0, <1>2, <2>1, <2>2 DEF MarkHistoryAsRead
<1>3. CASE Refuse(c)
  BY <1>0, <1>3 DEF Refuse
<1>4. CASE Upgrade(c)
  BY <1>0, <1>4, SMTT(40) DEF Upgrade, Hijack, SocketStates
<1>5. CASE Register(c)
  BY <1>0, <1>5, SMTT(40) DEF Register, HubRegister, Conns
<1> QED
  BY <1>1, <1>2, <1>3, <1>4, <1>5 DEF Handler

LEMMA TypeReader ==
  ASSUME TypeOK, NEW c \in ChatConns, Reader(c)
  PROVE  TypeOK'
<1> USE DEF Goto, ChatStates, InHandler, Registered, Looping
<1> c \in Conns /\ ChatOf[c] \in Chats
  BY HubConstants DEF Conns
<1>0. UNCHANGED <<main, expired, ppc>>
  BY DEF Reader
<1>1. CASE StoreMessage(c)
  <2>1. messages' \in [Chats -> Seq(ChatConns)]
    BY <1>1 DEF StoreMessage, CreateMessage
  <2>2. stored' \in [ChatConns -> Nat]
    BY <1>1 DEF StoreMessage
  <2>3. UNCHANGED <<liveChats, isRead>>
    BY <1>1 DEF StoreMessage, CreateMessage
  <2> QED
    BY <1>0, <1>1, <2>1, <2>2, <2>3 DEF StoreMessage
<1>2. CASE StoreFails(c)
  BY <1>0, <1>2 DEF StoreFails
<1>3. CASE Broadcast(c)
  <2>1. send' \in [ChatConns -> Seq(Nat)]
    <3>1. send' = [d \in ChatConns |-> IF d \in Reached(c)
                                        THEN Append(send[d], stored[c]) ELSE send[d]]
      BY <1>3 DEF Broadcast, HubBroadcast
    <3> QED
      BY <3>1
  <2>2. sendOpen' \in [ChatConns -> BOOLEAN] /\ clients' \in SUBSET ChatConns
    <3>1. clients' = clients \ Overflowing(c)
      BY <1>3 DEF Broadcast, HubBroadcast
    <3>2. sendOpen' = [d \in ChatConns |-> sendOpen[d] /\ d \notin Overflowing(c)]
      BY <1>3 DEF Broadcast, HubBroadcast
    <3> QED
      BY <3>1, <3>2
  <2>3. feed' \in [ChatConns -> Seq(Nat)] /\ stored' \in [ChatConns -> Nat]
    BY <1>3 DEF Broadcast
  <2>4. UNCHANGED <<hub, hangup, presenceClients, online, sockVars>>
    BY <1>3 DEF Broadcast, HubBroadcast
  <2> QED
    BY <1>0, <1>3, <2>1, <2>2, <2>3, <2>4 DEF Broadcast
<1>4. CASE ReadError(c)
  BY <1>0, <1>4 DEF ReadError
<1>5. CASE Unregister(c)
  BY <1>0, <1>5 DEF Unregister, HubUnregister
<1>6. CASE Close(c)
  BY <1>0, <1>6 DEF Close, CloseSocket, SocketStates
<1> QED
  BY <1>1, <1>2, <1>3, <1>4, <1>5, <1>6 DEF Reader

LEMMA TypeWriter ==
  ASSUME TypeOK, NEW c \in ChatConns, Writer(c)
  PROVE  TypeOK'
<1> c \in Conns
  BY DEF Conns
<1>0. UNCHANGED <<main, expired, ppc>>
  BY DEF Writer
<1>1. CASE WriteNext(c)
  BY <1>0, <1>1, SMTT(40) DEF WriteNext
<1>2. CASE WriteFails(c)
  BY <1>0, <1>2 DEF WriteFails
<1>3. CASE WriteGoodbye(c)
  BY <1>0, <1>3 DEF WriteGoodbye, WriteCloseFrame, FrameAfter, Frames
<1> QED
  BY <1>1, <1>2, <1>3 DEF Writer

LEMMA TypeChatPeer ==
  ASSUME TypeOK, NEW c \in ChatConns, ChatPeer(c)
  PROVE  TypeOK'
<1> USE DEF Goto, ChatStates, InHandler, Registered, Looping
<1> c \in Conns /\ ChatOf[c] \in Chats
  BY HubConstants DEF Conns
<1>0. UNCHANGED <<main, expired, ppc>>
  BY DEF ChatPeer
<1>1. CASE Admit(c)
  BY <1>0, <1>1 DEF Admit
<1>2. CASE Refuse(c)
  BY <1>0, <1>2 DEF Refuse
<1>3. CASE ReadMessage(c)
  BY <1>0, <1>3 DEF ReadMessage
<1>4. CASE RateLimited(c)
  BY <1>0, <1>4 DEF RateLimited, CloseConn, FrameAfter, Frames, SocketStates
<1>5. CASE ReadTooBig(c)
  BY <1>0, <1>5 DEF ReadTooBig, WriteCloseFrame, FrameAfter, Frames
<1>6. CASE MarkAsRead(c)
  <2>1. isRead' \in [Chats -> SUBSET (Nat \ {0})] /\ UNCHANGED <<liveChats, messages>>
    BY <1>6, MarkType DEF MarkAsRead
  <2> QED
    BY <1>0, <1>6, <2>1 DEF MarkAsRead
<1> QED
  BY <1>1, <1>2, <1>3, <1>4, <1>5, <1>6 DEF ChatPeer

LEMMA TypePresence ==
  ASSUME TypeOK, NEW p \in PresConns, Presence(p) \/ PresencePeer(p)
  PROVE  TypeOK'
<1> USE DEF PGoto, Counted
<1> p \in Conns /\ UserOf[p] \in Users
  BY HubConstants DEF Conns
<1>0. UNCHANGED <<mainVars, chatVars>>
  BY DEF Presence, PresencePeer
<1>1. CASE SetOnline(p)
  BY <1>0, <1>1 DEF SetOnline, HubSetOnline
<1>2. CASE RegisterPresence(p)
  BY <1>0, <1>2 DEF RegisterPresence, HubRegisterPresence, Conns
<1>3. CASE PresenceReadError(p)
  BY <1>0, <1>3 DEF PresenceReadError
<1>4. CASE UnregisterPresence(p)
  BY <1>0, <1>4 DEF UnregisterPresence, HubUnregisterPresence
<1>5. CASE SetOffline(p)
  BY <1>0, <1>5 DEF SetOffline, HubSetOffline
<1>6. CASE PresenceClose(p)
  BY <1>0, <1>6 DEF PresenceClose, CloseSocket, SocketStates
<1>7. CASE PresenceUpgrade(p)
  BY <1>0, <1>7 DEF PresenceUpgrade, Hijack, SocketStates
<1>8. CASE PresenceRefuse(p)
  BY <1>0, <1>8 DEF PresenceRefuse
<1>9. CASE PresenceReadTooBig(p)
  BY <1>0, <1>9 DEF PresenceReadTooBig, WriteCloseFrame, FrameAfter, Frames
<1> QED
  BY <1>1, <1>2, <1>3, <1>4, <1>5, <1>6, <1>7, <1>8, <1>9 DEF Presence, PresencePeer

LEMMA TypeStep ==
  ASSUME TypeOK, [Next]_vars
  PROVE  TypeOK'
<1>1. ASSUME NEW c \in Conns, LosePeer(c)
      PROVE  TypeOK'
  BY <1>1 DEF LosePeer, PeerLost
<1>2. ASSUME NEW ch \in Chats, Unfriend(ch)
      PROVE  TypeOK'
  BY <1>2 DEF Unfriend, EndFriendship, DeleteChat
<1>3. CASE UNCHANGED vars
  BY <1>3 DEF vars
<1> QED
  BY <1>1, <1>2, <1>3, TypeMain, TypeHub, TypeHandler, TypeReader, TypeWriter,
     TypeChatPeer, TypePresence DEF Next, Gone


\* Every variable keeps its type, whatever the interleaving.
THEOREM TypeCorrect == Spec => []TypeOK
  BY TypeInit, TypeStep, PTL DEF Spec
-----------------------------------------------------------------------------
(***************************************************************************)
(* Where each connection stands: what the places of the two goroutines of  *)
(* a socket say about its channel, its socket and the maps of the hub.     *)
(***************************************************************************)
BeforeRegister == {"idle", "refused", "hijacked"} \cup InHandler

ChatPlace(c) ==
  /\ c \in clients => pc[c] \in Registered
  /\ pc[c] \in BeforeRegister => sendOpen[c] /\ writer[c] = "none"
  /\ pc[c] \in ChatStates \ (BeforeRegister \ {"hijacked"}) => sock[c] # "none"

PresencePlace(p) ==
  /\ p \in presenceClients => ppc[p] \in {"reading", "leaving"}
  /\ ppc[p] \notin {"idle", "refused"} => sock[p] # "none"

Places ==
  /\ \A c \in ChatConns : ChatPlace(c)
  /\ \A p \in PresConns : PresencePlace(p)
  /\ \A c \in hangup : sock[c] # "none"
  /\ TrackedOpen

LEMMA PlacesInit == Init => Places
  BY DEF Init, SocketsInit, HubInit, ChatInit, PresenceInit, Places, ChatPlace,
         PresencePlace, TrackedOpen, Conns, BeforeRegister

USE DEF Places, ChatPlace, PresencePlace, TrackedOpen, BeforeRegister, ChatStates, InHandler, Registered, Looping

LEMMA PlacesMain ==
  ASSUME TypeOK, Places,
         Sigterm \/ Drained \/ HubDone \/ CloseDB \/ Exit \/ Killed \/ Deadline
  PROVE  Places'
  BY DEF Sigterm, Drained, HubDone, CloseDB, Exit, Killed, Deadline, MainStep

LEMMA PlacesHub ==
  ASSUME TypeOK, Places, HubStep
  PROVE  Places'
<1>1. CASE HubShutdown /\ UNCHANGED <<mainVars, chatVars, ppc>>
  BY <1>1 DEF HubShutdown, CloseAll, Conns
<1>2. ASSUME NEW c \in Conns, HubHangUp(c), UNCHANGED <<mainVars, chatVars, ppc>>
      PROVE  Places'
  BY <1>2 DEF HubHangUp, CloseConn, Conns
<1>3. CASE HubExit /\ UNCHANGED <<mainVars, chatVars, ppc>>
  BY <1>3 DEF HubExit
<1> QED
  BY <1>1, <1>2, <1>3 DEF HubStep

LEMMA PlacesHandler ==
  ASSUME TypeOK, Places, NEW c \in ChatConns, Handler(c)
  PROVE  Places'
<1> c \in Conns
  BY DEF Conns
<1>0. UNCHANGED <<main, expired, ppc>>
  BY DEF Handler
<1>1. CASE LoadHistory(c)
  BY <1>0, <1>1 DEF LoadHistory, Goto
<1>2. CASE MarkHistoryAsRead(c)
  BY <1>0, <1>2 DEF MarkHistoryAsRead, Goto
<1>3. CASE Refuse(c)
  BY <1>0, <1>3 DEF Refuse
<1>4. CASE Upgrade(c)
  BY <1>0, <1>4, ConnsDisjoint DEF Upgrade, Hijack, Goto
<1>5. CASE Register(c)
  BY <1>0, <1>5 DEF Register, HubRegister, Goto
<1> QED
  BY <1>1, <1>2, <1>3, <1>4, <1>5 DEF Handler

LEMMA PlacesReader ==
  ASSUME TypeOK, Places, NEW c \in ChatConns, Reader(c)
  PROVE  Places'
<1> c \in Conns
  BY DEF Conns
<1>0. UNCHANGED <<main, expired, ppc>>
  BY DEF Reader
<1>1. CASE StoreMessage(c)
  BY <1>0, <1>1 DEF StoreMessage, Goto
<1>2. CASE StoreFails(c)
  BY <1>0, <1>2 DEF StoreFails, Goto
<1>3. CASE Broadcast(c)
  BY <1>0, <1>3 DEF Broadcast, HubBroadcast, Overflowing, Recipients, Goto
<1>4. CASE ReadError(c)
  BY <1>0, <1>4 DEF ReadError, Goto
<1>5. CASE Unregister(c)
  BY <1>0, <1>5 DEF Unregister, HubUnregister, Goto
<1>6. CASE Close(c)
  BY <1>0, <1>6 DEF Close, CloseSocket, Goto
<1> QED
  BY <1>1, <1>2, <1>3, <1>4, <1>5, <1>6 DEF Reader

LEMMA PlacesWriter ==
  ASSUME TypeOK, Places, NEW c \in ChatConns, Writer(c)
  PROVE  Places'
<1>0. UNCHANGED <<main, expired, ppc>>
  BY DEF Writer
<1>1. CASE WriteNext(c)
  BY <1>0, <1>1 DEF WriteNext
<1>2. CASE WriteFails(c)
  BY <1>0, <1>2 DEF WriteFails
<1>3. CASE WriteGoodbye(c)
  BY <1>0, <1>3, ZenonT(60) DEF WriteGoodbye, WriteCloseFrame
<1> QED
  BY <1>1, <1>2, <1>3 DEF Writer

LEMMA PlacesChatPeer ==
  ASSUME TypeOK, Places, NEW c \in ChatConns, ChatPeer(c)
  PROVE  Places'
<1> c \in Conns
  BY DEF Conns
<1>0. UNCHANGED <<main, expired, ppc>>
  BY DEF ChatPeer
<1>1. CASE Admit(c)
  BY <1>0, <1>1 DEF Admit, Goto
<1>2. CASE Refuse(c)
  BY <1>0, <1>2 DEF Refuse
<1>3. CASE ReadMessage(c)
  BY <1>0, <1>3 DEF ReadMessage, Goto
<1>4. CASE RateLimited(c)
  BY <1>0, <1>4 DEF RateLimited, CloseConn, Goto
<1>5. CASE ReadTooBig(c)
  BY <1>0, <1>5 DEF ReadTooBig, WriteCloseFrame, Goto
<1>6. CASE MarkAsRead(c)
  BY <1>0, <1>6 DEF MarkAsRead
<1> QED
  BY <1>1, <1>2, <1>3, <1>4, <1>5, <1>6 DEF ChatPeer

LEMMA PlacesPresence ==
  ASSUME TypeOK, Places, NEW p \in PresConns, Presence(p) \/ PresencePeer(p)
  PROVE  Places'
<1> USE DEF PGoto, Counted
<1> p \in Conns
  BY DEF Conns
<1>0. UNCHANGED <<mainVars, chatVars>>
  BY DEF Presence, PresencePeer
<1>1. CASE SetOnline(p)
  BY <1>0, <1>1 DEF SetOnline, HubSetOnline
<1>2. CASE RegisterPresence(p)
  BY <1>0, <1>2, ZenonT(60) DEF RegisterPresence, HubRegisterPresence
<1>3. CASE PresenceReadError(p)
  BY <1>0, <1>3 DEF PresenceReadError
<1>4. CASE UnregisterPresence(p)
  BY <1>0, <1>4 DEF UnregisterPresence, HubUnregisterPresence
<1>5. CASE SetOffline(p)
  BY <1>0, <1>5 DEF SetOffline, HubSetOffline
<1>6. CASE PresenceClose(p)
  BY <1>0, <1>6 DEF PresenceClose, CloseSocket
<1>7. CASE PresenceUpgrade(p)
  BY <1>0, <1>7, ConnsDisjoint DEF PresenceUpgrade, Hijack
<1>8. CASE PresenceRefuse(p)
  BY <1>0, <1>8 DEF PresenceRefuse
<1>9. CASE PresenceReadTooBig(p)
  BY <1>0, <1>9 DEF PresenceReadTooBig, WriteCloseFrame
<1> QED
  BY <1>1, <1>2, <1>3, <1>4, <1>5, <1>6, <1>7, <1>8, <1>9 DEF Presence, PresencePeer

LEMMA PlacesStep ==
  ASSUME TypeOK, Places, [Next]_vars
  PROVE  Places'
<1>1. ASSUME NEW c \in Conns, LosePeer(c)
      PROVE  Places'
  BY <1>1 DEF LosePeer, PeerLost
<1>2. ASSUME NEW ch \in Chats, Unfriend(ch)
      PROVE  Places'
  BY <1>2 DEF Unfriend, EndFriendship
<1>3. CASE UNCHANGED vars
  BY <1>3 DEF vars
<1> QED
  BY <1>1, <1>2, <1>3, PlacesMain, PlacesHub, PlacesHandler, PlacesReader, PlacesWriter,
     PlacesChatPeer, PlacesPresence DEF Next, Gone

LEMMA PlacesInvariant == Spec => []Places
  BY TypeCorrect, PlacesInit, PlacesStep, PTL DEF Spec

\* The hub never sends on a channel it has closed, nor closes one twice.
THEOREM NoSendOnClosed == Spec => []TrackedOpen
  BY PlacesInvariant, PTL DEF Places
-----------------------------------------------------------------------------
(***************************************************************************)
(* Why a socket ends: a read loop that left, a write loop that returned    *)
(* and a socket that is closed all go back to a lost peer or to a close    *)
(* frame.                                                                  *)
(***************************************************************************)
Ended(c) == peer[c] = "gone" \/ frame[c] # "none"

Reasons ==
  /\ \A c \in ChatConns :
       pc[c] \in {"leaving", "unregistered", "done"} \/ writer[c] = "done" => Ended(c)
  /\ \A p \in PresConns :
       ppc[p] \in {"leaving", "unregistered", "offline", "done"} => Ended(p)
  /\ NoAbruptClose

USE DEF Ended, Reasons, NoAbruptClose

LEMMA ReasonsInit == Init => Reasons
  BY DEF Init, SocketsInit, ChatInit, PresenceInit

LEMMA ReasonsHub ==
  ASSUME TypeOK, Places, Reasons, HubStep
  PROVE  Reasons'
<1>1. CASE HubShutdown /\ UNCHANGED <<mainVars, chatVars, ppc>>
  BY <1>1 DEF HubShutdown
<1>2. ASSUME NEW c \in Conns, HubHangUp(c), UNCHANGED <<mainVars, chatVars, ppc>>
      PROVE  Reasons'
  BY <1>2 DEF HubHangUp, CloseConn, FrameAfter, SocketStates, Conns
<1>3. CASE HubExit /\ UNCHANGED <<mainVars, chatVars, ppc>>
  BY <1>3 DEF HubExit
<1> QED
  BY <1>1, <1>2, <1>3 DEF HubStep

LEMMA ReasonsHandler ==
  ASSUME TypeOK, Places, Reasons, NEW c \in ChatConns, Handler(c)
  PROVE  Reasons'
<1> c \in Conns
  BY DEF Conns
<1>0. UNCHANGED <<main, expired, ppc>>
  BY DEF Handler
<1>1. CASE LoadHistory(c)
  BY <1>0, <1>1 DEF LoadHistory, Goto
<1>2. CASE MarkHistoryAsRead(c)
  BY <1>0, <1>2 DEF MarkHistoryAsRead, Goto
<1>3. CASE Refuse(c)
  BY <1>0, <1>3 DEF Refuse
<1>4. CASE Upgrade(c)
  BY <1>0, <1>4 DEF Upgrade, Hijack, Goto
<1>5. CASE Register(c)
  BY <1>0, <1>5 DEF Register, HubRegister, Goto
<1> QED
  BY <1>1, <1>2, <1>3, <1>4, <1>5 DEF Handler

LEMMA ReasonsReader ==
  ASSUME TypeOK, Places, Reasons, NEW c \in ChatConns, Reader(c)
  PROVE  Reasons'
<1> c \in Conns
  BY DEF Conns
<1>0. UNCHANGED <<main, expired, ppc>>
  BY DEF Reader
<1>1. CASE StoreMessage(c)
  BY <1>0, <1>1 DEF StoreMessage, Goto
<1>2. CASE StoreFails(c)
  BY <1>0, <1>2 DEF StoreFails, Goto
<1>3. CASE Broadcast(c)
  BY <1>0, <1>3 DEF Broadcast, HubBroadcast, Goto
<1>4. CASE ReadError(c)
  BY <1>0, <1>4 DEF ReadError, ReadsFail, Goto
<1>5. CASE Unregister(c)
  BY <1>0, <1>5 DEF Unregister, HubUnregister, Goto
<1>6. CASE Close(c)
  BY <1>0, <1>6 DEF Close, CloseSocket, Goto
<1> QED
  BY <1>1, <1>2, <1>3, <1>4, <1>5, <1>6 DEF Reader

LEMMA ReasonsWriter ==
  ASSUME TypeOK, Places, Reasons, NEW c \in ChatConns, Writer(c)
  PROVE  Reasons'
<1> c \in Conns
  BY DEF Conns
<1>0. UNCHANGED <<main, expired, ppc>>
  BY DEF Writer
<1>1. CASE WriteNext(c)
  BY <1>0, <1>1 DEF WriteNext
<1>2. CASE WriteFails(c)
  BY <1>0, <1>2, ZenonT(60) DEF WriteFails, Writable, SocketStates
<1>3. CASE WriteGoodbye(c)
  BY <1>0, <1>3 DEF WriteGoodbye, WriteCloseFrame, FrameAfter, SocketStates
<1> QED
  BY <1>1, <1>2, <1>3 DEF Writer

LEMMA ReasonsChatPeer ==
  ASSUME TypeOK, Places, Reasons, NEW c \in ChatConns, ChatPeer(c)
  PROVE  Reasons'
<1> c \in Conns
  BY DEF Conns
<1>0. UNCHANGED <<main, expired, ppc>>
  BY DEF ChatPeer
<1>1. CASE Admit(c)
  BY <1>0, <1>1 DEF Admit, Goto
<1>2. CASE Refuse(c)
  BY <1>0, <1>2 DEF Refuse
<1>3. CASE ReadMessage(c)
  BY <1>0, <1>3 DEF ReadMessage, Goto
<1>4. CASE RateLimited(c)
  <2>1. sock[c] = "open"
    BY <1>4 DEF RateLimited, ReadsFail, SocketStates, Goto
  <2>2. frame'[c] # "none" /\ \A d \in Conns \ {c} : frame'[d] = frame[d] /\ sock'[d] = sock[d]
    BY <1>4, <2>1 DEF RateLimited, CloseConn, FrameAfter
  <2> QED
    BY <1>0, <1>4, <2>2, ConnsDisjoint DEF RateLimited, CloseConn, Goto, Conns
<1>5. CASE ReadTooBig(c)
  <2>1. sock[c] = "open"
    BY <1>5 DEF ReadTooBig, ReadsFail, SocketStates, Goto
  <2>2. frame'[c] # "none" /\ \A d \in Conns \ {c} : frame'[d] = frame[d]
    BY <1>5, <2>1 DEF ReadTooBig, WriteCloseFrame, FrameAfter
  <2> QED
    BY <1>0, <1>5, <2>2, ConnsDisjoint DEF ReadTooBig, WriteCloseFrame, Goto, Conns
<1>6. CASE MarkAsRead(c)
  BY <1>0, <1>6 DEF MarkAsRead
<1> QED
  BY <1>1, <1>2, <1>3, <1>4, <1>5, <1>6 DEF ChatPeer

LEMMA ReasonsPresence ==
  ASSUME TypeOK, Places, Reasons, NEW p \in PresConns, Presence(p) \/ PresencePeer(p)
  PROVE  Reasons'
<1> USE DEF PGoto, Counted
<1> p \in Conns
  BY DEF Conns
<1>0. UNCHANGED <<mainVars, chatVars>>
  BY DEF Presence, PresencePeer
<1>1. CASE SetOnline(p)
  BY <1>0, <1>1 DEF SetOnline, HubSetOnline
<1>2. CASE RegisterPresence(p)
  BY <1>0, <1>2 DEF RegisterPresence, HubRegisterPresence
<1>3. CASE PresenceReadError(p)
  BY <1>0, <1>3 DEF PresenceReadError, ReadsFail
<1>4. CASE UnregisterPresence(p)
  BY <1>0, <1>4 DEF UnregisterPresence, HubUnregisterPresence
<1>5. CASE SetOffline(p)
  BY <1>0, <1>5 DEF SetOffline, HubSetOffline
<1>6. CASE PresenceClose(p)
  BY <1>0, <1>6 DEF PresenceClose, CloseSocket
<1>7. CASE PresenceUpgrade(p)
  BY <1>0, <1>7 DEF PresenceUpgrade, Hijack
<1>8. CASE PresenceRefuse(p)
  BY <1>0, <1>8 DEF PresenceRefuse
<1>9. CASE PresenceReadTooBig(p)
  <2>1. sock[p] = "open"
    BY <1>9 DEF PresenceReadTooBig, ReadsFail, SocketStates
  <2>2. frame'[p] # "none" /\ \A d \in Conns \ {p} : frame'[d] = frame[d]
    BY <1>9, <2>1 DEF PresenceReadTooBig, WriteCloseFrame, FrameAfter
  <2> QED
    BY <1>0, <1>9, <2>2, ConnsDisjoint DEF PresenceReadTooBig, WriteCloseFrame, Conns
<1> QED
  BY <1>1, <1>2, <1>3, <1>4, <1>5, <1>6, <1>7, <1>8, <1>9 DEF Presence, PresencePeer

LEMMA ReasonsStep ==
  ASSUME TypeOK, Places, Reasons, [Next]_vars
  PROVE  Reasons'
<1>1. CASE Sigterm \/ Drained \/ HubDone \/ CloseDB \/ Exit \/ Killed \/ Deadline
  BY <1>1 DEF Sigterm, Drained, HubDone, CloseDB, Exit, Killed, Deadline, MainStep
<1>2. ASSUME NEW c \in Conns, LosePeer(c)
      PROVE  Reasons'
  BY <1>2 DEF LosePeer, PeerLost, Conns
<1>3. ASSUME NEW ch \in Chats, Unfriend(ch)
      PROVE  Reasons'
  BY <1>3 DEF Unfriend, EndFriendship
<1>4. CASE UNCHANGED vars
  BY <1>4 DEF vars
<1> QED
  BY <1>1, <1>2, <1>3, <1>4, ReasonsHub, ReasonsHandler, ReasonsReader, ReasonsWriter,
     ReasonsChatPeer, ReasonsPresence DEF Next, Gone

LEMMA ReasonsInvariant == Spec => []Reasons
  BY TypeCorrect, PlacesInvariant, ReasonsInit, ReasonsStep, PTL DEF Spec

\* No socket of a live peer is ever closed without a close frame.
THEOREM FrameBeforeClose == Spec => []NoAbruptClose
  BY ReasonsInvariant, PTL DEF Reasons

HIDE DEF Ended, Reasons, NoAbruptClose
-----------------------------------------------------------------------------
(***************************************************************************)
(* The shutdown signal reaches every socket the hub tracks.                *)
(***************************************************************************)
LEMMA ClosingStep ==
  ASSUME TypeOK, Places, ClosingHangsUp, [Next]_vars
  PROVE  ClosingHangsUp'
<1> USE DEF ClosingHangsUp
<1>1. CASE Sigterm \/ Drained \/ HubDone \/ CloseDB \/ Exit \/ Killed \/ Deadline
  BY <1>1 DEF Sigterm, Drained, HubDone, CloseDB, Exit, Killed, Deadline, MainStep
<1>2. CASE HubStep
  <2>1. CASE HubShutdown /\ UNCHANGED <<mainVars, chatVars, ppc>>
    BY <2>1 DEF HubShutdown, CloseAll
  <2>2. ASSUME NEW c \in Conns, HubHangUp(c), UNCHANGED <<mainVars, chatVars, ppc>>
        PROVE  ClosingHangsUp'
    BY <2>2 DEF HubHangUp, CloseConn, Conns
  <2>3. CASE HubExit /\ UNCHANGED <<mainVars, chatVars, ppc>>
    BY <2>3 DEF HubExit
  <2> QED
    BY <1>2, <2>1, <2>2, <2>3 DEF HubStep
<1>3. ASSUME NEW c \in ChatConns, Handler(c)
      PROVE  ClosingHangsUp'
  <2>1. CASE LoadHistory(c) \/ MarkHistoryAsRead(c) \/ Refuse(c)
    BY <2>1 DEF LoadHistory, MarkHistoryAsRead, Refuse
  <2>2. CASE Upgrade(c)
    <3>1. c \notin clients \cup presenceClients
      BY <2>2, ConnsDisjoint DEF Upgrade, Goto
    <3>2. \A d \in clients \cup presenceClients : sock'[d] = sock[d]
      BY <2>2, <3>1 DEF Upgrade, Hijack, Conns
    <3> QED
      BY <2>2, <3>2 DEF Upgrade
  <2>3. CASE Register(c)
    BY <2>3 DEF Register, HubRegister, HubReady
  <2> QED
    BY <1>3, <2>1, <2>2, <2>3 DEF Handler
<1>4. ASSUME NEW c \in ChatConns, Reader(c)
      PROVE  ClosingHangsUp'
  <2>1. CASE StoreMessage(c) \/ StoreFails(c) \/ ReadError(c)
    BY <2>1 DEF StoreMessage, StoreFails, ReadError
  <2>2. CASE Broadcast(c)
    BY <2>2 DEF Broadcast, HubBroadcast
  <2>3. CASE Unregister(c)
    BY <2>3 DEF Unregister, HubUnregister
  <2>4. CASE Close(c)
    BY <2>4 DEF Close, CloseSocket, Conns
  <2> QED
    BY <1>4, <2>1, <2>2, <2>3, <2>4 DEF Reader
<1>5. ASSUME NEW c \in ChatConns, Writer(c)
      PROVE  ClosingHangsUp'
  BY <1>5 DEF Writer, WriteNext, WriteFails, WriteGoodbye, WriteCloseFrame
<1>6. ASSUME NEW c \in ChatConns, ChatPeer(c)
      PROVE  ClosingHangsUp'
  <2>1. CASE RateLimited(c)
    BY <2>1 DEF RateLimited, CloseConn, Conns
  <2> QED
    BY <1>6, <2>1 DEF ChatPeer, Admit, Refuse, ReadMessage, ReadTooBig, WriteCloseFrame,
                      MarkAsRead
<1>7. ASSUME NEW p \in PresConns, Presence(p) \/ PresencePeer(p)
      PROVE  ClosingHangsUp'
  <2>1. CASE SetOnline(p) \/ SetOffline(p) \/ PresenceReadError(p) \/ PresenceRefuse(p)
    BY <2>1 DEF SetOnline, HubSetOnline, SetOffline, HubSetOffline, PresenceReadError,
                PresenceRefuse
  <2>2. CASE RegisterPresence(p)
    BY <2>2 DEF RegisterPresence, HubRegisterPresence, HubReady
  <2>3. CASE UnregisterPresence(p)
    BY <2>3 DEF UnregisterPresence, HubUnregisterPresence
  <2>4. CASE PresenceClose(p)
    BY <2>4 DEF PresenceClose, CloseSocket, Conns
  <2>5. CASE PresenceUpgrade(p)
    BY <2>5, ConnsDisjoint, ZenonT(60) DEF PresenceUpgrade, Hijack, PGoto, Conns
  <2>6. CASE PresenceReadTooBig(p)
    BY <2>6 DEF PresenceReadTooBig, WriteCloseFrame
  <2> QED
    BY <1>7, <2>1, <2>2, <2>3, <2>4, <2>5, <2>6 DEF Presence, PresencePeer
<1>8. ASSUME NEW c \in Conns, LosePeer(c)
      PROVE  ClosingHangsUp'
  BY <1>8 DEF LosePeer, PeerLost
<1>9. ASSUME NEW ch \in Chats, Unfriend(ch)
      PROVE  ClosingHangsUp'
  BY <1>9 DEF Unfriend, EndFriendship
<1>10. CASE UNCHANGED vars
  BY <1>10 DEF vars
<1> QED
  BY <1>1, <1>2, <1>3, <1>4, <1>5, <1>6, <1>7, <1>8, <1>9, <1>10 DEF Next, Gone

\* A registration behind the signal is hung up, never waited for.
THEOREM ShutdownReachesAll == Spec => []ClosingHangsUp
<1>1. Init => ClosingHangsUp
  BY DEF Init, HubInit, ClosingHangsUp
<1> QED
  BY <1>1, TypeCorrect, PlacesInvariant, ClosingStep, PTL DEF Spec
-----------------------------------------------------------------------------
(***************************************************************************)
(* The online counters.                                                    *)
(***************************************************************************)
LEMMA CountedFinite ==
  ASSUME NEW u
  PROVE  IsFiniteSet(CountedConns(u)) /\ Cardinality(CountedConns(u)) \in Nat
<1>1. CountedConns(u) \subseteq PresConns
  BY DEF CountedConns
<1> QED
  BY <1>1, PresConnsFinite, FS_Subset, FS_CardinalityType

\* A step that changes neither the counters nor who is counted.
LEMMA SameCounts ==
  ASSUME OnlineExact, UNCHANGED online,
         \A p \in PresConns : ppc'[p] \in Counted <=> ppc[p] \in Counted
  PROVE  OnlineExact'
<1>1. \A u : CountedConns(u)' = CountedConns(u)
  BY DEF CountedConns
<1> QED
  BY <1>1 DEF OnlineExact

LEMMA OnlinePresence ==
  ASSUME TypeOK, OnlineExact, NEW p \in PresConns, Presence(p) \/ PresencePeer(p)
  PROVE  OnlineExact'
<1> USE DEF PGoto
<1> DEFINE u == UserOf[p]
           S == CountedConns(u)
<1>0. u \in Users
  BY HubConstants DEF Conns
<1>10. IsFiniteSet(S) /\ Cardinality(S) \in Nat
  BY CountedFinite
<1>11. p \notin S => Cardinality(S \cup {p}) = Cardinality(S) + 1
  BY <1>10, FS_AddElement
<1>12. p \in S => Cardinality(S \ {p}) = Cardinality(S) - 1
  BY <1>10, FS_RemoveElement
<1>13. p \in S => Cardinality(S) # 0
  BY <1>10, FS_EmptySet
<1>1. CASE SetOnline(p)
  <2>1. online' = [online EXCEPT ![u] = @ + 1]
    BY <1>1 DEF SetOnline, HubSetOnline
  <2>2. p \notin CountedConns(u) /\ CountedConns(u)' = CountedConns(u) \cup {p}
    BY <1>1 DEF SetOnline, CountedConns, Counted
  <2>3. \A v \in Users \ {u} : CountedConns(v)' = CountedConns(v)
    BY <1>1 DEF SetOnline, CountedConns, Counted
  <2>4. online'[u] = Cardinality(S')
    BY <1>0, <1>11, <2>1, <2>2 DEF OnlineExact
  <2> QED
    BY <1>0, <2>1, <2>3, <2>4 DEF OnlineExact
<1>2. CASE SetOffline(p)
  <2>1. online' = [online EXCEPT ![u] = IF @ - 1 < 0 THEN 0 ELSE @ - 1]
    BY <1>2 DEF SetOffline, HubSetOffline
  <2>2. p \in CountedConns(u) /\ CountedConns(u)' = CountedConns(u) \ {p}
    BY <1>2 DEF SetOffline, CountedConns, Counted
  <2>3. \A v \in Users \ {u} : CountedConns(v)' = CountedConns(v)
    BY <1>2 DEF SetOffline, CountedConns, Counted
  <2>4. online'[u] = Cardinality(S')
    BY <1>0, <1>10, <1>12, <1>13, <2>1, <2>2 DEF OnlineExact
  <2> QED
    BY <1>0, <2>1, <2>3, <2>4 DEF OnlineExact
<1>3. CASE RegisterPresence(p)
  BY <1>3, SameCounts DEF RegisterPresence, HubRegisterPresence, Counted
<1>4. CASE PresenceReadError(p)
  BY <1>4, SameCounts DEF PresenceReadError, Counted
<1>5. CASE UnregisterPresence(p)
  BY <1>5, SameCounts DEF UnregisterPresence, HubUnregisterPresence, Counted
<1>6. CASE PresenceClose(p)
  BY <1>6, SameCounts DEF PresenceClose, Counted
<1>7. CASE PresenceUpgrade(p)
  BY <1>7, SameCounts DEF PresenceUpgrade, Counted
<1>8. CASE PresenceRefuse(p)
  BY <1>8, SameCounts DEF PresenceRefuse, Counted
<1>9. CASE PresenceReadTooBig(p)
  BY <1>9, SameCounts DEF PresenceReadTooBig, Counted
<1> QED
  BY <1>1, <1>2, <1>3, <1>4, <1>5, <1>6, <1>7, <1>8, <1>9 DEF Presence, PresencePeer

\* Only presence sockets come and go in the counters.
LEMMA OthersKeepCounts ==
  ASSUME [Next]_vars, ~\E p \in PresConns : Presence(p) \/ PresencePeer(p)
  PROVE  UNCHANGED <<online, ppc>>
<1>1. CASE Sigterm \/ Drained \/ HubDone \/ CloseDB \/ Exit \/ Killed \/ Deadline
  BY <1>1 DEF Sigterm, Drained, HubDone, CloseDB, Exit, Killed, Deadline, MainStep
<1>2. CASE HubStep
  BY <1>2 DEF HubStep, HubShutdown, HubHangUp, HubExit
<1>3. ASSUME NEW c \in ChatConns, Handler(c)
      PROVE  UNCHANGED <<online, ppc>>
  BY <1>3 DEF Handler, LoadHistory, MarkHistoryAsRead, Refuse, Upgrade, Register, HubRegister
<1>4. ASSUME NEW c \in ChatConns, Reader(c)
      PROVE  UNCHANGED <<online, ppc>>
  BY <1>4 DEF Reader, StoreMessage, StoreFails, Broadcast, HubBroadcast, ReadError,
              Unregister, HubUnregister, Close
<1>5. ASSUME NEW c \in ChatConns, Writer(c)
      PROVE  UNCHANGED <<online, ppc>>
  BY <1>5 DEF Writer, WriteNext, WriteFails, WriteGoodbye
<1>6. ASSUME NEW c \in ChatConns, ChatPeer(c)
      PROVE  UNCHANGED <<online, ppc>>
  BY <1>6 DEF ChatPeer, Admit, Refuse, ReadMessage, RateLimited, ReadTooBig, MarkAsRead
<1>7. ASSUME NEW c \in Conns, LosePeer(c)
      PROVE  UNCHANGED <<online, ppc>>
  BY <1>7 DEF LosePeer
<1>8. ASSUME NEW ch \in Chats, Unfriend(ch)
      PROVE  UNCHANGED <<online, ppc>>
  BY <1>8 DEF Unfriend, EndFriendship
<1>9. CASE UNCHANGED vars
  BY <1>9 DEF vars
<1> QED
  BY <1>1, <1>2, <1>3, <1>4, <1>5, <1>6, <1>7, <1>8, <1>9 DEF Next, Gone

LEMMA NobodyOnline == Init => OnlineExact
<1> SUFFICES ASSUME Init PROVE OnlineExact
  OBVIOUS
<1>1. \A u : CountedConns(u) = {}
  BY DEF Init, PresenceInit, CountedConns, Counted
<1> QED
  BY <1>1, FS_EmptySet DEF Init, HubInit, OnlineExact

\* A user is counted online once for every live presence socket.
THEOREM OnlineCountsSockets == Spec => []OnlineExact
<1>1. TypeOK /\ OnlineExact /\ [Next]_vars => OnlineExact'
  BY OnlinePresence, OthersKeepCounts, SameCounts
<1> QED
  BY <1>1, NobodyOnline, TypeCorrect, PTL DEF Spec

LEMMA TrackedCounted ==
  ASSUME TypeOK, Places, OnlineExact
  PROVE  TrackedAreOnline
<1> SUFFICES ASSUME NEW p \in presenceClients
             PROVE  online[UserOf[p]] > 0
  BY DEF TrackedAreOnline, IsOnline
<1> DEFINE S == CountedConns(UserOf[p])
<1>1. p \in S /\ UserOf[p] \in Users
  BY HubConstants DEF CountedConns, Counted, Conns
<1>2. IsFiniteSet(S) /\ Cardinality(S) \in Nat
  BY CountedFinite
<1>3. Cardinality(S) # 0
  BY <1>1, <1>2, FS_EmptySet
<1> QED
  BY <1>1, <1>2, <1>3 DEF OnlineExact

\* A socket the hub would hang up belongs to a user it reports as online.
THEOREM TrackedUsersOnline == Spec => []TrackedAreOnline
  BY TrackedCounted, TypeCorrect, PlacesInvariant, OnlineCountsSockets, PTL
=============================================================================
