--------------------------------- MODULE Hub ---------------------------------
(***************************************************************************)
(* The hub: the one goroutine that owns the connection maps, the online    *)
(* counters and the closing of every send channel.  All its channels are   *)
(* unbuffered, so every case of its select is a rendezvous with the        *)
(* goroutine on the other side.  This module has the hub's half of each    *)
(* rendezvous: an action HubX is one case of run(), and the modules that   *)
(* extend it conjoin the other goroutine's half.                           *)
(*                                                                         *)
(* Hanging sockets up is not one step: closeConn may block for writeWait   *)
(* on each of them, while the hub serves nobody.  hangup is the set of     *)
(* sockets the hub has still to hang up before it is back at its select.   *)
(***************************************************************************)
EXTENDS Sockets, Sequences

CONSTANTS
  Users,     \* the accounts behind the connections
  Chats,     \* the chats
  UserOf,    \* UserOf[c]: the user a connection authenticated as
  ChatOf,    \* ChatOf[c]: the chat a chat socket was dialled for
  SendCap    \* capacity of Client.send

ASSUME HubConstants ==
  /\ UserOf \in [Conns -> Users]
  /\ ChatOf \in [ChatConns -> Chats]
  /\ SendCap \in Nat

VARIABLES
  hub,              \* "running"; "closing" once the shutdown signal was taken; "exited"
  hangup,           \* sockets run() is about to closeConn
  clients,          \* Hub.clients
  presenceClients,  \* Hub.presenceClients
  online,           \* Hub.online
  send,             \* send[c]: what is buffered in Client.send
  sendOpen          \* sendOpen[c]: Client.send has not been closed

hubVars  == <<hub, hangup, clients, presenceClients, online>>
chanVars == <<send, sendOpen>>

HubTypeOK ==
  /\ hub \in {"running", "closing", "exited"}
  /\ hangup \in SUBSET Conns
  /\ clients \in SUBSET ChatConns
  /\ presenceClients \in SUBSET PresConns
  /\ online \in [Users -> Nat]
  /\ send \in [ChatConns -> Seq(Nat)]
  /\ sendOpen \in [ChatConns -> BOOLEAN]

HubInit ==
  /\ hub = "running"
  /\ hangup = {}
  /\ clients = {}
  /\ presenceClients = {}
  /\ online = [u \in Users |-> 0]
  /\ send = [c \in ChatConns |-> <<>>]
  /\ sendOpen = [c \in ChatConns |-> TRUE]

\* The test at the head of the loop: nothing is left to wait for.
HubDrained ==
  /\ hub = "closing"
  /\ hangup = {}
  /\ clients = {}
  /\ presenceClients = {}

\* run() is parked in its select, so a rendezvous with it can happen.
HubReady ==
  /\ hub # "exited"
  /\ hangup = {}
  /\ ~HubDrained

\* A message from the connection c goes to every tracked client of the chat that
\* belongs to another user; the buffers of some have no room for it.
Recipients(c) == {d \in clients : ChatOf[d] = ChatOf[c] /\ UserOf[d] # UserOf[c]}
Overflowing(c) == {d \in Recipients(c) : Len(send[d]) >= SendCap}
Reached(c) == Recipients(c) \ Overflowing(c)
-----------------------------------------------------------------------------
(***************************************************************************)
(* Fault variants: the bodies a plausible slip would have given the        *)
(* definitions below.                                                      *)
(***************************************************************************)

\* A slow client is cut off but left in the map.
HubBroadcastKeepsSlow(c, m) ==
  /\ HubReady
  /\ send' = [d \in ChatConns |->
                IF d \in Reached(c) THEN Append(send[d], m) ELSE send[d]]
  /\ sendOpen' = [d \in ChatConns |-> sendOpen[d] /\ d \notin Overflowing(c)]
  /\ UNCHANGED <<hubVars, sockVars>>

\* A full buffer silently skips the message.
HubBroadcastSkipsSlow(c, m) ==
  /\ HubReady
  /\ send' = [d \in ChatConns |->
                IF d \in Reached(c) THEN Append(send[d], m) ELSE send[d]]
  /\ UNCHANGED <<hubVars, sendOpen, sockVars>>

\* A late registration is tracked although the sockets were already hung up.
HubRegisterWhileClosing(c) ==
  /\ HubReady
  /\ clients' = clients \cup {c}
  /\ UNCHANGED <<hub, hangup, presenceClients, online, chanVars, sockVars>>

\* The online flag is cleared, as if a user had one presence socket only.
HubSetOfflineClears(u) ==
  /\ HubReady
  /\ online' = [online EXCEPT ![u] = 0]
  /\ UNCHANGED <<hub, hangup, clients, presenceClients, chanVars, sockVars>>

\* closeAll forgets the presence sockets.
CloseAllChatsOnly(S) == S \cap ChatConns

\* A socket is closed without a word.
HubHangUpNoFrame(c) ==
  /\ c \in hangup
  /\ hangup' = hangup \ {c}
  /\ CloseSocket(c)
  /\ UNCHANGED <<hub, clients, presenceClients, online, chanVars>>
-----------------------------------------------------------------------------
\* case client := <-h.register
HubRegister(c) ==
  /\ HubReady
  /\ \/ hub = "running" /\ clients' = clients \cup {c} /\ UNCHANGED hangup
     \/ hub = "closing" /\ hangup' = {c} /\ UNCHANGED clients
  /\ UNCHANGED <<hub, presenceClients, online, chanVars, sockVars>>

\* case client := <-h.unregister
HubUnregister(c) ==
  /\ HubReady
  /\ clients' = clients \ {c}
  /\ sendOpen' = [sendOpen EXCEPT ![c] = @ /\ c \notin clients]
  /\ UNCHANGED <<hub, hangup, presenceClients, online, send, sockVars>>

\* case client := <-h.registerPresence
HubRegisterPresence(p) ==
  /\ HubReady
  /\ \/ hub = "running" /\ presenceClients' = presenceClients \cup {p} /\ UNCHANGED hangup
     \/ hub = "closing" /\ hangup' = {p} /\ UNCHANGED presenceClients
  /\ UNCHANGED <<hub, clients, online, chanVars, sockVars>>

\* case client := <-h.unregisterPresence
HubUnregisterPresence(p) ==
  /\ HubReady
  /\ presenceClients' = presenceClients \ {p}
  /\ UNCHANGED <<hub, hangup, clients, online, chanVars, sockVars>>

(***************************************************************************)
(* case msg := <-h.broadcast, for the message m the connection c stored: a *)
(* recipient whose buffer is full is cut off instead of served.            *)
(***************************************************************************)
HubBroadcast(c, m) ==
  /\ HubReady
  /\ send' = [d \in ChatConns |->
                IF d \in Reached(c) THEN Append(send[d], m) ELSE send[d]]
  /\ sendOpen' = [d \in ChatConns |-> sendOpen[d] /\ d \notin Overflowing(c)]
  /\ clients' = clients \ Overflowing(c)
  /\ UNCHANGED <<hub, hangup, presenceClients, online, sockVars>>

\* case userID := <-h.setOnline
HubSetOnline(u) ==
  /\ HubReady
  /\ online' = [online EXCEPT ![u] = @ + 1]
  /\ UNCHANGED <<hub, hangup, clients, presenceClients, chanVars, sockVars>>

\* case userID := <-h.setOffline, with its clamp at zero
HubSetOffline(u) ==
  /\ HubReady
  /\ online' = [online EXCEPT ![u] = IF @ - 1 < 0 THEN 0 ELSE @ - 1]
  /\ UNCHANGED <<hub, hangup, clients, presenceClients, chanVars, sockVars>>

\* IsOnline: the answer run() gives to an onlineRequest.
IsOnline(u) == online[u] > 0

\* The sockets closeAll walks over: all of the two maps.
CloseAll(S) == S

\* case <-shutdown: the signal is taken once, and every tracked socket is to be hung up.
HubShutdown ==
  /\ HubReady
  /\ hub = "running"
  /\ hub' = "closing"
  /\ hangup' = CloseAll(clients \cup presenceClients)
  /\ UNCHANGED <<clients, presenceClients, online, chanVars, sockVars>>

\* One closeConn of closeAll (chat sockets first), or of a late registration.
HubHangUp(c) ==
  /\ c \in hangup
  /\ c \in PresConns => hangup \cap ChatConns = {}
  /\ hangup' = hangup \ {c}
  /\ CloseConn(c, "restart")
  /\ UNCHANGED <<hub, clients, presenceClients, online, chanVars>>

\* The return of run(), which closes Hub.done.
HubExit ==
  /\ HubDrained
  /\ hub' = "exited"
  /\ UNCHANGED <<hangup, clients, presenceClients, online, chanVars, sockVars>>
=============================================================================
