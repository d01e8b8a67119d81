-------------------------------- MODULE Server --------------------------------
(***************************************************************************)
(* The server process: main (Run) next to the hub, the chat sockets and    *)
(* the presence sockets.  main serves until SIGTERM, waits for the         *)
(* requests in flight, then for the hub, closes the database and returns,  *)
(* which ends every other goroutine wherever it stands.                    *)
(***************************************************************************)
EXTENDS ChatSockets, PresenceSockets

CONSTANT
  Inputs   \* bound: what may befall the server, of AllInputs

(***************************************************************************)
(* stop      SIGTERM                                                       *)
(* kill      a second signal, or a listener that fails                     *)
(* deadline  shutdownTimeout runs out during the drain                     *)
(* refuse    dials that are turned away with an error                      *)
(* flood     peers that send faster than the limiter allows                *)
(* oversize  chat peers that send a frame above maxMessageSize             *)
(* overping  presence peers that do                                        *)
(* lost      peers that are lost                                           *)
(* dberror   inserts that fail for no reason of ours                       *)
(* mark      POST /api/chats/{chat_id}/read                                *)
(* unfriend  DELETE /api/friends                                           *)
(***************************************************************************)
AllInputs == {"stop", "kill", "deadline", "refuse", "flood", "oversize",
              "overping", "lost", "dberror", "mark", "unfriend"}

ASSUME InputsKnown == Inputs \subseteq AllInputs

VARIABLES
  main,      \* where Run is
  expired    \* shutdownCtx has expired

mainVars == <<main, expired>>
vars == <<mainVars, sockVars, hubVars, chanVars, chatVars, ppc>>

MainStates == {"serving", "draining", "hubwait", "closedb", "dbclosed", "exited"}

TypeOK ==
  /\ main \in MainStates
  /\ expired \in BOOLEAN
  /\ SocketsTypeOK
  /\ HubTypeOK
  /\ StoreTypeOK
  /\ ChatTypeOK
  /\ PresenceTypeOK

Init ==
  /\ main = "serving"
  /\ expired = FALSE
  /\ SocketsInit
  /\ HubInit
  /\ StoreInit
  /\ ChatInit
  /\ PresenceInit

DBOpen == main \notin {"dbclosed", "exited"}

\* Requests net/http still counts: hijacked connections are not among them.
InFlight == {c \in ChatConns : pc[c] \in InHandler}

\* Another request may run: not once server.Shutdown has seen the last one end.
Requests == main \in {"serving", "draining"} \/ expired

\* A query of the handler may fail, or the upgrade; the first finds no member.
MayRefuse(c) == "refuse" \in Inputs \/ ~DBOpen \/ ~IsMember(c)

\* An insert fails if the chat or the database is gone.
MayFail(c) == "dberror" \in Inputs \/ ~DBOpen \/ ChatOf[c] \notin liveChats
-----------------------------------------------------------------------------
(***************************************************************************)
(* Run                                                                     *)
(***************************************************************************)
MainStep(from, to) ==
  /\ main = from
  /\ main' = to
  /\ UNCHANGED <<expired, sockVars, chanVars, chatVars, ppc>>

\* A signal; server.Shutdown closes the listener.
Sigterm ==
  /\ "stop" \in Inputs
  /\ MainStep("serving", "draining")
  /\ UNCHANGED hubVars

\* server.Shutdown returns.
Drained ==
  /\ MainStep("draining", "hubwait")
  /\ InFlight = {} \/ expired
  /\ UNCHANGED hubVars

\* hub.Shutdown returns: Hub.done is closed, or the context has expired.
HubDone ==
  /\ MainStep("hubwait", "closedb")
  /\ hub = "exited" \/ expired
  /\ UNCHANGED hubVars

\* dbConn.Close
CloseDB == MainStep("closedb", "dbclosed") /\ UNCHANGED hubVars

\* Run returns, and the process with it.
Exit == MainStep("dbclosed", "exited") /\ UNCHANGED hubVars

\* The listener fails (log.Fatalf), or a second signal comes during the drain.
Killed ==
  /\ "kill" \in Inputs
  /\ main # "exited"
  /\ main' = "exited"
  /\ UNCHANGED <<expired, sockVars, hubVars, chanVars, chatVars, ppc>>

\* shutdownTimeout runs out.
Deadline ==
  /\ "deadline" \in Inputs
  /\ main \in {"draining", "hubwait"}
  /\ ~expired
  /\ expired' = TRUE
  /\ UNCHANGED <<main, sockVars, hubVars, chanVars, chatVars, ppc>>
-----------------------------------------------------------------------------
(***************************************************************************)
(* The other goroutines, as long as the process lives.                     *)
(***************************************************************************)

\* What the hub does between two rendezvous.
HubStep ==
  /\ main # "exited"
  /\ \/ main \in {"hubwait", "closedb", "dbclosed"} /\ HubShutdown
     \/ \E c \in Conns : HubHangUp(c)
     \/ HubExit
  /\ UNCHANGED <<mainVars, chatVars, ppc>>

\* What is left of handlerChatWS once the user was admitted.
Handler(c) ==
  /\ main # "exited"
  /\ \/ DBOpen /\ LoadHistory(c)
     \/ DBOpen /\ MarkHistoryAsRead(c)
     \/ MayRefuse(c) /\ pc[c] \in InHandler /\ Refuse(c)
     \/ Upgrade(c)
     \/ Register(c)
  /\ UNCHANGED <<mainVars, ppc>>

Reader(c) ==
  /\ main # "exited"
  /\ \/ DBOpen /\ StoreMessage(c)
     \/ MayFail(c) /\ StoreFails(c)
     \/ Broadcast(c)
     \/ ReadError(c)
     \/ Unregister(c)
     \/ Close(c)
  /\ UNCHANGED <<mainVars, ppc>>

Writer(c) ==
  /\ main # "exited"
  /\ WriteNext(c) \/ WriteFails(c) \/ WriteGoodbye(c)
  /\ UNCHANGED <<mainVars, ppc>>

Presence(p) ==
  /\ main # "exited"
  /\ \/ SetOnline(p)
     \/ RegisterPresence(p)
     \/ PresenceReadError(p)
     \/ UnregisterPresence(p)
     \/ SetOffline(p)
     \/ PresenceClose(p)
  /\ UNCHANGED <<mainVars, chatVars>>

\* The peers dial, send, have messages marked as read, and get lost.
ChatPeer(c) ==
  /\ main # "exited"
  /\ \/ Requests /\ DBOpen /\ Admit(c)
     \/ Requests /\ MayRefuse(c) /\ pc[c] = "idle" /\ Refuse(c)
     \/ ReadMessage(c)
     \/ "flood" \in Inputs /\ RateLimited(c)
     \/ "oversize" \in Inputs /\ ReadTooBig(c)
     \/ "mark" \in Inputs /\ Requests /\ DBOpen /\ MarkAsRead(c)
  /\ UNCHANGED <<mainVars, ppc>>

PresencePeer(p) ==
  /\ main # "exited"
  /\ \/ Requests /\ PresenceUpgrade(p)
     \/ "refuse" \in Inputs /\ Requests /\ PresenceRefuse(p)
     \/ "overping" \in Inputs /\ PresenceReadTooBig(p)
  /\ UNCHANGED <<mainVars, chatVars>>

LosePeer(c) ==
  /\ "lost" \in Inputs
  /\ main # "exited"
  /\ PeerLost(c)
  /\ UNCHANGED <<mainVars, hubVars, chanVars, chatVars, ppc>>

Unfriend(ch) ==
  /\ "unfriend" \in Inputs
  /\ Requests
  /\ DBOpen
  /\ EndFriendship(ch)
  /\ UNCHANGED <<mainVars, ppc>>

\* The process is gone, and nothing moves any more.
Gone == main = "exited" /\ UNCHANGED vars

Next ==
  \/ Sigterm \/ Drained \/ HubDone \/ CloseDB \/ Exit \/ Killed \/ Deadline
  \/ HubStep
  \/ \E c \in ChatConns : Handler(c) \/ Reader(c) \/ Writer(c) \/ ChatPeer(c)
  \/ \E p \in PresConns : Presence(p) \/ PresencePeer(p)
  \/ \E c \in Conns : LosePeer(c)
  \/ \E ch \in Chats : Unfriend(ch)
  \/ Gone

\* The read deadline of a chat socket has passed, or its peer is known to be lost.
GiveUp(c) == main # "exited" /\ ReadError(c) /\ UNCHANGED <<mainVars, ppc>>

(***************************************************************************)
(* Go schedules every goroutine that can run, an unbuffered channel serves *)
(* its waiting senders in turn, and select picks among ready cases at      *)
(* random; pings and the read deadline make a lost peer show.  Only pongs  *)
(* extend the deadline, so a read loop that is not pinged any more fails   *)
(* in the end however many messages it still reads: GiveUp is strongly     *)
(* fair.  Peers, users, signals and deadlines owe nothing.                 *)
(***************************************************************************)
Fairness ==
  /\ WF_vars(Drained) /\ WF_vars(HubDone) /\ WF_vars(CloseDB) /\ WF_vars(Exit)
  /\ WF_vars(HubStep)
  /\ \A c \in ChatConns : WF_vars(Handler(c)) /\ WF_vars(Reader(c)) /\ WF_vars(Writer(c))
  /\ \A c \in ChatConns : SF_vars(GiveUp(c))
  /\ \A p \in PresConns : WF_vars(Presence(p))

Spec == Init /\ [][Next]_vars
FairSpec == Spec /\ Fairness
=============================================================================
