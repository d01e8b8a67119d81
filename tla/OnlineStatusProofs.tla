-------------------------- MODULE OnlineStatusProofs --------------------------
(***************************************************************************)
(* What is proved of the server alone and of a client alone carries over   *)
(* to the two together, with a server that is restarted and sockets that   *)
(* are dialled again: a step of OnlineSpec is one of the presence session, *)
(* or none, next to one of the server, a lost socket or a restart.  Then   *)
(* the two ends: what the client holds on to is what the server serves.    *)
(***************************************************************************)
EXTENDS OnlineStatus, ServerProofs, ClientPresenceProofs

(***************************************************************************)
(* The server.                                                             *)
(***************************************************************************)

\* It serves until it is restarted, and nobody has to be hung up.
Serving == main = "serving" /\ hub = "running" /\ hangup = {}

\* A socket that reads is tracked, and one that is not dialled yet is fresh.
Tracks ==
  \A p \in PresConns :
    /\ ppc[p] = "reading" => p \in presenceClients
    /\ ppc[p] = "idle" => peer[p] = "up"

ServerInv == TypeOK /\ Places /\ OnlineExact /\ Serving /\ Tracks

LEMMA ServerStarts == Init => ServerInv
<1>1. Init => Serving /\ Tracks
  BY DEF Init, HubInit, PresenceInit, SocketsInit, Serving, Tracks, Conns
<1> QED
  BY <1>1, TypeInit, PlacesInit, NobodyOnline DEF ServerInv

USE DEF mainVars, sockVars, hubVars, chanVars, storeVars, chatLocals, chatVars, Serving,
        Tracks

LEMMA ServingStep ==
  ASSUME ServerInv, NEW p \in PresConns, Presence(p) \/ PresencePeer(p)
  PROVE  ServerInv'
<1> USE DEF ServerInv
<1>1. TypeOK' /\ Places' /\ OnlineExact'
  BY TypePresence, PlacesPresence, OnlinePresence
<1>2. ppc \in [PresConns -> {"idle", "refused", "hijacked", "offline", "done"} \cup Counted]
  BY DEF TypeOK, PresenceTypeOK
<1>3. peer' = peer
  BY DEF Presence, PresencePeer, SetOnline, HubSetOnline, RegisterPresence, HubRegisterPresence,
         PresenceReadError, UnregisterPresence, HubUnregisterPresence, SetOffline, HubSetOffline,
         PresenceClose, CloseSocket, PresenceUpgrade, Hijack, PresenceRefuse,
         PresenceReadTooBig, WriteCloseFrame
<1>4. Serving'
  BY DEF Presence, PresencePeer, SetOnline, HubSetOnline, RegisterPresence, HubRegisterPresence,
         PresenceReadError, UnregisterPresence, HubUnregisterPresence, SetOffline, HubSetOffline,
         PresenceClose, PresenceUpgrade, PresenceRefuse, PresenceReadTooBig
<1> HIDE DEF TypeOK, Places
<1>5. Tracks'
  BY <1>2, <1>3 DEF PGoto, Presence, PresencePeer, SetOnline, HubSetOnline, RegisterPresence,
         HubRegisterPresence, PresenceReadError, UnregisterPresence, HubUnregisterPresence,
         SetOffline, HubSetOffline, PresenceClose, PresenceUpgrade, PresenceRefuse,
         PresenceReadTooBig, WriteCloseFrame
<1> QED
  BY <1>1, <1>4, <1>5

\* The name of a socket that is done is free: no map holds it, nobody counts it.
LEMMA RecycleKeeps ==
  ASSUME ServerInv, NEW p \in PresConns, Recycle(p)
  PROVE  ServerInv'
<1> USE DEF ServerInv, Recycle
<1> p \in Conns /\ p \notin ChatConns
  BY ConnsDisjoint DEF Conns
<1>1. TypeOK'
  BY DEF TypeOK, SocketsTypeOK, HubTypeOK, StoreTypeOK, ChatTypeOK, PresenceTypeOK,
         SocketStates, Frames, Conns
<1>2. OnlineExact'
  BY SameCounts DEF TypeOK, PresenceTypeOK, Counted
<1>3. Places'
  <2>1. \A c \in ChatConns : ChatPlace(c)'
    BY DEF Places, ChatPlace, TypeOK, SocketsTypeOK, Conns
  <2>2. \A q \in PresConns : PresencePlace(q)'
    BY DEF Places, PresencePlace, TypeOK, SocketsTypeOK, PresenceTypeOK, Conns
  <2>3. TrackedOpen'
    BY DEF Places, TrackedOpen
  <2> QED
    BY <2>1, <2>2, <2>3 DEF Places
<1>4. Serving' /\ Tracks'
  BY DEF TypeOK, SocketsTypeOK, PresenceTypeOK, Conns
<1> QED
  BY <1>1, <1>2, <1>3, <1>4

\* A new process counts nobody, and nobody is on a socket it could count.
LEMMA RestartKeeps ==
  ASSUME ServerInv, Restart
  PROVE  ServerInv'
<1> USE DEF ServerInv, Restart
<1>1. TypeOK'
  BY DEF TypeOK, SocketsTypeOK, HubTypeOK, StoreTypeOK, ChatTypeOK, PresenceTypeOK,
         SocketStates, Conns
<1>2. OnlineExact'
  <2>1. \A u \in Users : CountedConns(u)' = {}
    BY DEF CountedConns, Counted
  <2> QED
    BY <2>1, FS_EmptySet DEF OnlineExact
<1>3. Places'
  <2>1. \A c \in ChatConns : ChatPlace(c)'
    BY DEF Places, ChatPlace, TypeOK, SocketsTypeOK, Conns
  <2>2. \A q \in PresConns : PresencePlace(q)'
    BY DEF Places, PresencePlace, TypeOK, SocketsTypeOK, PresenceTypeOK, Conns
  <2>3. TrackedOpen'
    BY DEF Places, TrackedOpen
  <2> QED
    BY <2>1, <2>2, <2>3 DEF Places
<1>4. Serving' /\ Tracks'
  BY DEF TypeOK, PresenceTypeOK
<1> QED
  BY <1>1, <1>2, <1>3, <1>4

\* What the client does to its end is a dial, a refused one, or a peer that is gone.
LEMMA WireKeeps ==
  ASSUME ServerInv, OnTheWire, \A s \in Heard : ppc[link[s]] # "idle"
  PROVE  ServerInv'
<1>1. ASSUME NEW s \in Starts, Connect(s)
      PROVE  ServerInv'
  <2>1. PICK p \in PresConns : PresenceUpgrade(p) /\ UNCHANGED <<mainVars, chatVars>>
    BY <1>1 DEF Connect
  <2>2. PresencePeer(p)
    BY <2>1 DEF PresencePeer, Requests, ServerInv
  <2> QED
    BY <2>2, ServingStep
<1>2. ASSUME NEW s \in Heard, Disconnect(s)
      PROVE  ServerInv'
  <2> USE DEF ServerInv, Disconnect, PeerLost
  <2>1. TypeOK'
    BY <1>2 DEF TypeOK, SocketsTypeOK, HubTypeOK, StoreTypeOK, ChatTypeOK, PresenceTypeOK
  <2>2. OnlineExact'
    BY <1>2, SameCounts
  <2>3. Places'
    BY <1>2 DEF Places, ChatPlace, PresencePlace, TrackedOpen
  <2>4. Serving' /\ Tracks'
    BY <1>2 DEF TypeOK, SocketsTypeOK
  <2> QED
    BY <2>1, <2>2, <2>3, <2>4
<1>3. ASSUME NEW p \in PresConns, PresenceRefuse(p), UNCHANGED <<mainVars, chatVars>>
      PROVE  ServerInv'
  <2> USE DEF ServerInv, PresenceRefuse, PGoto
  <2>1. TypeOK'
    BY <1>3 DEF TypeOK, SocketsTypeOK, HubTypeOK, StoreTypeOK, ChatTypeOK, PresenceTypeOK
  <2>2. OnlineExact'
    BY <1>3, SameCounts DEF Counted, TypeOK, PresenceTypeOK
  <2>3. Places'
    BY <1>3 DEF Places, ChatPlace, PresencePlace, TrackedOpen, TypeOK, PresenceTypeOK
  <2>4. Serving' /\ Tracks'
    BY <1>3 DEF TypeOK, PresenceTypeOK
  <2> QED
    BY <2>1, <2>2, <2>3, <2>4
<1>4. ASSUME UNCHANGED vars
      PROVE  ServerInv'
  <2> USE DEF ServerInv, vars
  <2>1. TypeOK'
    BY <1>4 DEF TypeOK, SocketsTypeOK, HubTypeOK, StoreTypeOK, ChatTypeOK, PresenceTypeOK
  <2>2. OnlineExact' /\ Serving' /\ Tracks'
    BY <1>4, SameCounts
  <2>3. Places'
    BY <1>4 DEF Places, ChatPlace, PresencePlace, TrackedOpen
  <2> QED
    BY <2>1, <2>2, <2>3
<1>5. CASE Fail
  BY <1>3, <1>4, <1>5 DEF Fail, vars
<1> QED
  BY <1>1, <1>2, <1>4, <1>5 DEF OnTheWire

-----------------------------------------------------------------------------
(***************************************************************************)
(* The client.                                                             *)
(***************************************************************************)

\* What a step of the client, of the system or of the network is to the session.
ClientMoves == PresenceNext \/ \E s \in Starts : LoseConn(s)

LEMMA ClientSteps ==
  ASSUME OnlineNext
  PROVE  \/ ClientMoves /\ OnTheWire
         \/ \E p \in PresConns : ServerSteps(p) \/ Recycle(p)
         \/ Restart
  BY DEF OnlineNext, ClientMoves, ClientWorld, ClientCall, ClientLoop, ClientWatcher, Vanish,
         PresenceNext

LEMMA ClientKeeps ==
  ASSUME PInv, [OnlineNext]_onlineVars
  PROVE  PInv'
<1>1. CASE ClientMoves
  BY <1>1, StepKeeps, WorldKeeps DEF ClientMoves
<1>2. CASE UNCHANGED presenceVars
  BY <1>2, StepKeeps
<1>3. CASE Restart
  BY <1>3, PresenceConstants
     DEF Restart, PInv, SessionsTypeOK, Calling, LifeCycle, HasStopped
<1> QED
  BY <1>1, <1>2, <1>3, ClientSteps DEF onlineVars, ServerSteps, Recycle

\* A restart of the server does not touch what the calls and the loops have agreed on.
LEMMA OwnedStays ==
  ASSUME OInv, UNCHANGED <<at, took, held, cancelled, loop>>
  PROVE  InTurn' /\ Owned' /\ Live' = Live
  BY DEF OInv, InTurn, Owned, Underway, Doomed, Live

LEMMA ClientOwned ==
  ASSUME Patient, OInv, [OnlineNext]_onlineVars
  PROVE  OInv' /\ [Session!SessionNext]_Live
<1>1. PInv'
  BY ClientKeeps DEF OInv
<1>2. CASE PresenceNext
  BY <1>2, StepOwned, CallMaps, OthersMap
<1>3. CASE UNCHANGED <<at, took, held, cancelled, loop>>
  BY <1>1, <1>3, OwnedStays DEF OInv
<1>4. ASSUME NEW s \in Starts, LoseConn(s)
      PROVE  UNCHANGED <<at, took, held, cancelled, loop>>
  BY <1>4 DEF LoseConn
<1>5. UNCHANGED presenceVars \/ Restart => UNCHANGED <<at, took, held, cancelled, loop>>
  BY DEF presenceVars, Restart
<1> QED
  BY <1>2, <1>3, <1>4, <1>5, ClientSteps DEF onlineVars, ServerSteps, Recycle, ClientMoves

(***************************************************************************)
(* The two ends.                                                           *)
(***************************************************************************)

Linked ==
  /\ link \in [Starts -> PresConns \cup {NoSession}]
  /\ \A s \in Heard : link[s] \in PresConns
  /\ HeardAreServed

OnlineInv == ServerInv /\ PInv /\ Linked

\* A session dials, loses or closes one connection, says goodbye on one, fails to
\* dial, or leaves the wire alone.
LEMMA MovesOnTheWire ==
  ASSUME PInv, ClientMoves
  PROVE  \/ UNCHANGED <<conn, goodbye>>
         \/ /\ \E s \in Starts : conn' = [conn EXCEPT ![s] = "up"] /\ s \notin goodbye
            /\ UNCHANGED <<goodbye, failures>>
         \/ /\ \E s \in Starts, to \in {"lost", "closed"} : conn' = [conn EXCEPT ![s] = to]
            /\ UNCHANGED <<goodbye, failures>>
         \/ /\ \E s \in Starts : goodbye' = goodbye \cup {s}
            /\ UNCHANGED <<conn, failures>>
<1> USE PresenceConstants DEF PInv, SessionsTypeOK, LifeCycle, Calls, Step, Loop, AfterStop
<1>1. CASE World
  BY <1>1 DEF World, Call, Kill, LoseConn, Expire
<1>2. ASSUME NEW k \in Calls, CallStep(k)
      PROVE  \/ UNCHANGED <<conn, goodbye>>
             \/ /\ \E s \in Starts : conn' = [conn EXCEPT ![s] = "up"] /\ s \notin goodbye
                /\ UNCHANGED <<goodbye, failures>>
  BY <1>2 DEF CallStep, Take, Cancel, Stopped, Dial, Install, Launch
<1>3. ASSUME NEW s \in Starts, LoopStep(s)
      PROVE  \/ UNCHANGED <<conn, goodbye>>
             \/ /\ conn' = [conn EXCEPT ![s] = "up"] /\ s \notin goodbye
                /\ UNCHANGED <<goodbye, failures>>
  BY <1>3 DEF LoopStep, ReadFails, Pause, Reconnect, RedialFails
<1>4. ASSUME NEW s \in Starts, WatcherStep(s)
      PROVE  \/ UNCHANGED <<conn, goodbye>>
             \/ /\ conn' = [conn EXCEPT ![s] = "closed"]
                /\ UNCHANGED <<goodbye, failures>>
             \/ /\ goodbye' = goodbye \cup {s}
                /\ UNCHANGED <<conn, failures>>
  <2>1. CASE SayGoodbye(s)
    BY <1>4, <2>1 DEF SayGoodbye
  <2>2. CASE HoldDone(s)
    BY <1>4, <2>2 DEF HoldDone
  <2>3. CASE HangUpConn(s) /\ conn[s] = "up"
    BY <1>4, <2>3 DEF HangUpConn
  <2>4. CASE HangUpConn(s) /\ conn[s] # "up"
    BY <1>4, <2>4 DEF HangUpConn
  <2> QED
    BY <1>4, <2>1, <2>2, <2>3, <2>4 DEF WatcherStep
<1>5. ASSUME NEW s \in Starts, LoseConn(s)
      PROVE  conn' = [conn EXCEPT ![s] = "lost"] /\ UNCHANGED <<goodbye, failures>>
  BY <1>5 DEF LoseConn
<1> QED
  BY <1>1, <1>2, <1>3, <1>4, <1>5 DEF ClientMoves, PresenceNext

\* So the server hears from one session more, from one less, or from the same.
LEMMA HeardMoves ==
  ASSUME PInv, ClientMoves
  PROVE  /\ \A s \in Starts : conn[s] # "up" /\ conn'[s] = "up" => Heard' = Heard \cup {s}
         /\ \A s \in Heard : conn'[s] # "up" \/ s \in goodbye' => Heard' = Heard \ {s}
         /\ failures' > failures => Heard' = Heard
         /\ goodbye \subseteq goodbye'
<1> USE DEF Heard
<1>0. conn \in [Starts -> {"none", "up", "lost", "closed"}] /\ failures \in Nat
  BY PresenceConstants DEF PInv, SessionsTypeOK
<1>1. CASE UNCHANGED <<conn, goodbye>>
  BY <1>1
<1>2. CASE UNCHANGED failures
  <2>1. ASSUME NEW s \in Starts, conn' = [conn EXCEPT ![s] = "up"], s \notin goodbye,
               UNCHANGED goodbye
        PROVE  /\ \A t \in Starts : conn[t] # "up" /\ conn'[t] = "up" => Heard' = Heard \cup {t}
               /\ \A t \in Heard : conn'[t] = "up" /\ t \notin goodbye'
    BY <1>0, <2>1
  <2>2. ASSUME NEW s \in Starts, NEW to \in {"lost", "closed"},
               conn' = [conn EXCEPT ![s] = to], UNCHANGED goodbye
        PROVE  /\ \A t \in Starts : ~(conn[t] # "up" /\ conn'[t] = "up")
               /\ \A t \in Heard : conn'[t] # "up" \/ t \in goodbye' => Heard' = Heard \ {t}
    BY <1>0, <2>2
  <2>3. ASSUME NEW s \in Starts, goodbye' = goodbye \cup {s}, UNCHANGED conn
        PROVE  \A t \in Heard : conn'[t] # "up" \/ t \in goodbye' => Heard' = Heard \ {t}
    BY <1>0, <2>3
  <2> QED
    BY <1>0, <1>1, <1>2, <2>1, <2>2, <2>3, MovesOnTheWire
<1> QED
  BY <1>1, <1>2, MovesOnTheWire

\* Steps of the server on a socket somebody holds on to do not end it.
LEMMA ServerServes ==
  ASSUME OnlineInv, NEW p \in PresConns, ServerSteps(p) \/ Recycle(p)
  PROVE  Linked'
<1> USE DEF OnlineInv, ServerInv, Linked, HeardAreServed
<1>1. UNCHANGED <<link, conn, goodbye>>
  BY DEF ServerSteps, Recycle, presenceVars
<1>2. ASSUME NEW q \in PresConns, Serves(q)
      PROVE  Serves(q)'
  <2> q \in Conns /\ p \in Conns
    BY DEF Conns
  <2> USE <1>2 DEF Serves, PGoto, ReadsFail
  <2>1. /\ ppc \in [PresConns -> {"idle", "refused", "hijacked", "offline", "done"} \cup Counted]
        /\ sock \in [Conns -> SocketStates] /\ peer \in [Conns -> {"up", "gone"}]
    BY DEF TypeOK, PresenceTypeOK, SocketsTypeOK
  <2> HIDE DEF TypeOK, Places
  <2>2. CASE SetOnline(p) /\ UNCHANGED hub
    BY <2>1, <2>2 DEF SetOnline, HubSetOnline
  <2>3. CASE RegisterPresence(p)
    BY <2>1, <2>3 DEF RegisterPresence, HubRegisterPresence
  <2>4. CASE PresenceReadError(p)
    BY <2>1, <2>4 DEF PresenceReadError
  <2>5. CASE UnregisterPresence(p)
    BY <2>1, <2>5 DEF UnregisterPresence, HubUnregisterPresence
  <2>6. CASE SetOffline(p)
    BY <2>1, <2>6 DEF SetOffline, HubSetOffline
  <2>7. CASE PresenceClose(p)
    BY <2>1, <2>7 DEF PresenceClose, CloseSocket
  <2>8. CASE Recycle(p)
    BY <2>1, <2>8 DEF Recycle
  <2> QED
    BY <2>2, <2>3, <2>4, <2>5, <2>6, <2>7, <2>8
       DEF ServerSteps, Presence, SetOnline, HubSetOnline
<1>3. Heard' = Heard
  BY <1>1 DEF Heard
<1> QED
  BY <1>1, <1>2, <1>3

\* A dial takes a socket nobody has, the end of a connection frees one, and the
\* client's other steps leave the sockets as they are.
LEMMA WireServes ==
  ASSUME OnlineInv, ClientMoves, OnTheWire
  PROVE  Linked'
<1> USE DEF OnlineInv, ServerInv, Linked, HeardAreServed
<1>0. /\ ppc \in [PresConns -> {"idle", "refused", "hijacked", "offline", "done"} \cup Counted]
      /\ sock \in [Conns -> SocketStates] /\ peer \in [Conns -> {"up", "gone"}]
      /\ PresConns \subseteq Conns
  BY DEF TypeOK, PresenceTypeOK, SocketsTypeOK, Conns
<1> HIDE DEF TypeOK, Places
<1>1. ASSUME NEW s \in Starts, Heard' = Heard \cup {s}, s \notin Heard, Connect(s)
      PROVE  Linked'
  <2>1. PICK p \in PresConns : PresenceUpgrade(p) /\ link' = [link EXCEPT ![s] = p]
    BY <1>1 DEF Connect
  <2>2. Serves(p)' /\ ppc[p] = "idle"
    BY <1>0, <2>1 DEF PresenceUpgrade, PGoto, Hijack, Serves
  <2>3. ASSUME NEW q \in PresConns, Serves(q)
        PROVE  Serves(q)' /\ q # p
    BY <1>0, <2>1, <2>3 DEF PresenceUpgrade, PGoto, Hijack, Serves
  <2>4. \A t \in Heard : link'[t] = link[t] /\ Serves(link[t])' /\ link[t] # p
    BY <1>1, <2>1, <2>3
  <2>5. link'[s] = p /\ link' \in [Starts -> PresConns \cup {NoSession}]
    BY <2>1
  <2> QED
    BY <1>1, <2>2, <2>4, <2>5
<1>2. ASSUME NEW s \in Heard, Heard' = Heard \ {s}, Disconnect(s)
      PROVE  Linked'
  <2>1. \A t \in Heard' : link'[t] = link[t] /\ link[t] # link[s]
    BY <1>2 DEF Disconnect, Heard
  <2>2. ASSUME NEW q \in PresConns, Serves(q), q # link[s]
        PROVE  Serves(q)'
    BY <1>0, <1>2, <2>2 DEF Disconnect, PeerLost, Serves
  <2>3. link' \in [Starts -> PresConns \cup {NoSession}]
    BY <1>2 DEF Disconnect
  <2> QED
    BY <1>2, <2>1, <2>2, <2>3
<1>3. ASSUME Heard' = Heard, UNCHANGED link,
             \/ \E p \in PresConns : PresenceRefuse(p)
             \/ UNCHANGED <<ppc, sockVars, hubVars, chanVars>>
      PROVE  Linked'
  <2>1. ASSUME NEW q \in PresConns, Serves(q)
        PROVE  Serves(q)'
    BY <1>0, <1>3, <2>1 DEF PresenceRefuse, PGoto, Serves
  <2> QED
    BY <1>3, <2>1
<1>4. CASE failures' > failures /\ Fail
  BY <1>3, <1>4, HeardMoves DEF Fail
<1>5. ASSUME UNCHANGED <<vars, link>>,
             {s \in Starts : conn[s] # "up" /\ conn'[s] = "up"} = {},
             {s \in Heard : conn'[s] # "up" \/ s \in goodbye'} = {}
      PROVE  Linked'
  <2>1. Heard' = Heard
    BY <1>5, HeardMoves DEF Heard
  <2> QED
    BY <1>3, <1>5, <2>1 DEF vars
<1>6. ASSUME NEW s \in Starts, conn[s] # "up", conn'[s] = "up", Connect(s)
      PROVE  Linked'
  BY <1>1, <1>6, HeardMoves DEF Heard
<1>7. ASSUME NEW s \in Heard, conn'[s] # "up" \/ s \in goodbye', Disconnect(s)
      PROVE  Linked'
  BY <1>2, <1>7, HeardMoves
<1> QED
  BY <1>4, <1>5, <1>6, <1>7 DEF OnTheWire

LEMMA RestartServes ==
  ASSUME OnlineInv, Restart
  PROVE  Linked'
<1>1. Heard' = {}
  BY DEF Heard, Restart, OnlineInv, PInv, SessionsTypeOK
<1> QED
  BY <1>1 DEF Linked, HeardAreServed, Restart

LEMMA OnlineStarts == OnlineInit => OnlineInv /\ OInv
<1>1. OnlineInit => Linked
  BY DEF OnlineInit, SessionsInit, Linked, HeardAreServed, Heard
<1> QED
  BY <1>1, ServerStarts, InitSessions DEF OnlineInit, OnlineInv, OInv

LEMMA OnlineKeeps ==
  ASSUME OnlineInv, [OnlineNext]_onlineVars
  PROVE  OnlineInv'
<1>0. ServerInv /\ PInv /\ Linked
  BY DEF OnlineInv
<1>1. PInv'
  BY <1>0, ClientKeeps
<1>2. CASE ClientMoves /\ OnTheWire
  <2>1. \A s \in Heard : ppc[link[s]] # "idle"
    BY <1>0 DEF Linked, HeardAreServed, Serves
  <2> QED
    BY <1>0, <1>1, <1>2, <2>1, WireKeeps, WireServes DEF OnlineInv
<1>3. ASSUME NEW p \in PresConns, ServerSteps(p) \/ Recycle(p)
      PROVE  OnlineInv'
  <2>1. ServerInv'
    BY <1>0, <1>3, ServingStep, RecycleKeeps DEF ServerSteps
  <2> QED
    BY <1>1, <1>3, <2>1, ServerServes DEF OnlineInv
<1>4. CASE Restart
  BY <1>0, <1>1, <1>4, RestartKeeps, RestartServes DEF OnlineInv
<1>5. CASE UNCHANGED onlineVars
  <2>1. ServerInv'
    <3> USE DEF ServerInv, onlineVars, vars
    <3>1. TypeOK'
      BY <1>0, <1>5 DEF TypeOK, SocketsTypeOK, HubTypeOK, StoreTypeOK, ChatTypeOK,
                        PresenceTypeOK
    <3>2. OnlineExact' /\ Serving' /\ Tracks'
      BY <1>0, <1>5, SameCounts
    <3>3. Places'
      BY <1>0, <1>5 DEF Places, ChatPlace, PresencePlace, TrackedOpen
    <3> QED
      BY <3>1, <3>2, <3>3
  <2>2. Linked'
    BY <1>0, <1>5 DEF Linked, HeardAreServed, Serves, Heard, onlineVars, vars, presenceVars
  <2> QED
    BY <1>1, <2>1, <2>2 DEF OnlineInv
<1> QED
  BY <1>2, <1>3, <1>4, <1>5, ClientSteps

LEMMA OnlineInvariant == OnlineSpec => []OnlineInv
  BY OnlineStarts, OnlineKeeps, PTL DEF OnlineSpec

\* A user is counted online once for every presence socket that is alive, however
\* often the client comes back and the server is restarted.
THEOREM OnlineCountsAreExact == OnlineSpec => []OnlineExact
<1>1. OnlineInv => OnlineExact
  BY DEF OnlineInv, ServerInv
<1> QED
  BY <1>1, OnlineInvariant, PTL

\* A socket the hub would hang up belongs to a user it reports as online, in the
\* process that is there now.
THEOREM TrackedUsersAreOnline == OnlineSpec => []TrackedAreOnline
<1>1. OnlineInv => TrackedAreOnline
  BY TrackedCounted DEF OnlineInv, ServerInv
<1> QED
  BY <1>1, OnlineInvariant, PTL

\* The server serves every connection a client has neither left nor lost, on a socket
\* of its own: for any number of logins, sockets and restarts.
THEOREM ServerHoldsOn == OnlineSpec => []HeardAreServed
<1>1. OnlineInv => HeardAreServed
  BY DEF OnlineInv, Linked
<1> QED
  BY <1>1, OnlineInvariant, PTL

\* When a Stop has returned, the session it took has said goodbye on its connection,
\* unless that was lost first, be it with the server that is restarted.
THEOREM StopSaysGoodbyeOnline == OnlineSpec => []GoodbyeBeforeEnd
<1>1. OnlineInv => GoodbyeBeforeEnd
  BY DEF OnlineInv, PInv, Calling, HasStopped, LifeCycle, SessionsTypeOK, GoodbyeBeforeEnd
<1> QED
  BY <1>1, OnlineInvariant, PTL

\* Against a server that restarts, and with connections the system closes, Start and
\* Stop, run and hold are still one session after another, for a user who waits for a
\* login to be answered.
THEOREM SessionsInSuccessionOnline ==
  ASSUME Patient
  PROVE  OnlineSpec => ImplementsOneSession
<1>1. OnlineInit => OInv
  BY OnlineStarts
<1>2. OnlineInit => Session!SessionInit
  BY DEF OnlineInit, SessionsInit, Session!SessionInit, Live, Alive
<1>3. OInv /\ [OnlineNext]_onlineVars => OInv' /\ [Session!SessionNext]_Live
  BY ClientOwned
<1> QED
  BY <1>1, <1>2, <1>3, PTL DEF OnlineSpec, ImplementsOneSession, Session!SessionSpec
================================================================================
