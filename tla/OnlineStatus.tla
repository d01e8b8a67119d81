----------------------------- MODULE OnlineStatus -----------------------------
(***************************************************************************)
(* The online status from end to end: the presence session of one client   *)
(* (ClientPresence) against the hub and the presence sockets of the server *)
(* (Server, which only serves here, and may be restarted at any time).     *)
(*                                                                         *)
(* A connection has two ends.  conn[s] is the client's end and link[s] the *)
(* server's socket it leads to.  What the client does to its end the       *)
(* server only learns by reading: a socket whose client has said goodbye,  *)
(* hung up or vanished is one whose peer is gone.                          *)
(***************************************************************************)
EXTENDS ServerProperties, ClientPresence

\* The presence sockets are all the client's, dialled again and again.
ASSUME OneClient == \A p, q \in PresConns : UserOf[p] = UserOf[q]

VARIABLE
  link   \* link[s]: the server's socket of the session s, or NoSession

onlineVars == <<vars, presenceVars, link>>

OnlineInit ==
  /\ Init
  /\ SessionsInit
  /\ link = [s \in Starts |-> NoSession]
-----------------------------------------------------------------------------
(***************************************************************************)
(* What a step of the client does to the server's end.                     *)
(***************************************************************************)

\* The sessions the server still hears from.
Heard == {s \in Starts : conn[s] = "up" /\ s \notin goodbye}

\* A dial that succeeds is a request to /api/presence/ws that was upgraded.
Connect(s) ==
  \E p \in PresConns :
    /\ PresenceUpgrade(p)
    /\ link' = [link EXCEPT ![s] = p]
    /\ UNCHANGED <<mainVars, chatVars>>

\* One that fails was refused by the server, or has not reached it.
Fail ==
  /\ (\E p \in PresConns : PresenceRefuse(p)) \/ UNCHANGED <<ppc, sockVars, hubVars, chanVars>>
  /\ UNCHANGED <<mainVars, chatVars, link>>

\* A connection that ends, for whatever reason, is a peer that is gone.
Disconnect(s) ==
  /\ PeerLost(link[s])
  /\ link' = [link EXCEPT ![s] = NoSession]
  /\ UNCHANGED <<mainVars, hubVars, chanVars, chatVars, ppc>>

OnTheWire ==
  LET connected == {s \in Starts : conn[s] # "up" /\ conn'[s] = "up"}
      ended == {s \in Heard : conn'[s] # "up" \/ s \in goodbye'}
  IN \/ \E s \in connected : Connect(s)
     \/ \E s \in ended : Disconnect(s)
     \/ failures' > failures /\ Fail
     \/ connected \cup ended = {} /\ failures' = failures /\ UNCHANGED <<vars, link>>

ClientWorld == World /\ OnTheWire
ClientCall(k) == CallStep(k) /\ OnTheWire
ClientLoop(s) == LoopStep(s) /\ OnTheWire
ClientWatcher(s) == WatcherStep(s) /\ OnTheWire

\* The process has ended, and the system closes its connections.
Vanish(s) == Exited /\ LoseConn(s) /\ OnTheWire
-----------------------------------------------------------------------------
(***************************************************************************)
(* The server.                                                             *)
(***************************************************************************)

ServerSteps(p) == Presence(p) /\ UNCHANGED <<presenceVars, link>>

(***************************************************************************)
(* The server process ends, by a signal or a crash, and another one takes  *)
(* its place: its hub knows nobody, and every connection is lost.          *)
(***************************************************************************)
Restart ==
  /\ \E p \in PresConns : sock[p] = "open"
  /\ sock' = [c \in Conns |-> IF sock[c] = "open" THEN "closed" ELSE sock[c]]
  /\ ppc' = [p \in PresConns |-> IF ppc[p] \in {"idle", "refused"} THEN ppc[p] ELSE "done"]
  /\ presenceClients' = {}
  /\ online' = [u \in Users |-> 0]
  /\ conn' = [s \in Starts |-> IF conn[s] = "up" THEN "lost" ELSE conn[s]]
  /\ link' = [s \in Starts |-> NoSession]
  /\ UNCHANGED <<mainVars, frame, peer, hub, hangup, clients, chanVars, chatVars>>
  /\ UNCHANGED <<at, took, held, cancelled, loop, watcher, goodbye, stale, failures>>

\* Every dial has a socket of its own: the name of one that is done is used again.
Recycle(p) ==
  /\ ppc[p] \in {"done", "refused"}
  /\ ppc' = [ppc EXCEPT ![p] = "idle"]
  /\ sock' = [sock EXCEPT ![p] = "none"]
  /\ frame' = [frame EXCEPT ![p] = "none"]
  /\ peer' = [peer EXCEPT ![p] = "up"]
  /\ UNCHANGED <<mainVars, hubVars, chanVars, chatVars, presenceVars, link>>

OnlineNext ==
  \/ ClientWorld
  \/ \E k \in Calls : ClientCall(k)
  \/ \E s \in Starts : ClientLoop(s) \/ ClientWatcher(s) \/ Vanish(s)
  \/ \E p \in PresConns : ServerSteps(p) \/ Recycle(p)
  \/ Restart

(***************************************************************************)
(* The fairness of the two programs; the system closes what a process that *)
(* is gone has left open.                                                  *)
(***************************************************************************)
OnlineSpec ==
  /\ OnlineInit /\ [][OnlineNext]_onlineVars
  /\ \A k \in Calls : WF_onlineVars(ClientCall(k))
  /\ \A s \in Starts :
       /\ WF_onlineVars(ClientLoop(s))
       /\ WF_onlineVars(ClientWatcher(s))
       /\ WF_onlineVars(Vanish(s))
  /\ \A p \in PresConns : WF_onlineVars(ServerSteps(p)) /\ WF_onlineVars(Recycle(p))
-----------------------------------------------------------------------------
\* A connection the client has neither left nor lost leads to a socket of its own,
\* which the server keeps open and, from the registration on, has in the hub's map
\* (the comment of presenceClient, "online for exactly as long as the socket is
\* alive"): it gives up only what the client has given up, restarts included.
Serves(p) ==
  /\ sock[p] = "open" /\ peer[p] = "up"
  /\ ppc[p] \in {"hijacked", "counted", "reading"}
  /\ ppc[p] = "reading" => p \in presenceClients

HeardAreServed ==
  /\ \A s \in Heard : Serves(link[s])
  /\ \A s, t \in Heard : link[s] = link[t] => s = t

\* The client of u holds a connection it has not said goodbye on.
Connected(u) == ~Exited /\ \E s \in Heard : UserOf[link[s]] = u

\* README.md, "online for exactly as long as their socket is alive": a user
\* who stays connected is shown as online in the end, and one who has quit or
\* crashed, or whose connection cannot come back, as offline; whatever the order
\* in which a lost socket is counted out and its successor in, and however often
\* the server is restarted in between.
StatusSettles ==
  \A u \in Users :
    /\ <>[]Connected(u) => <>[]IsOnline(u)
    /\ <>[]~Connected(u) => <>[]~IsOnline(u)
=============================================================================
