------------------------------- MODULE Sockets -------------------------------
(***************************************************************************)
(* The server's end of every WebSocket: the chat sockets and the presence  *)
(* sockets, each used for one connection.  gorilla's *websocket.Conn is    *)
(* reduced to what the rest of the server can tell apart: whether the      *)
(* socket is open, which close frame went out first, and whether the peer  *)
(* still answers.  closeConn and closeSocket are the two ways the server   *)
(* ends a connection.                                                      *)
(***************************************************************************)
EXTENDS Integers

CONSTANTS
  ChatConns,   \* chat sockets, one per dial of GET /api/chats/ws
  PresConns    \* presence sockets, one per dial of GET /api/presence/ws

ASSUME ConnsDisjoint == ChatConns \cap PresConns = {}

Conns == ChatConns \cup PresConns

VARIABLES
  sock,    \* sock[c]: "none" before the upgrade, "open", "closed"
  frame,   \* frame[c]: the close frame the server wrote first, or "none"
  peer     \* peer[c]: "up" while it takes what it is sent within writeWait and
           \* answers pings; "gone" if not (closed, crashed, stalled)

sockVars == <<sock, frame, peer>>

SocketStates == {"none", "open", "closed"}
Frames == {"none", "restart", "policy", "toobig", "empty"}

SocketsTypeOK ==
  /\ sock  \in [Conns -> SocketStates]
  /\ frame \in [Conns -> Frames]
  /\ peer  \in [Conns -> {"up", "gone"}]

SocketsInit ==
  /\ sock  = [c \in Conns |-> "none"]
  /\ frame = [c \in Conns |-> "none"]
  /\ peer  = [c \in Conns |-> "up"]

(***************************************************************************)
(* A socket takes one close frame at most: a later WriteControl returns    *)
(* ErrCloseSent, one on a closed socket net.ErrClosed, and both are        *)
(* ignored.                                                                *)
(***************************************************************************)
FrameAfter(c, code) ==
  IF frame[c] = "none" /\ sock[c] = "open" THEN code ELSE frame[c]

\* closeConn: the close frame, then the socket.
CloseConn(c, code) ==
  /\ frame' = [frame EXCEPT ![c] = FrameAfter(c, code)]
  /\ sock'  = [sock EXCEPT ![c] = "closed"]
  /\ UNCHANGED peer

\* closeSocket: idempotent, no frame.
CloseSocket(c) ==
  /\ sock' = [sock EXCEPT ![c] = "closed"]
  /\ UNCHANGED <<frame, peer>>

\* upgrader.Upgrade succeeded: the connection is hijacked from net/http.
Hijack(c) ==
  /\ sock' = [sock EXCEPT ![c] = "open"]
  /\ UNCHANGED <<frame, peer>>

\* A close frame on a socket that stays open: WriteMessage(CloseMessage), and
\* ReadMessage once a frame exceeds SetReadLimit.
WriteCloseFrame(c, code) ==
  /\ frame' = [frame EXCEPT ![c] = FrameAfter(c, code)]
  /\ UNCHANGED <<sock, peer>>

(***************************************************************************)
(* The peer quits, crashes, loses the network or stops answering pings;    *)
(* what the server notices of it is a read that fails and writes that do   *)
(* not arrive.                                                             *)
(***************************************************************************)
PeerLost(c) ==
  /\ sock[c] = "open"
  /\ peer[c] = "up"
  /\ peer' = [peer EXCEPT ![c] = "gone"]
  /\ UNCHANGED <<sock, frame>>

\* A read on the socket can only fail from now on.
ReadsFail(c) == sock[c] = "closed" \/ peer[c] = "gone"
=============================================================================
