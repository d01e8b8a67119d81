--------------------------- MODULE ServerProperties ---------------------------
(***************************************************************************)
(* What the server promises its peers, its database and the operator who   *)
(* stops it.                                                               *)
(***************************************************************************)
EXTENDS Server

(***************************************************************************)
(* The send channels and the delivery of messages.                         *)
(***************************************************************************)

\* The hub closes a send channel when, and only when, it forgets the client:
\* otherwise the next broadcast or unregister would send on, or close, a closed
\* channel, and the panic would take the whole server down (hub.go, run).
TrackedOpen == \A c \in clients : sendOpen[c]

\* A peer is never shown a hole: what it has received is always a prefix of its
\* feed (the history it was dialled with and the broadcasts since), and while the
\* hub tracks it and its write loop works, everything else of the feed is in its
\* send buffer.  A client too slow for its buffer loses its connection rather than
\* a message (hub.go, the broadcast case).
GapFree ==
  \A c \in ChatConns :
    pc[c] \in Registered =>
      /\ IsPrefix(wire[c], feed[c])
      /\ (c \in clients /\ writer[c] = "running" /\ peer[c] = "up")
           => wire[c] \o send[c] = feed[c]

\* What one connection wrote reaches every peer in the order it was written,
\* also where the history a peer was dialled with overlaps the broadcasts that
\* came after it: the read loop broadcasts a message before it stores another.
PerSenderOrder ==
  \A c \in ChatConns : \A i, j \in 1..Len(wire[c]) :
    (i < j /\ messages[ChatOf[c]][wire[c][i]] = messages[ChatOf[c]][wire[c][j]])
      => wire[c][i] <= wire[c][j]

\* An unread message stops counting as unread only because the user it was sent to
\* has opened the chat: its author's other devices, which mark the chat as read
\* just as often, leave it unread (messages.sql.go, sender_id != $2).
ReadByAddressee ==
  \A ch \in liveChats : \A u \in Members[ch] : \A i \in DOMAIN messages[ch] :
    Sender(ch, i) # u /\ i \notin Unread(ch, u) =>
      \E c \in ChatConns :
        /\ ChatOf[c] = ch
        /\ UserOf[c] = u
        /\ pc[c] \notin {"idle", "admitted", "loaded"}

(***************************************************************************)
(* The online status.                                                      *)
(***************************************************************************)

\* The hub's counter is the number of presence sockets of the user that are
\* between SetOnline and SetOffline, whatever the order in which the sockets
\* of one user come and go; its clamp at zero is never needed.
OnlineExact == \A u \in Users : online[u] = Cardinality(CountedConns(u))

\* A user with a presence socket the hub would hang up is shown as online.
TrackedAreOnline == \A p \in presenceClients : IsOnline(UserOf[p])

(***************************************************************************)
(* The shutdown.                                                           *)
(***************************************************************************)

\* Once the shutdown signal is taken, every socket the hub waits for is closed
\* or about to be: a registration that slips in behind the signal must not be
\* tracked, or run() would wait for it for ever (hub.go, the register cases).
ClosingHangsUp ==
  hub = "closing" =>
    \A c \in clients \cup presenceClients : c \in hangup \/ sock[c] = "closed"

\* No peer that is still there has its socket closed without a close frame
\* first (hub.go, the comment of Shutdown), however it is hung up: by the
\* shutdown, for its message rate or for a full send buffer.
NoAbruptClose ==
  \A c \in Conns : sock[c] = "closed" /\ peer[c] = "up" => frame[c] # "none"

(***************************************************************************)
(* Liveness.                                                               *)
(***************************************************************************)

\* The drain ends by itself, without its deadline: no read loop, handler or
\* late registration keeps server.Shutdown or hub.Shutdown waiting.
ShutdownTerminates == main = "draining" ~> main = "exited"

\* A connection whose peer is lost, or that was sent its close frame, is
\* unregistered and released by both its loops (withLeakCheck in the tests),
\* unless the shutdown overtakes it.
ChatSocketsEnd ==
  \A c \in ChatConns :
    sock[c] # "none" /\ (peer[c] = "gone" \/ frame[c] # "none")
      ~> (pc[c] = "done" /\ writer[c] = "done") \/ hub = "exited" \/ main = "exited"

\* A user whose client crashed or lost the network stops being counted
\* (handler_presence_ws.go, the comment of presenceClient).
LostPresenceEnds ==
  \A p \in PresConns :
    peer[p] = "gone" ~> ppc[p] = "done" \/ hub = "exited" \/ main = "exited"

\* The connections a message from d is meant for.
Listeners(d) ==
  {c \in ChatConns : ChatOf[c] = ChatOf[d] /\ UserOf[c] # UserOf[d]}

\* A message that is stored reaches every peer the hub tracks at that moment,
\* or that peer learns from a close frame that it is cut off.
StoredReachesTracked ==
  \A d \in ChatConns : \A c \in Listeners(d) : \A i \in 1..MaxMessages :
    (pc[d] = "sending" /\ stored[d] = i /\ c \in clients)
    ~>
    (\/ \E k \in DOMAIN wire[c] : wire[c][k] = i
     \/ peer[c] = "gone"
     \/ frame[c] # "none"
     \/ main = "exited")
=============================================================================
