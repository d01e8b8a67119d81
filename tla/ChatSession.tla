----------------------------- MODULE ChatSession -----------------------------
(***************************************************************************)
(* A chat as the client holds it open: connectToChat dials it and starts   *)
(* the reader, which puts what it reads into a bounded channel.  It ends   *)
(* with the context of the chat, which is cancelled when the chat is left  *)
(* and by the reader itself when it ends.                                  *)
(*                                                                         *)
(* The messages of a chat are numbered as the server sends them.           *)
(***************************************************************************)
EXTENDS Naturals, Sequences

CONSTANTS
  Opens,     \* names for the chats that are open at a time
  ChanCap,   \* capacity of msgChan
  Sent       \* bound: Sent[o] messages come from the server in the chat o

ASSUME ChatConstants == ChanCap \in Nat \ {0} /\ Sent \in [Opens -> Nat]

VARIABLES
  conn,       \* conn[o]: "lost" when the other end is gone, "closed" by us
  reader,     \* reader[o]: what the reader is about to do
  received,   \* received[o]: how many messages the reader has read
  msgChan,    \* msgChan[o]: what is buffered in msgChan
  cancelled   \* the chats whose context was cancelled

sessionVars == <<conn, reader, received, msgChan, cancelled>>

\* wsMessage{Content: "Disconnected"}
Disconnected == 0

ChatSessionTypeOK ==
  /\ conn \in [Opens -> {"none", "up", "lost", "closed"}]
  /\ reader \in [Opens -> {"none", "reading", "sending", "parting", "leaving", "ended"}]
  /\ received \in [Opens -> Nat] /\ \A o \in Opens : received[o] <= Sent[o]
  /\ msgChan \in [Opens -> Seq(Nat)]
  /\ \A o \in Opens : /\ Len(msgChan[o]) <= ChanCap
                       /\ \A i \in DOMAIN msgChan[o] : msgChan[o][i] <= Sent[o]
  /\ cancelled \in SUBSET Opens

ChatSessionInit ==
  /\ conn = [o \in Opens |-> "none"]
  /\ reader = [o \in Opens |-> "none"]
  /\ received = [o \in Opens |-> 0]
  /\ msgChan = [o \in Opens |-> <<>>]
  /\ cancelled = {}

Reader(o, from, to) == reader[o] = from /\ reader' = [reader EXCEPT ![o] = to]

\* What the reader has in hand, in the call of send.
InHand(o) == IF reader[o] = "sending" THEN received[o] ELSE Disconnected
-----------------------------------------------------------------------------
(***************************************************************************)
(* Fault variants.                                                         *)
(***************************************************************************)

\* A full channel gives up its oldest message for the new one.
PushLatest(o) ==
  /\ \/ Reader(o, "sending", "reading")
     \/ Reader(o, "parting", "leaving")
  /\ msgChan' = [msgChan EXCEPT ![o] = IF Len(@) < ChanCap THEN Append(@, InHand(o))
                                       ELSE Append(Tail(@), InHand(o))]
  /\ UNCHANGED <<conn, received, cancelled>>

\* The channel has no capacity that a send would wait for.
PushAlways(o) ==
  /\ \/ Reader(o, "sending", "reading")
     \/ Reader(o, "parting", "leaving")
  /\ msgChan' = [msgChan EXCEPT ![o] = Append(@, InHand(o))]
  /\ UNCHANGED <<conn, received, cancelled>>

\* The send of the reader does not look at the context.
GiveUpNever(o) == FALSE /\ UNCHANGED sessionVars
-----------------------------------------------------------------------------
\* connectToChat, once the dial has succeeded
Connect(o) ==
  /\ conn[o] = "none"
  /\ conn' = [conn EXCEPT ![o] = "up"]
  /\ reader' = [reader EXCEPT ![o] = "reading"]
  /\ UNCHANGED <<received, msgChan, cancelled>>

\* ReadMessage returns a message, perhaps one that was buffered when the
\* connection ended ...
Receive(o) ==
  /\ received[o] < Sent[o]
  /\ Reader(o, "reading", "sending")
  /\ received' = [received EXCEPT ![o] = @ + 1]
  /\ UNCHANGED <<conn, msgChan, cancelled>>

\* ... or fails.
ReceiveFails(o) ==
  /\ conn[o] \in {"lost", "closed"}
  /\ Reader(o, "reading", "parting")
  /\ UNCHANGED <<conn, received, msgChan, cancelled>>

\* send: there is room in the channel ...
Push(o) ==
  /\ \/ Reader(o, "sending", "reading")
     \/ Reader(o, "parting", "leaving")
  /\ Len(msgChan[o]) < ChanCap
  /\ msgChan' = [msgChan EXCEPT ![o] = Append(@, InHand(o))]
  /\ UNCHANGED <<conn, received, cancelled>>

\* ... or the context is done; both at once are left to chance.
GiveUp(o) ==
  /\ o \in cancelled
  /\ \/ Reader(o, "sending", "leaving")
     \/ Reader(o, "parting", "leaving")
  /\ UNCHANGED <<conn, received, msgChan, cancelled>>

\* The deferred cancel.
ReaderEnds(o) ==
  /\ Reader(o, "leaving", "ended")
  /\ cancelled' = cancelled \cup {o}
  /\ UNCHANGED <<conn, received, msgChan>>

\* A message is taken out of the channel.
Take(o) ==
  /\ msgChan[o] # <<>>
  /\ msgChan' = [msgChan EXCEPT ![o] = Tail(@)]
  /\ UNCHANGED <<conn, reader, received, cancelled>>

\* chat.cancel() and chat.conn.Close()
CancelAndClose(o) ==
  /\ cancelled' = cancelled \cup {o}
  /\ conn' = [conn EXCEPT ![o] = "closed"]
  /\ UNCHANGED <<reader, received, msgChan>>

\* The server or the network ends the connection.
Lose(o) ==
  /\ conn[o] = "up"
  /\ conn' = [conn EXCEPT ![o] = "lost"]
  /\ UNCHANGED <<reader, received, msgChan, cancelled>>

\* The name of a chat that is over is used again.
Recycle(o) ==
  /\ reader[o] = "ended"
  /\ conn' = [conn EXCEPT ![o] = "none"]
  /\ reader' = [reader EXCEPT ![o] = "none"]
  /\ received' = [received EXCEPT ![o] = 0]
  /\ msgChan' = [msgChan EXCEPT ![o] = <<>>]
  /\ cancelled' = cancelled \ {o}

\* The reader, but for the messages: those are the server's to send.
ReaderStep(o) == ReceiveFails(o) \/ Push(o) \/ GiveUp(o) \/ ReaderEnds(o)
=============================================================================
