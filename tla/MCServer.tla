------------------------------- MODULE MCServer -------------------------------
(***************************************************************************)
(* Instances of the server for TLC: alice and bob, who share the chat ab,  *)
(* carol, who is not in it, and the sockets they dial.                     *)
(***************************************************************************)
EXTENDS ServerProperties

Dialled ==
  [a1 |-> "alice", a2 |-> "alice", b1 |-> "bob", c1 |-> "carol",
   pa1 |-> "alice", pa2 |-> "alice", pb1 |-> "bob"]

MCUserOf == [c \in Conns |-> Dialled[c]]
MCChatOf == [c \in ChatConns |-> "ab"]
MCMembers == [ch \in Chats |-> {"alice", "bob"}]
=============================================================================
