------------------------------- MODULE MCOnline -------------------------------
(***************************************************************************)
(* Instances of OnlineStatus for TLC: the client of alice and the sockets  *)
(* it dials; a session is one login.                                       *)
(***************************************************************************)
EXTENDS OnlineStatus

MCUserOf == [c \in Conns |-> "alice"]
MCChatOf == [c \in ChatConns |-> "ab"]
MCMembers == [ch \in Chats |-> {"alice"}]
=============================================================================
