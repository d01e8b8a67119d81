------------------------------- MODULE MCClient -------------------------------
(***************************************************************************)
(* An instance of ClientApp for TLC: of two chats one brings messages, and *)
(* the other only its end.                                                 *)
(***************************************************************************)
EXTENDS ClientApp

MCSent == [o \in Opens |-> IF o = "chat1" THEN 2 ELSE 0]
=============================================================================
