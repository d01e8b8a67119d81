----------------------------- MODULE SocialGraph -----------------------------
(***************************************************************************)
(* What the friend system promises, with every operation in one step: two  *)
(* users become friends when one has asked and the other asks back, only   *)
(* friends open a chat, and a chat goes when the friendship has gone.      *)
(***************************************************************************)
CONSTANT Users

VARIABLES
  asking,    \* pairs <<u, v>>: u has asked v, and waits
  friends,   \* the pairs {u, v} that are friends
  chatting   \* the pairs {u, v} that have a chat

graphVars == <<asking, friends, chatting>>

GraphInit == asking = {} /\ friends = {} /\ chatting = {}

Ask(u, v) ==
  /\ {u, v} \notin friends
  /\ asking' = asking \cup {<<u, v>>}
  /\ UNCHANGED <<friends, chatting>>

AskBack(u, v) ==
  /\ <<v, u>> \in asking
  /\ asking' = asking \ {<<u, v>>, <<v, u>>}
  /\ friends' = friends \cup {{u, v}}
  /\ UNCHANGED chatting

Part(u, v) ==
  /\ {u, v} \in friends
  /\ friends' = friends \ {{u, v}}
  /\ UNCHANGED <<asking, chatting>>

Open(u, v) ==
  /\ {u, v} \in friends
  /\ chatting' = chatting \cup {{u, v}}
  /\ UNCHANGED <<asking, friends>>

Shut(u, v) ==
  /\ {u, v} \notin friends
  /\ chatting' = chatting \ {{u, v}}
  /\ UNCHANGED <<asking, friends>>

GraphNext ==
  \E u, v \in Users :
    u # v /\ (Ask(u, v) \/ AskBack(u, v) \/ Part(u, v) \/ Open(u, v) \/ Shut(u, v))

GraphSpec == GraphInit /\ [][GraphNext]_graphVars
=============================================================================
