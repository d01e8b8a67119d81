------------------------------ MODULE Friendship ------------------------------
(***************************************************************************)
(* The friend system: the handlers of POST and DELETE /api/friends and of  *)
(* POST /api/chats, on the tables friends, chats and chat_members.         *)
(*                                                                         *)
(* A handler runs several queries and no transaction, so every query is a  *)
(* step of its own and the requests interleave between them.  What a       *)
(* handler has read is acted upon later, when it may no longer hold.       *)
(***************************************************************************)
EXTENDS Integers, FiniteSets

CONSTANTS
  Users,       \* the accounts
  Requests,    \* bound: the requests that may be under way at one time
  Kinds,       \* bound: the operations they ask for, of AllKinds
  Alone,       \* bound: those asked for only while no other request is under way
  MaxChats,    \* bound: chats ever created
  QueriesFail  \* whether a query may fail for no reason of ours

AllKinds == {"befriend", "unfriend", "chat"}

ASSUME FriendshipConstants ==
  /\ Users # {}
  /\ Kinds \subseteq AllKinds
  /\ Alone \subseteq AllKinds
  /\ MaxChats \in Nat
  /\ QueriesFail \in BOOLEAN
  /\ IsFiniteSet(Requests)

VARIABLES
  row,      \* row[<<u, v>>]: request_status of the row (user_id u, friend_id v)
  members,  \* members[k]: the chat_members of the k-th chat created
  live,     \* the chats that have a row
  created,  \* how many chats were ever created
  req,      \* req[r]: the request r and its handler's local variables
  asked     \* auxiliary: pairs <<u, v>>, u has asked for v's friendship

tables == <<row, members, live, created>>
fvars == <<tables, req, asked>>

Pairs == {p \in Users \X Users : p[1] # p[2]}
Statuses == {"none", "pending", "accepted"}
ChatIds == 1..MaxChats
Steps == {"idle", "status", "insert", "accept", "mirror", "delete", "lookup",
          "drop", "find", "create", "join", "joinOther"}

NoRequest ==
  LET any == CHOOSE u \in Users : TRUE
  IN [at |-> "idle", kind |-> "befriend", by |-> any, to |-> any, chat |-> 0]

RequestStates == [at : Steps, kind : AllKinds, by : Users, to : Users, chat : 0..MaxChats]

\* row[p] = "none" stands for no row with that primary key.
FriendshipTypeOK ==
  /\ row \in [Pairs -> Statuses]
  /\ members \in [ChatIds -> SUBSET Users]
  /\ live \in SUBSET ChatIds
  /\ created \in 0..MaxChats
  /\ req \in [Requests -> RequestStates]
  /\ asked \in SUBSET Pairs

FriendshipInit ==
  /\ row = [p \in Pairs |-> "none"]
  /\ members = [k \in ChatIds |-> {}]
  /\ live = {}
  /\ created = 0
  /\ req = [r \in Requests |-> NoRequest]
  /\ asked = {}
-----------------------------------------------------------------------------
(***************************************************************************)
(* Queries.                                                                *)
(***************************************************************************)

\* GetFriendshipStatus finds a row of the two, in either direction, LIMIT 1:
\* with two rows it is up to PostgreSQL which.
StatusRows(u, v) == {p \in {<<u, v>>, <<v, u>>} : row[p] # "none"}

\* GetChatByTwoUsers finds a chat with both among its members, any one of them.
ChatsOfTwo(u, v) == {k \in live : {u, v} \subseteq members[k]}

\* GetAllFriendsForUser, the friends list of u.
FriendsOf(u) == {v \in Users \ {u} : row[<<u, v>>] = "accepted"}

\* The handler of r stands before the query step, moves on to another (with the
\* chat k), answers.
At(r, step) == req[r].at = step
Move(r, step) == req' = [req EXCEPT ![r].at = step]
MoveTo(r, step, k) == req' = [req EXCEPT ![r] = [@ EXCEPT !.at = step, !.chat = k]]
Reply(r) == req' = [req EXCEPT ![r] = NoRequest]
Self(r) == req[r].by
Target(r) == req[r].to
-----------------------------------------------------------------------------
(***************************************************************************)
(* Fault variants.                                                         *)
(***************************************************************************)

\* The mirrored row of an accepted request is forgotten.
MirrorForgotten(r) ==
  /\ At(r, "mirror")
  /\ Reply(r)
  /\ UNCHANGED <<tables, asked>>

\* Only the caller's own row is deleted.
DeleteOneWay(r) ==
  /\ At(r, "delete")
  /\ row' = [row EXCEPT ![<<Self(r), Target(r)>>] = "none"]
  /\ Move(r, "lookup")
  /\ UNCHANGED <<members, live, created, asked>>

\* The status is a free TEXT, and the mirrored row gets a misspelt one.
StatusMisspelt(r) ==
  /\ At(r, "mirror")
  /\ row' = [row EXCEPT ![<<Self(r), Target(r)>>] = "acepted"]
  /\ Reply(r)
  /\ UNCHANGED <<members, live, created, asked>>

\* The chat stays behind when the friendship goes.
ChatLeftBehind(r) ==
  /\ At(r, "lookup")
  /\ Reply(r)
  /\ UNCHANGED <<tables, asked>>

\* A chat is created without a look at the chats there are.
FindSkipped(r) ==
  /\ At(r, "find")
  /\ Move(r, "create")
  /\ UNCHANGED <<tables, asked>>

\* A pending request is good enough to open a chat.
ChatStatusAny(r, p) ==
  \/ row[p] # "none" /\ Move(r, "find")
  \/ row[p] = "none" /\ Reply(r)

\* The INSERT of CreateFriendship taken for that of CreateFriendRequest.
AskingIsEnough(r) ==
  /\ At(r, "insert")
  /\ row' = [row EXCEPT ![<<Self(r), Target(r)>>] = "accepted"]
  /\ Reply(r)
  /\ UNCHANGED <<members, live, created, asked>>
-----------------------------------------------------------------------------
(***************************************************************************)
(* The handlers.                                                           *)
(***************************************************************************)

\* A request for an operation of Alone has the server to itself.
Admitted(r, kind) ==
  \A s \in Requests \ {r} : At(s, "idle") \/ {kind, req[s].kind} \cap Alone = {}

\* A request arrives, its target exists and is not the caller.
Arrive(r, kind, p) ==
  /\ At(r, "idle")
  /\ Admitted(r, kind)
  /\ req' = [req EXCEPT ![r] = [at |-> "status", kind |-> kind, by |-> p[1],
                                to |-> p[2], chat |-> 0]]
  /\ asked' = IF kind = "befriend" THEN asked \cup {p} ELSE asked
  /\ UNCHANGED tables

\* What each handler does with the row p that GetFriendshipStatus returned.
BefriendStatus(r, p) ==
  LET toAccept == row[p] = "pending" /\ p[1] = Target(r)
  IN \/ toAccept /\ Move(r, "accept")
     \/ ~toAccept /\ Reply(r)

UnfriendStatus(r, p) ==
  \/ row[p] = "accepted" /\ Move(r, "delete")
  \/ row[p] # "accepted" /\ Reply(r)

ChatStatus(r, p) ==
  \/ row[p] = "accepted" /\ Move(r, "find")
  \/ row[p] # "accepted" /\ Reply(r)

GetFriendshipStatus(r) ==
  /\ At(r, "status")
  /\ LET rows == StatusRows(Self(r), Target(r))
     IN \/ rows = {} /\ req[r].kind = "befriend" /\ Move(r, "insert")
        \/ rows = {} /\ req[r].kind # "befriend" /\ Reply(r)
        \/ \E p \in rows :
             \/ req[r].kind = "befriend" /\ BefriendStatus(r, p)
             \/ req[r].kind = "unfriend" /\ UnfriendStatus(r, p)
             \/ req[r].kind = "chat" /\ ChatStatus(r, p)
  /\ UNCHANGED <<tables, asked>>

\* An INSERT fails on a row with the same primary key.
Insert(p, status) == row' = [row EXCEPT ![p] = IF @ = "none" THEN status ELSE @]

CreateFriendRequest(r) ==
  /\ At(r, "insert")
  /\ Insert(<<Self(r), Target(r)>>, "pending")
  /\ Reply(r)
  /\ UNCHANGED <<members, live, created, asked>>

\* An UPDATE of no row is no error.
AcceptFriendRequest(r) ==
  /\ At(r, "accept")
  /\ row' = [row EXCEPT ![<<Target(r), Self(r)>>] = IF @ = "none" THEN @ ELSE "accepted"]
  /\ Move(r, "mirror")
  /\ UNCHANGED <<members, live, created, asked>>

CreateFriendship(r) ==
  /\ At(r, "mirror")
  /\ Insert(<<Self(r), Target(r)>>, "accepted")
  /\ Reply(r)
  /\ UNCHANGED <<members, live, created, asked>>

DeleteFriendship(r) ==
  /\ At(r, "delete")
  /\ row' = [row EXCEPT ![<<Self(r), Target(r)>>] = "none",
                        ![<<Target(r), Self(r)>>] = "none"]
  /\ Move(r, "lookup")
  /\ UNCHANGED <<members, live, created, asked>>

\* GetChatByTwoUsers in handlerChat: an existing chat is the answer.
FindChat(r) ==
  /\ At(r, "find")
  /\ \/ ChatsOfTwo(Self(r), Target(r)) = {} /\ Move(r, "create")
     \/ ChatsOfTwo(Self(r), Target(r)) # {} /\ Reply(r)
  /\ UNCHANGED <<tables, asked>>

\* GetChatByTwoUsers in handlerDeleteFriend: without a chat there is nothing to drop.
LookUpChat(r) ==
  /\ At(r, "lookup")
  /\ \/ ChatsOfTwo(Self(r), Target(r)) = {} /\ Reply(r)
     \/ \E k \in ChatsOfTwo(Self(r), Target(r)) : MoveTo(r, "drop", k)
  /\ UNCHANGED <<tables, asked>>

\* DELETE FROM chats, which takes the members with it.
DeleteChat(r) ==
  /\ At(r, "drop")
  /\ live' = live \ {req[r].chat}
  /\ members' = [members EXCEPT ![req[r].chat] = {}]
  /\ Reply(r)
  /\ UNCHANGED <<row, created, asked>>

CreateChat(r) ==
  /\ At(r, "create")
  /\ created < MaxChats
  /\ created' = created + 1
  /\ live' = live \cup {created + 1}
  /\ MoveTo(r, "join", created + 1)
  /\ UNCHANGED <<row, members, asked>>

\* Two inserts, the caller first; the foreign key needs the chat to be there.
JoinChat(r, u) ==
  members' = [members EXCEPT ![req[r].chat] =
                IF req[r].chat \in live THEN @ \cup {u} ELSE @]

CreateChatMember(r) ==
  /\ \/ At(r, "join") /\ JoinChat(r, Self(r))
        /\ IF req[r].chat \in live THEN Move(r, "joinOther") ELSE Reply(r)
     \/ At(r, "joinOther") /\ JoinChat(r, Target(r)) /\ Reply(r)
  /\ UNCHANGED <<row, live, created, asked>>

\* A query fails, and the handler gives up: nothing is rolled back.
QueryFails(r) ==
  /\ QueriesFail
  /\ ~At(r, "idle")
  /\ Reply(r)
  /\ UNCHANGED <<tables, asked>>

Handle(r) ==
  \/ GetFriendshipStatus(r) \/ CreateFriendRequest(r) \/ AcceptFriendRequest(r)
  \/ CreateFriendship(r) \/ DeleteFriendship(r) \/ LookUpChat(r) \/ DeleteChat(r)
  \/ FindChat(r) \/ CreateChat(r) \/ CreateChatMember(r) \/ QueryFails(r)

FriendshipNext ==
  \E r \in Requests :
    \/ \E kind \in Kinds, p \in Pairs : Arrive(r, kind, p)
    \/ Handle(r)

FriendshipSpec == FriendshipInit /\ [][FriendshipNext]_fvars
-----------------------------------------------------------------------------
(***************************************************************************)
(* Properties.                                                             *)
(***************************************************************************)

\* Nobody is listed as a friend, however the requests interleave and whichever
\* queries fail, unless each of the two has asked for the other (the "pending"
\* case of handlerFriends).
ConsentBeforeFriends ==
  \A u, v \in Users :
    v \in FriendsOf(u) => {<<u, v>>, <<v, u>>} \subseteq asked

\* Two users share a chat only if each has asked for the other's friendship
\* (handlerChat).
ConsentBeforeChat ==
  \A k \in live : \A u, v \in members[k] :
    u # v => {<<u, v>>, <<v, u>>} \subseteq asked

\* No handler is at work: the tables are what the next request finds.
AtRest == \A r \in Requests : At(r, "idle")

\* Between two requests, what POST /api/friends calls friends is a friendship
\* on both lists (README.md, "friends --list  display a list of all your friends").
ListsAgree == AtRest => \A u, v \in Users : v \in FriendsOf(u) <=> u \in FriendsOf(v)

\* Two requests that open a chat at once may both make one, but no more chats come of
\* it than requests run at one time: a pair that has a chat gets it again
\* (handlerChat; chat_test.go, "get existing chat returns ok").
ChatsPerPair ==
  \A p \in Pairs : Cardinality(ChatsOfTwo(p[1], p[2])) <= Cardinality(Requests)

\* The tables show a social graph: friends are two users with a row accepted.
AcceptedPairs == {p \in Pairs : row[p] = "accepted"}

Graph == INSTANCE SocialGraph WITH
  asking   <- {p \in Pairs : /\ row[p] = "pending"
                             /\ <<p[2], p[1]>> \notin AcceptedPairs},
  friends  <- {{p[1], p[2]} : p \in AcceptedPairs},
  chatting <- {{p[1], p[2]} : p \in {q \in Pairs : ChatsOfTwo(q[1], q[2]) # {}}}

\* Every query of every handler changes the graph as one promised operation
\* does, or not at all.
ImplementsGraph == Graph!GraphSpec
=============================================================================
