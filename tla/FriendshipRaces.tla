--------------------------- MODULE FriendshipRaces ---------------------------
(***************************************************************************)
(* Friendship, with the memory of what went wrong.  The handlers run no    *)
(* transaction, so requests that overlap and queries that fail may leave   *)
(* the two rows of a pair apart, or a chat without a friendship.  Two      *)
(* history variables remember for which pairs that may have happened; no   *)
(* step reads them, so the requests behave as they do in Friendship.       *)
(***************************************************************************)
EXTENDS Friendship

VARIABLES
  torn,    \* pairs whose rows an accept was left half done for
  stray    \* pairs for whom a chat was left, or is being made, after the friendship

history == <<torn, stray>>
racesVars == <<fvars, history>>

RacesInit == FriendshipInit /\ torn = {} /\ stray = {}

Between(u, v) == {<<u, v>>, <<v, u>>}
PairOf(r) == Between(Self(r), Target(r))

\* Another handler is at work for the same two users, at one of the steps.
Overlaps(r, steps) == \E s \in Requests \ {r} : req[s].at \in steps /\ PairOf(s) = PairOf(r)

\* From the status it has read to its last insert.
Accepting == {"accept", "mirror"}
Creating == {"find", "create", "join", "joinOther"}

Marks(pairs, r, marked) == IF marked THEN pairs \cup PairOf(r) ELSE pairs \ PairOf(r)

\* The friendship ends: a clean slate for the two, unless it ends under a handler
\* that has read the rows before.
Part(r) ==
  /\ DeleteFriendship(r)
  /\ torn' = Marks(torn, r, Overlaps(r, Accepting))
  /\ stray' = Marks(stray, r, Overlaps(r, Creating))

\* With two chats between them, only one is found and dropped.
LookUp(r) ==
  /\ LookUpChat(r)
  /\ stray' = IF Cardinality(ChatsOfTwo(Self(r), Target(r))) > 1 THEN stray \cup PairOf(r)
              ELSE stray
  /\ UNCHANGED torn

\* The second insert of an accept fails, or one of the two queries for the chat.
Fail(r) ==
  /\ QueryFails(r)
  /\ torn' = IF At(r, "mirror") THEN torn \cup PairOf(r) ELSE torn
  /\ stray' = IF At(r, "lookup") \/ At(r, "drop") THEN stray \cup PairOf(r) ELSE stray

Other(r) ==
  /\ \/ \E kind \in Kinds, p \in Pairs : Arrive(r, kind, p)
     \/ GetFriendshipStatus(r) \/ CreateFriendRequest(r) \/ AcceptFriendRequest(r)
     \/ CreateFriendship(r) \/ DeleteChat(r)
     \/ FindChat(r) \/ CreateChat(r) \/ CreateChatMember(r)
  /\ UNCHANGED history

RacesNext == \E r \in Requests : Part(r) \/ LookUp(r) \/ Fail(r) \/ Other(r)

RacesSpec == RacesInit /\ [][RacesNext]_racesVars
-----------------------------------------------------------------------------
(***************************************************************************)
(* Properties.                                                             *)
(***************************************************************************)

\* A handler of by is about to insert the row that mirrors an accepted request of to.
Mirroring(by, to) == \E r \in Requests : At(r, "mirror") /\ Self(r) = by /\ Target(r) = to

\* Who has somebody on the friends list is on that one's list, however the requests
\* overlap, unless the accept is under way, or each has asked the other at the same
\* moment, or the accept was cut in two: by an unfriending between its status and
\* its inserts, or by a second insert that failed (handlerFriends; README.md,
\* "friends --list  display a list of all your friends").
ListsExplained ==
  \A u, v \in Users :
    v \in FriendsOf(u) =>
      \/ u \in FriendsOf(v)
      \/ Mirroring(v, u)
      \/ row[<<v, u>>] = "pending"
      \/ <<u, v>> \in torn

\* One of the two rows is enough for GetFriendshipStatus to call them friends.
Friends(u, v) == row[<<u, v>>] = "accepted" \/ row[<<v, u>>] = "accepted"

\* The chat k is what a request that ended the friendship of u and v has yet to drop.
ToDrop(k, u, v) ==
  \E r \in Requests : /\ At(r, "lookup") \/ (At(r, "drop") /\ req[r].chat = k)
                      /\ <<Self(r), Target(r)>> \in Between(u, v)

\* A chat joins friends, or is about to go with their friendship, unless that ended
\* under a handler that had found them friends, or left a second chat, or a query of
\* the unfriending failed (handlerChat, handlerDeleteFriend; README.md, "To start
\* chatting, you need to add friends first").
ChatsExplained ==
  \A k \in live : \A u, v \in members[k] :
    u # v => Friends(u, v) \/ ToDrop(k, u, v) \/ <<u, v>> \in stray
=============================================================================
