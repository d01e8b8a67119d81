--------------------------- MODULE SocialGraphProofs ---------------------------
(***************************************************************************)
(* The friend system as a social graph, for any number of users, requests  *)
(* and chats.                                                              *)
(*                                                                         *)
(* As long as nobody ends a friendship while another request is under      *)
(* way, the handlers implement SocialGraph, however else they interleave   *)
(* and whichever queries fail.  When friendships do end under other        *)
(* requests the graph can be wrong, and the second half says for whom:     *)
(* one-sided friends, chats without a friendship and second chats are      *)
(* there only where FriendshipRaces explains them.                         *)
(***************************************************************************)
EXTENDS FriendshipProofs, FriendshipRaces, FiniteSetTheorems

(***************************************************************************)
(* What a handler has read still holds when it acts upon it.               *)
(***************************************************************************)

\* A request that ends a friendship has the server to itself.
PartsAlone == "unfriend" \in Alone

Parting == {"delete", "lookup", "drop"}
AmongFriends == {"delete", "find", "create", "join", "joinOther"}

CurrentFor(r) ==
  /\ req[r].at \in Parting => req[r].kind = "unfriend"
  /\ At(r, "accept") => row[<<Target(r), Self(r)>>] # "none"
  /\ At(r, "mirror") => row[<<Target(r), Self(r)>>] = "accepted"
  /\ req[r].at \in AmongFriends => Friends(Self(r), Target(r))
  /\ req[r].at \in {"lookup", "drop"} => ~Friends(Self(r), Target(r))
  /\ At(r, "drop") => /\ req[r].chat \in ChatIds
                      /\ {Self(r), Target(r)} \subseteq members[req[r].chat]

Current == \A r \in Requests : CurrentFor(r)

\* No chat has more than two members.
ChatsOfPairs ==
  \A k \in ChatIds : \A u, v, w \in members[k] : u = v \/ v = w \/ u = w

\* No request is under way beside one that parts friends.
PartingAlone ==
  \A r, s \in Requests :
    r # s => At(r, "idle") \/ At(s, "idle") \/ req[r].kind # "unfriend"

GInv == IInv /\ Current /\ ChatsOfPairs /\ PartingAlone

USE FriendshipConstants
    DEF IInv, FriendshipTypeOK, Statuses, ChatIds, tables, fvars, At, Self, Target

\* No row loses what a handler may have seen in it.
RowsKept ==
  \A p \in Pairs : /\ row[p] = "accepted" => row'[p] = "accepted"
                   /\ row[p] # "none" => row'[p] # "none"

\* Only who parts friends may take that from a row.
RowsKeptBy(r) == req[r].kind = "unfriend" \/ RowsKept

LEMMA OthersCurrent ==
  ASSUME GInv, NEW s \in Requests, req'[s] = req[s],
         ~At(s, "idle") => req[s].kind # "unfriend" /\ RowsKept
  PROVE  CurrentFor(s)'
<1>1. CASE At(s, "idle")
  BY <1>1 DEF CurrentFor, Parting, AmongFriends
<1>2. CurrentFor(s)
  BY DEF GInv, Current
<1>3. ~At(s, "idle") => <<Self(s), Target(s)>> \in Pairs /\ <<Target(s), Self(s)>> \in Pairs
  BY Knows DEF GInv
<1>4. CASE ~At(s, "idle")
  <2>1. req[s].at \notin {"delete", "lookup", "drop"} /\ RowsKept
    BY <1>2, <1>4 DEF CurrentFor, Parting
  <2> QED
    BY <1>2, <1>3, <1>4, <2>1 DEF CurrentFor, Friends, Parting, AmongFriends, RowsKept
<1> QED
  BY <1>1, <1>4

\* A step of the request r leaves the others' knowledge as it is.
LEMMA BesideCurrent ==
  ASSUME GInv, NEW r \in Requests, ~At(r, "idle"), RowsKeptBy(r),
         NEW s \in Requests, s # r, req'[s] = req[s]
  PROVE  CurrentFor(s)'
<1>1. ~At(s, "idle") => req[s].kind # "unfriend" /\ req[r].kind # "unfriend"
  BY DEF GInv, PartingAlone
<1> QED
  BY <1>1, OthersCurrent DEF RowsKeptBy

LEMMA EndCurrent ==
  ASSUME GInv, NEW r \in Requests, ~At(r, "idle"), RowsKeptBy(r), Ended(r)
  PROVE  Current'
<1>1. CurrentFor(r)'
  BY DEF Ended, CurrentFor, Parting, AmongFriends
<1> QED
  BY <1>1, BesideCurrent DEF Ended, Current

LEMMA MoveCurrent ==
  ASSUME GInv, NEW r \in Requests, ~At(r, "idle"), RowsKeptBy(r), NEW step, Moved(r, step),
         step \in Parting => req[r].kind = "unfriend",
         step = "accept" => row'[<<Target(r), Self(r)>>] # "none",
         step = "mirror" => row'[<<Target(r), Self(r)>>] = "accepted",
         step \in AmongFriends => \/ row'[<<Self(r), Target(r)>>] = "accepted"
                                  \/ row'[<<Target(r), Self(r)>>] = "accepted",
         step \in {"lookup", "drop"} => /\ row'[<<Self(r), Target(r)>>] # "accepted"
                                        /\ row'[<<Target(r), Self(r)>>] # "accepted",
         step = "drop" => /\ req'[r].chat \in ChatIds
                          /\ {Self(r), Target(r)} \subseteq members'[req'[r].chat]
  PROVE  Current'
<1>1. CurrentFor(r)'
  BY DEF Moved, CurrentFor, Friends
<1> QED
  BY <1>1, BesideCurrent DEF Moved, Current

LEMMA ArriveCurrent ==
  ASSUME PartsAlone, GInv, NEW r \in Requests, NEW kind \in Kinds, NEW p \in Pairs,
         Arrive(r, kind, p)
  PROVE  Current'
<1> DEFINE q == [at |-> "status", kind |-> kind, by |-> p[1], to |-> p[2], chat |-> 0]
<1>1. req' = [req EXCEPT ![r] = q] /\ row' = row
  BY DEF Arrive
<1>2. q.at = "status" /\ q.kind = kind
  OBVIOUS
<1> HIDE DEF q
<1>3. req'[r] = q /\ \A s \in Requests : s # r => req'[s] = req[s]
  BY <1>1 DEF GInv
<1>4. CurrentFor(r)'
  BY <1>2, <1>3 DEF CurrentFor, Parting, AmongFriends
<1>5. \A s \in Requests : s # r /\ ~At(s, "idle") => req[s].kind # "unfriend"
  BY DEF Arrive, Admitted, PartsAlone
<1>6. RowsKept
  BY <1>1 DEF RowsKept
<1> QED
  BY <1>3, <1>4, <1>5, <1>6, OthersCurrent DEF Current

LEMMA StatusCurrent ==
  ASSUME GInv, NEW r \in Requests, GetFriendshipStatus(r)
  PROVE  Current'
<1> DEFINE rows == StatusRows(Self(r), Target(r))
<1> USE DEF GInv
<1>1. At(r, "status") /\ row' = row
  BY DEF GetFriendshipStatus
<1>2. RowsKeptBy(r) /\ ~At(r, "idle")
  BY <1>1 DEF RowsKeptBy, RowsKept
<1>3. CASE Reply(r)
  BY <1>2, <1>3, ReplyEnds, EndCurrent
<1>4. CASE Move(r, "insert")
  BY <1>2, <1>4, MoveMoves, MoveCurrent DEF Steps, Parting, AmongFriends
<1>6. ASSUME NEW p \in rows, row[p] = "pending", p[1] = Target(r), Move(r, "accept")
      PROVE  Current'
  <2>1. p = <<Self(r), Target(r)>> \/ p = <<Target(r), Self(r)>>
    BY <1>6 DEF StatusRows
  <2>2. Self(r) # Target(r) /\ <<Self(r), Target(r)>>[1] = Self(r)
    BY <1>1, Knows
  <2>3. row'[<<Target(r), Self(r)>>] # "none"
    BY <1>1, <1>6, <2>1, <2>2
  <2> QED
    BY <1>2, <1>6, <2>3, MoveMoves, MoveCurrent DEF Steps, Parting, AmongFriends
<1>5. ASSUME NEW p \in rows, row[p] = "accepted",
             \/ req[r].kind = "unfriend" /\ Move(r, "delete")
             \/ Move(r, "find")
      PROVE  Current'
  <2>1. Friends(Self(r), Target(r))
    BY <1>5 DEF StatusRows, Friends
  <2> QED
    BY <1>1, <1>2, <1>5, <2>1, MoveMoves, MoveCurrent DEF Steps, Parting, AmongFriends, Friends
<1> QED
  BY <1>3, <1>4, <1>5, <1>6 DEF GetFriendshipStatus, BefriendStatus, UnfriendStatus, ChatStatus

\* What the queries on the table friends do to the two rows of the pair.
LEMMA RowEffects ==
  ASSUME IInv, NEW r \in Requests, ~At(r, "idle")
  PROVE  LET st == <<Self(r), Target(r)>>
             ts == <<Target(r), Self(r)>>
         IN /\ st \in Pairs /\ ts \in Pairs /\ st # ts
            /\ CreateFriendRequest(r) =>
                 /\ row'[st] = IF row[st] = "none" THEN "pending" ELSE row[st]
                 /\ \A p \in Pairs : p # st => row'[p] = row[p]
            /\ AcceptFriendRequest(r) =>
                 /\ row'[ts] = IF row[ts] = "none" THEN "none" ELSE "accepted"
                 /\ \A p \in Pairs : p # ts => row'[p] = row[p]
            /\ CreateFriendship(r) =>
                 /\ row'[st] = IF row[st] = "none" THEN "accepted" ELSE row[st]
                 /\ \A p \in Pairs : p # st => row'[p] = row[p]
            /\ DeleteFriendship(r) =>
                 /\ row'[st] = "none" /\ row'[ts] = "none"
                 /\ \A p \in Pairs : p # st /\ p # ts => row'[p] = row[p]
<1> DEFINE st == <<Self(r), Target(r)>>
           ts == <<Target(r), Self(r)>>
<1>1. st \in Pairs /\ ts \in Pairs /\ st # ts
  BY Knows
<1> HIDE DEF st, ts
<1>2. CreateFriendRequest(r) => row' = [row EXCEPT ![st] = IF @ = "none" THEN "pending" ELSE @]
  BY DEF CreateFriendRequest, Insert, st
<1>3. AcceptFriendRequest(r) => row' = [row EXCEPT ![ts] = IF @ = "none" THEN @ ELSE "accepted"]
  BY DEF AcceptFriendRequest, ts
<1>4. CreateFriendship(r) => row' = [row EXCEPT ![st] = IF @ = "none" THEN "accepted" ELSE @]
  BY DEF CreateFriendship, Insert, st
<1>5. DeleteFriendship(r) => row' = [row EXCEPT ![st] = "none", ![ts] = "none"]
  BY DEF DeleteFriendship, st, ts
<1>6. /\ CreateFriendRequest(r) =>
           /\ row'[st] = IF row[st] = "none" THEN "pending" ELSE row[st]
           /\ \A p \in Pairs : p # st => row'[p] = row[p]
      /\ AcceptFriendRequest(r) =>
           /\ row'[ts] = IF row[ts] = "none" THEN "none" ELSE "accepted"
           /\ \A p \in Pairs : p # ts => row'[p] = row[p]
      /\ CreateFriendship(r) =>
           /\ row'[st] = IF row[st] = "none" THEN "accepted" ELSE row[st]
           /\ \A p \in Pairs : p # st => row'[p] = row[p]
      /\ DeleteFriendship(r) =>
           /\ row'[st] = "none" /\ row'[ts] = "none"
           /\ \A p \in Pairs : p # st /\ p # ts => row'[p] = row[p]
  BY <1>1, <1>2, <1>3, <1>4, <1>5
<1> QED
  BY <1>1, <1>6 DEF st, ts

LEMMA RowCurrent ==
  ASSUME GInv, NEW r \in Requests,
         \/ CreateFriendRequest(r) \/ AcceptFriendRequest(r)
         \/ CreateFriendship(r) \/ DeleteFriendship(r)
  PROVE  Current'
<1> DEFINE st == <<Self(r), Target(r)>>
           ts == <<Target(r), Self(r)>>
<1> USE DEF GInv
<1>1. ~At(r, "idle")
  BY DEF CreateFriendRequest, AcceptFriendRequest, CreateFriendship, DeleteFriendship
<1>2. st \in Pairs /\ ts \in Pairs /\ st # ts /\ CurrentFor(r)
  BY <1>1, RowEffects DEF Current
<1>3. CASE CreateFriendRequest(r)
  <2>1. RowsKeptBy(r)
    BY <1>1, <1>3, RowEffects DEF RowsKeptBy, RowsKept
  <2> QED
    BY <1>1, <1>3, <2>1, ReplyEnds, EndCurrent DEF CreateFriendRequest
<1>4. CASE AcceptFriendRequest(r)
  <2>1. row'[ts] = "accepted" /\ \A p \in Pairs : p # ts => row'[p] = row[p]
    BY <1>1, <1>2, <1>4, RowEffects DEF AcceptFriendRequest, CurrentFor
  <2>2. RowsKeptBy(r)
    BY <1>2, <2>1 DEF RowsKeptBy, RowsKept
  <2>3. Moved(r, "mirror")
    BY <1>4, MoveMoves DEF AcceptFriendRequest, Steps
  <2> QED
    BY <1>1, <2>1, <2>2, <2>3, MoveCurrent DEF Parting, AmongFriends
<1>5. CASE CreateFriendship(r)
  <2>1. RowsKeptBy(r)
    BY <1>1, <1>5, RowEffects DEF RowsKeptBy, RowsKept
  <2> QED
    BY <1>1, <1>5, <2>1, ReplyEnds, EndCurrent DEF CreateFriendship
<1>6. CASE DeleteFriendship(r)
  <2>1. req[r].kind = "unfriend"
    BY <1>2, <1>6 DEF DeleteFriendship, CurrentFor, Parting
  <2>2. RowsKeptBy(r)
    BY <2>1 DEF RowsKeptBy
  <2>3. row'[st] = "none" /\ row'[ts] = "none"
    BY <1>1, <1>6, RowEffects
  <2>4. Moved(r, "lookup")
    BY <1>6, MoveMoves DEF DeleteFriendship, Steps
  <2> QED
    BY <1>1, <2>1, <2>2, <2>3, <2>4, MoveCurrent DEF AmongFriends
<1> QED
  BY <1>3, <1>4, <1>5, <1>6

LEMMA ChatCurrent ==
  ASSUME GInv, NEW r \in Requests,
         \/ FindChat(r) \/ LookUpChat(r) \/ DeleteChat(r)
         \/ CreateChat(r) \/ CreateChatMember(r) \/ QueryFails(r)
  PROVE  Current'
<1> USE DEF GInv
<1>1. row' = row /\ CurrentFor(r) /\ ~At(r, "idle")
  BY DEF FindChat, LookUpChat, DeleteChat, CreateChat, CreateChatMember, QueryFails, Current
<1>2. RowsKeptBy(r)
  BY <1>1 DEF RowsKeptBy, RowsKept
<1>3. CASE Reply(r)
  BY <1>1, <1>2, <1>3, ReplyEnds, EndCurrent
<1>4. ASSUME NEW step \in AmongFriends \ {"delete"}, Moved(r, step), req[r].at \in AmongFriends
      PROVE  Current'
  BY <1>1, <1>2, <1>4, MoveCurrent DEF AmongFriends, Parting, CurrentFor, Friends
<1>5. CASE FindChat(r)
  BY <1>3, <1>4, <1>5, MoveMoves DEF FindChat, AmongFriends, Steps
<1>6. CASE LookUpChat(r)
  <2>1. ASSUME NEW k \in ChatsOfTwo(Self(r), Target(r)), MoveTo(r, "drop", k)
        PROVE  Current'
    <3>1. Moved(r, "drop") /\ req'[r].chat = k
      BY <2>1, MoveToMoves DEF Steps, ChatsOfTwo
    <3>2. k \in ChatIds /\ {Self(r), Target(r)} \subseteq members'[k]
      BY <1>6 DEF ChatsOfTwo, LookUpChat
    <3> QED
      BY <1>1, <1>2, <1>6, <3>1, <3>2, MoveCurrent
      DEF AmongFriends, Parting, CurrentFor, Friends, LookUpChat
  <2> QED
    BY <1>3, <1>6, <2>1 DEF LookUpChat
<1>7. CASE CreateChat(r)
  <2>1. Moved(r, "join")
    BY <1>7, MoveToMoves DEF CreateChat, Steps
  <2> QED
    BY <1>4, <1>7, <2>1 DEF CreateChat, AmongFriends
<1>8. CASE CreateChatMember(r)
  BY <1>3, <1>4, <1>8, MoveMoves DEF CreateChatMember, AmongFriends, Steps
<1>9. CASE DeleteChat(r) \/ QueryFails(r)
  BY <1>3, <1>9 DEF DeleteChat, QueryFails
<1> QED
  BY <1>5, <1>6, <1>7, <1>8, <1>9

\* What the inserts of a chat's members do: only to the chat that is being filled.
LEMMA JoinEffects ==
  ASSUME IInv, NEW r \in Requests, CreateChatMember(r)
  PROVE  LET k == req[r].chat
         IN /\ k \in ChatIds /\ k \in 1..created
            /\ Self(r) \in Users /\ Target(r) \in Users /\ Self(r) # Target(r)
            /\ members[k] \subseteq {Self(r), Target(r)}
            /\ members'[k] \subseteq {Self(r), Target(r)}
            /\ members[k] \subseteq members'[k]
            /\ \A j \in ChatIds : j # k => members'[j] = members[j]
            /\ UNCHANGED <<row, live, created, asked>>
<1> DEFINE k == req[r].chat
<1>1. Filling(r) /\ UNCHANGED <<row, live, created, asked>>
  BY DEF CreateChatMember, Filling
<1>2. Self(r) \in Users /\ Target(r) \in Users /\ Self(r) # Target(r)
  BY <1>1, Knows DEF Filling
<1>3. k \in 1..created /\ k \in ChatIds /\ members[k] \subseteq {Self(r), Target(r)}
  BY <1>1 DEF Own
<1>4. PICK w \in {Self(r), Target(r)} : JoinChat(r, w)
  BY DEF CreateChatMember
<1>5. /\ members'[k] \subseteq {Self(r), Target(r)}
      /\ members[k] \subseteq members'[k]
      /\ \A j \in ChatIds : j # k => members'[j] = members[j]
  BY <1>2, <1>3, <1>4 DEF JoinChat
<1> QED
  BY <1>1, <1>2, <1>3, <1>5

LEMMA StepPairs ==
  ASSUME GInv, [FriendshipNext]_fvars
  PROVE  ChatsOfPairs'
<1> USE DEF GInv
<1>1. CASE UNCHANGED members
  BY <1>1 DEF ChatsOfPairs
<1>2. ASSUME NEW r \in Requests, DeleteChat(r)
      PROVE  ChatsOfPairs'
  <2>1. \A k \in ChatIds : members'[k] \subseteq members[k]
    BY <1>2 DEF DeleteChat
  <2> QED
    BY <2>1 DEF ChatsOfPairs
<1>3. ASSUME NEW r \in Requests, CreateChatMember(r)
      PROVE  ChatsOfPairs'
  <2>1. /\ members'[req[r].chat] \subseteq {Self(r), Target(r)}
        /\ \A k \in ChatIds : k # req[r].chat => members'[k] = members[k]
    BY <1>3, JoinEffects
  <2> QED
    BY <2>1 DEF ChatsOfPairs
<1> QED
  BY <1>1, <1>2, <1>3
  DEF FriendshipNext, Handle, Arrive, GetFriendshipStatus, CreateFriendRequest,
      AcceptFriendRequest, CreateFriendship, DeleteFriendship, LookUpChat, FindChat,
      CreateChat, QueryFails

\* Kinds stay, and only requests that are admitted start.
LEMMA StepPartingAlone ==
  ASSUME PartsAlone, GInv, [FriendshipNext]_fvars
  PROVE  PartingAlone'
<1> USE DEF GInv
<1>1. ASSUME NEW r \in Requests, ~At(r, "idle"), Ended(r) \/ \E step : Moved(r, step)
      PROVE  PartingAlone'
  BY <1>1 DEF PartingAlone, Ended, Moved
<1>2. ASSUME NEW r \in Requests, NEW kind \in Kinds, NEW p \in Pairs, Arrive(r, kind, p)
      PROVE  PartingAlone'
  <2>1. req'[r].kind = kind /\ \A s \in Requests : s # r => req'[s] = req[s]
    BY <1>2 DEF Arrive
  <2>2. \A s \in Requests : s # r => At(s, "idle") \/ "unfriend" \notin {kind, req[s].kind}
    BY <1>2 DEF Arrive, Admitted, PartsAlone
  <2> QED
    BY <2>1, <2>2 DEF PartingAlone
<1>3. ASSUME NEW r \in Requests, Handle(r)
      PROVE  PartingAlone'
  <2>1. ~At(r, "idle")
    BY <1>3 DEF Handle, GetFriendshipStatus, CreateFriendRequest, AcceptFriendRequest,
       CreateFriendship, DeleteFriendship, LookUpChat, DeleteChat, FindChat, CreateChat,
       CreateChatMember, QueryFails
  <2>2. \/ Reply(r) \/ \E step \in Steps : Move(r, step)
        \/ \E step \in Steps, k \in 0..MaxChats : MoveTo(r, step, k)
    <3>1. CASE LookUpChat(r) \/ CreateChat(r)
      BY <3>1 DEF LookUpChat, CreateChat, ChatsOfTwo, Steps
    <3>2. CASE GetFriendshipStatus(r)
      BY <3>2 DEF GetFriendshipStatus, BefriendStatus, UnfriendStatus, ChatStatus, Steps
    <3> QED
      BY <1>3, <3>1, <3>2 DEF Handle, CreateFriendRequest, AcceptFriendRequest,
         CreateFriendship, DeleteFriendship, DeleteChat, FindChat, CreateChatMember,
         QueryFails, Steps
  <2> QED
    BY <1>1, <2>1, <2>2, ReplyEnds, MoveMoves, MoveToMoves
<1>4. CASE UNCHANGED fvars
  BY <1>4 DEF PartingAlone
<1> QED
  BY <1>2, <1>3, <1>4 DEF FriendshipNext

LEMMA StepGraph ==
  ASSUME PartsAlone
  PROVE  GInv /\ [FriendshipNext]_fvars => GInv'
<1> SUFFICES ASSUME GInv, [FriendshipNext]_fvars PROVE GInv'
  OBVIOUS
<1>1. IInv' /\ ChatsOfPairs' /\ PartingAlone'
  BY NextConsent, StepPairs, StepPartingAlone DEF GInv
<1>2. UNCHANGED fvars => Current'
  BY DEF GInv, Current, CurrentFor, Friends
<1>3. FriendshipNext => Current'
  BY ArriveCurrent, StatusCurrent, RowCurrent, ChatCurrent DEF FriendshipNext, Handle
<1>4. Current'
  BY <1>2, <1>3
<1> QED
  BY <1>1, <1>4 DEF GInv

LEMMA InitGraph == FriendshipInit => GInv
<1> SUFFICES ASSUME FriendshipInit PROVE GInv
  OBVIOUS
<1>1. \A r \in Requests : req[r].at = "idle"
  BY DEF FriendshipInit, NoRequest
<1>2. Current
  BY <1>1 DEF Current, CurrentFor, Parting, AmongFriends
<1>3. ChatsOfPairs
  BY DEF FriendshipInit, ChatsOfPairs
<1> QED
  BY <1>1, <1>2, <1>3, InitConsent DEF GInv, PartingAlone

LEMMA GraphKept ==
  ASSUME PartsAlone
  PROVE  FriendshipSpec => []GInv
<1>1. GInv /\ [FriendshipNext]_fvars => GInv'
  BY StepGraph
<1> QED
  BY <1>1, InitGraph, PTL DEF FriendshipSpec

(***************************************************************************)
(* The graph that the tables show.                                         *)
(***************************************************************************)
Edges(P) == {{p[1], p[2]} : p \in P}

Asking == {p \in Pairs : row[p] = "pending" /\ <<p[2], p[1]>> \notin AcceptedPairs}
ChattingPairs == {p \in Pairs : ChatsOfTwo(p[1], p[2]) # {}}

LEMMA PairIs ==
  ASSUME NEW p \in Pairs
  PROVE  /\ p = <<p[1], p[2]>> /\ p[1] \in Users /\ p[2] \in Users /\ p[1] # p[2]
         /\ <<p[2], p[1]>> \in Pairs
  BY DEF Pairs

LEMMA EdgeIn ==
  ASSUME NEW P \in SUBSET Pairs, NEW u \in Users, NEW v \in Users, u # v
  PROVE  {u, v} \in Edges(P) <=> <<u, v>> \in P \/ <<v, u>> \in P
<1>1. ASSUME {u, v} \in Edges(P)
      PROVE  <<u, v>> \in P \/ <<v, u>> \in P
  <2>1. PICK p \in P : {u, v} = {p[1], p[2]}
    BY <1>1 DEF Edges
  <2>2. p \in Pairs
    OBVIOUS
  <2>3. \/ p[1] = u /\ p[2] = v
        \/ p[1] = v /\ p[2] = u
    BY <2>1, <2>2, PairIs
  <2>4. p = <<u, v>> \/ p = <<v, u>>
    BY <2>2, <2>3, PairIs
  <2> QED
    BY <2>4
<1>2. <<u, v>> \in P => {u, v} \in Edges(P)
  <2>1. <<u, v>>[1] = u /\ <<u, v>>[2] = v
    OBVIOUS
  <2> QED
    BY <2>1 DEF Edges
<1>3. <<v, u>> \in P => {u, v} \in Edges(P)
  <2>1. <<v, u>>[1] = v /\ <<v, u>>[2] = u /\ {u, v} = {v, u}
    OBVIOUS
  <2> QED
    BY <2>1 DEF Edges
<1> QED
  BY <1>1, <1>2, <1>3

LEMMA EdgeOf ==
  ASSUME NEW P \in SUBSET Pairs, NEW e \in Edges(P)
  PROVE  \E u, v \in Users : u # v /\ e = {u, v}
<1>1. PICK p \in P : e = {p[1], p[2]}
  BY DEF Edges
<1>2. p \in Pairs
  OBVIOUS
<1> QED
  BY <1>1, <1>2, PairIs

\* If two sets of pairs differ in the pairs of u and v only, so do their edges.
LEMMA EdgesDiffer ==
  ASSUME NEW P \in SUBSET Pairs, NEW Q \in SUBSET Pairs,
         NEW u \in Users, NEW v \in Users, u # v,
         \A p \in Pairs : p # <<u, v>> /\ p # <<v, u>> => (p \in P <=> p \in Q)
  PROVE  \A e : e # {u, v} => (e \in Edges(P) <=> e \in Edges(Q))
<1>1. ASSUME NEW x \in Users, NEW y \in Users, x # y, {x, y} # {u, v}
      PROVE  {x, y} \in Edges(P) <=> {x, y} \in Edges(Q)
  <2>1. /\ <<x, y>> \in Pairs /\ <<x, y>> # <<u, v>> /\ <<x, y>> # <<v, u>>
        /\ <<y, x>> \in Pairs /\ <<y, x>> # <<u, v>> /\ <<y, x>> # <<v, u>>
    BY <1>1 DEF Pairs
  <2> QED
    BY <1>1, <2>1, EdgeIn
<1> QED
  BY <1>1, EdgeOf

LEMMA EdgesJoin ==
  ASSUME NEW P \in SUBSET Pairs, NEW Q \in SUBSET Pairs,
         NEW u \in Users, NEW v \in Users, u # v,
         <<u, v>> \in Q,
         \A p \in Pairs : p # <<u, v>> /\ p # <<v, u>> => (p \in P <=> p \in Q)
  PROVE  Edges(Q) = Edges(P) \cup {{u, v}}
<1>1. {u, v} \in Edges(Q)
  BY EdgeIn
<1>2. \A e : e # {u, v} => (e \in Edges(P) <=> e \in Edges(Q))
  BY EdgesDiffer
<1> QED
  BY <1>1, <1>2

LEMMA EdgesPart ==
  ASSUME NEW P \in SUBSET Pairs, NEW Q \in SUBSET Pairs,
         NEW u \in Users, NEW v \in Users, u # v,
         <<u, v>> \notin Q, <<v, u>> \notin Q,
         \A p \in Pairs : p # <<u, v>> /\ p # <<v, u>> => (p \in P <=> p \in Q)
  PROVE  Edges(Q) = Edges(P) \ {{u, v}}
<1>1. {u, v} \notin Edges(Q)
  BY EdgeIn
<1>2. \A e : e # {u, v} => (e \in Edges(P) <=> e \in Edges(Q))
  BY EdgesDiffer
<1> QED
  BY <1>1, <1>2

LEMMA AcceptedArePairs == AcceptedPairs \in SUBSET Pairs /\ ChattingPairs \in SUBSET Pairs
  BY DEF AcceptedPairs, ChattingPairs

LEMMA BefriendedIs ==
  ASSUME NEW u \in Users, NEW v \in Users, u # v
  PROVE  {u, v} \in Edges(AcceptedPairs) <=> Friends(u, v)
<1>1. <<u, v>> \in Pairs /\ <<v, u>> \in Pairs
  BY DEF Pairs
<1>2. Friends(u, v) <=> <<u, v>> \in AcceptedPairs \/ <<v, u>> \in AcceptedPairs
  BY <1>1 DEF Friends, AcceptedPairs
<1> QED
  BY <1>2, EdgeIn, AcceptedArePairs

Befriended == Edges(AcceptedPairs)
Chatting == Edges(ChattingPairs)

LEMMA RowsSame ==
  ASSUME \A p \in Pairs : row'[p] = row[p]
  PROVE  Asking' = Asking /\ AcceptedPairs' = AcceptedPairs /\ Befriended' = Befriended
  BY PairIs DEF Asking, AcceptedPairs, Befriended

LEMMA ChatsSame ==
  ASSUME UNCHANGED <<members, live>>
  PROVE  Chatting' = Chatting
<1>1. \A u, v : ChatsOfTwo(u, v)' = ChatsOfTwo(u, v)
  BY DEF ChatsOfTwo
<1> QED
  BY <1>1 DEF Chatting, ChattingPairs

\* A row of u for v, new or accepted now, in the two sets of pairs.
LEMMA AskMaps ==
  ASSUME GInv, NEW r \in Requests, CreateFriendRequest(r)
  PROVE  \/ Asking' = Asking /\ Befriended' = Befriended
         \/ /\ {Self(r), Target(r)} \notin Befriended
            /\ Asking' = Asking \cup {<<Self(r), Target(r)>>}
            /\ Befriended' = Befriended
<1> USE DEF GInv
<1> DEFINE st == <<Self(r), Target(r)>>
           ts == <<Target(r), Self(r)>>
<1>1. /\ st \in Pairs /\ ts \in Pairs /\ st # ts
      /\ row'[st] = IF row[st] = "none" THEN "pending" ELSE row[st]
      /\ \A p \in Pairs : p # st => row'[p] = row[p]
  BY RowEffects DEF CreateFriendRequest
<1>2. Self(r) \in Users /\ Target(r) \in Users /\ Self(r) # Target(r)
  BY Knows DEF CreateFriendRequest
<1>3. CASE row[st] # "none"
  BY <1>1, <1>3, RowsSame
<1>4. CASE row[st] = "none"
  <2>1. AcceptedPairs' = AcceptedPairs
    BY <1>1, <1>4 DEF AcceptedPairs
  <2>2. Befriended' = Befriended
    BY <2>1 DEF Befriended
  <2>3. <<st[2], st[1]>> = ts
    OBVIOUS
  <2> HIDE DEF st, ts
  <2>4. CASE row[ts] = "accepted"
    <3>1. ts \in AcceptedPairs
      BY <1>1, <2>4 DEF AcceptedPairs
    <3>2. st \notin Asking /\ st \notin Asking'
      BY <2>1, <2>3, <3>1 DEF Asking
    <3>3. \A p \in Pairs : p \in Asking' <=> p \in Asking
      BY <1>1, <2>1, <3>2 DEF Asking
    <3> QED
      BY <2>2, <3>3 DEF Asking
  <2>5. CASE row[ts] # "accepted"
    <3>1. ts \notin AcceptedPairs
      BY <2>5 DEF AcceptedPairs
    <3>2. st \in Asking'
      BY <1>1, <1>4, <2>1, <2>3, <3>1 DEF Asking
    <3>3. \A p \in Pairs : p # st => (p \in Asking' <=> p \in Asking)
      BY <1>1, <2>1 DEF Asking
    <3>4. Asking' = Asking \cup {st}
      BY <1>1, <3>2, <3>3 DEF Asking
    <3>5. ~Friends(Self(r), Target(r))
      BY <1>4, <2>5 DEF Friends, st, ts
    <3>6. {Self(r), Target(r)} \notin Befriended
      BY <1>2, <3>5, BefriendedIs DEF Befriended
    <3> QED
      BY <2>2, <3>4, <3>6 DEF st
  <2> QED
    BY <2>4, <2>5
<1> QED
  BY <1>3, <1>4

LEMMA AcceptMaps ==
  ASSUME GInv, NEW r \in Requests, AcceptFriendRequest(r)
  PROVE  \/ Asking' = Asking /\ Befriended' = Befriended
         \/ /\ <<Target(r), Self(r)>> \in Asking
            /\ Asking' = Asking \ {<<Self(r), Target(r)>>, <<Target(r), Self(r)>>}
            /\ Befriended' = Befriended \cup {{Self(r), Target(r)}}
<1> USE DEF GInv
<1> DEFINE st == <<Self(r), Target(r)>>
           ts == <<Target(r), Self(r)>>
<1>1. /\ st \in Pairs /\ ts \in Pairs /\ st # ts
      /\ row[ts] # "none" /\ row'[ts] = "accepted"
      /\ \A p \in Pairs : p # ts => row'[p] = row[p]
  BY RowEffects DEF AcceptFriendRequest, Current, CurrentFor
<1>2. Self(r) \in Users /\ Target(r) \in Users /\ Self(r) # Target(r)
  BY Knows DEF AcceptFriendRequest
<1>3. /\ <<st[2], st[1]>> = ts /\ <<ts[2], ts[1]>> = st
      /\ \A p \in Pairs : p # st /\ p # ts => <<p[2], p[1]>> # ts
  <2>1. \A p \in Pairs : <<p[2], p[1]>> = ts => p = st
    BY PairIs
  <2> QED
    BY <2>1
<1>4. CASE row[ts] = "accepted"
  <2>1. \A p \in Pairs : row'[p] = row[p]
    BY <1>1, <1>4
  <2> QED
    BY <2>1, RowsSame
<1>5. CASE row[ts] = "pending"
  <2> HIDE DEF st, ts
  <2>1. AcceptedPairs' = AcceptedPairs \cup {ts} /\ ts \notin AcceptedPairs
    BY <1>1, <1>5 DEF AcceptedPairs
  <2>2. Befriended' = Befriended \cup {{Self(r), Target(r)}}
    <3>1. /\ AcceptedPairs \in SUBSET Pairs /\ AcceptedPairs' \in SUBSET Pairs
          /\ \A p \in Pairs : p # st /\ p # ts => (p \in AcceptedPairs <=> p \in AcceptedPairs')
          /\ ts \in AcceptedPairs'
      BY <1>1, <2>1, AcceptedArePairs
    <3>2. Target(r) # Self(r) /\ {Target(r), Self(r)} = {Self(r), Target(r)}
      BY <1>2
    <3>3. Befriended' = Befriended \cup {{Target(r), Self(r)}}
      BY <1>2, <3>1, <3>2, EdgesJoin DEF Befriended, st, ts
    <3> QED
      BY <3>2, <3>3
  <2>3. ts \notin Asking' /\ st \notin Asking'
    BY <1>1, <1>3, <2>1 DEF Asking
  <2>4. \A p \in Pairs : p # st /\ p # ts => (p \in Asking' <=> p \in Asking)
    BY <1>1, <1>3, <2>1 DEF Asking
  <2>5. Asking' = Asking \ {st, ts}
    BY <2>3, <2>4 DEF Asking
  <2>6. CASE st \in AcceptedPairs
    <3>1. Friends(Self(r), Target(r))
      BY <2>6 DEF AcceptedPairs, Friends, st
    <3>2. {Self(r), Target(r)} \in Befriended
      BY <1>2, <3>1, BefriendedIs DEF Befriended
    <3>3. st \notin Asking /\ ts \notin Asking
      BY <1>3, <2>6 DEF Asking, AcceptedPairs
    <3> QED
      BY <2>2, <2>5, <3>2, <3>3
  <2>7. CASE st \notin AcceptedPairs
    <3>1. ts \in Asking
      BY <1>1, <1>3, <1>5, <2>7 DEF Asking
    <3> QED
      BY <2>2, <2>5, <3>1 DEF st, ts
  <2> QED
    BY <2>6, <2>7
<1>6. row[ts] \in {"none", "pending", "accepted"}
  BY <1>1
<1> QED
  BY <1>1, <1>4, <1>5, <1>6

LEMMA MirrorMaps ==
  ASSUME GInv, NEW r \in Requests, CreateFriendship(r)
  PROVE  Asking' = Asking /\ Befriended' = Befriended
<1> USE DEF GInv
<1> DEFINE st == <<Self(r), Target(r)>>
           ts == <<Target(r), Self(r)>>
<1>1. /\ st \in Pairs /\ ts \in Pairs /\ st # ts
      /\ row[ts] = "accepted"
      /\ row'[st] = IF row[st] = "none" THEN "accepted" ELSE row[st]
      /\ \A p \in Pairs : p # st => row'[p] = row[p]
  BY RowEffects DEF CreateFriendship, Current, CurrentFor
<1>2. Self(r) \in Users /\ Target(r) \in Users /\ Self(r) # Target(r)
  BY Knows DEF CreateFriendship
<1>3. /\ <<st[2], st[1]>> = ts /\ <<ts[2], ts[1]>> = st
      /\ \A p \in Pairs : p # st /\ p # ts => <<p[2], p[1]>> # st
  <2>1. \A p \in Pairs : <<p[2], p[1]>> = st => p = ts
    BY PairIs
  <2> QED
    BY <2>1
<1>4. CASE row[st] # "none"
  <2>1. \A p \in Pairs : row'[p] = row[p]
    BY <1>1, <1>4
  <2> QED
    BY <2>1, RowsSame
<1>5. CASE row[st] = "none"
  <2> HIDE DEF st, ts
  <2>1. AcceptedPairs' = AcceptedPairs \cup {st} /\ ts \in AcceptedPairs
    BY <1>1, <1>5 DEF AcceptedPairs
  <2>2. Befriended' = Befriended
    <3>1. /\ AcceptedPairs \in SUBSET Pairs /\ AcceptedPairs' \in SUBSET Pairs
          /\ \A p \in Pairs : p # st /\ p # ts => (p \in AcceptedPairs <=> p \in AcceptedPairs')
          /\ st \in AcceptedPairs'
      BY <1>1, <2>1, AcceptedArePairs
    <3>2. Befriended' = Befriended \cup {{Self(r), Target(r)}}
      BY <1>2, <3>1, EdgesJoin DEF Befriended, st, ts
    <3>3. Friends(Self(r), Target(r))
      BY <1>1 DEF Friends, ts
    <3> QED
      BY <1>2, <3>2, <3>3, BefriendedIs DEF Befriended
  <2>3. \A p \in Pairs : p \in Asking' <=> p \in Asking
    <3>1. st \notin Asking /\ ts \notin Asking /\ st \notin Asking' /\ ts \notin Asking'
      BY <1>1, <1>5, <2>1 DEF Asking, AcceptedPairs
    <3>2. \A p \in Pairs : p # st /\ p # ts => (p \in Asking' <=> p \in Asking)
      BY <1>1, <1>3, <2>1 DEF Asking
    <3> QED
      BY <3>1, <3>2
  <2> QED
    BY <2>2, <2>3 DEF Asking
<1> QED
  BY <1>4, <1>5

LEMMA PartMaps ==
  ASSUME GInv, NEW r \in Requests, DeleteFriendship(r)
  PROVE  /\ {Self(r), Target(r)} \in Befriended
         /\ Befriended' = Befriended \ {{Self(r), Target(r)}}
         /\ Asking' = Asking
<1> USE DEF GInv
<1> DEFINE st == <<Self(r), Target(r)>>
           ts == <<Target(r), Self(r)>>
<1>1. /\ st \in Pairs /\ ts \in Pairs /\ st # ts
      /\ row'[st] = "none" /\ row'[ts] = "none"
      /\ \A p \in Pairs : p # st /\ p # ts => row'[p] = row[p]
  BY RowEffects DEF DeleteFriendship
<1>2. /\ Self(r) \in Users /\ Target(r) \in Users /\ Self(r) # Target(r)
      /\ Friends(Self(r), Target(r))
  BY Knows DEF DeleteFriendship, Current, CurrentFor, AmongFriends
<1>3. /\ <<st[2], st[1]>> = ts /\ <<ts[2], ts[1]>> = st
      /\ \A p \in Pairs : p # st /\ p # ts => <<p[2], p[1]>> # st /\ <<p[2], p[1]>> # ts
  <2>1. \A p \in Pairs : /\ <<p[2], p[1]>> = st => p = ts
                         /\ <<p[2], p[1]>> = ts => p = st
    BY PairIs
  <2> QED
    BY <2>1
<1>4. {Self(r), Target(r)} \in Befriended
  BY <1>2, BefriendedIs DEF Befriended
<1>5. row[st] = "accepted" \/ row[ts] = "accepted"
  BY <1>2 DEF Friends
<1> HIDE DEF st, ts
<1>6. AcceptedPairs' = AcceptedPairs \ {st, ts}
  BY <1>1 DEF AcceptedPairs
<1>7. Befriended' = Befriended \ {{Self(r), Target(r)}}
  <2>1. /\ AcceptedPairs \in SUBSET Pairs /\ AcceptedPairs' \in SUBSET Pairs
        /\ \A p \in Pairs : p # st /\ p # ts => (p \in AcceptedPairs <=> p \in AcceptedPairs')
        /\ st \notin AcceptedPairs' /\ ts \notin AcceptedPairs'
    BY <1>6, AcceptedArePairs
  <2> QED
    BY <1>2, <2>1, EdgesPart DEF Befriended, st, ts
<1>8. \A p \in Pairs : p \in Asking' <=> p \in Asking
  <2>1. st \notin Asking /\ ts \notin Asking /\ st \notin Asking' /\ ts \notin Asking'
    BY <1>1, <1>3, <1>5 DEF Asking, AcceptedPairs
  <2>2. \A p \in Pairs : p # st /\ p # ts => (p \in Asking' <=> p \in Asking)
    BY <1>1, <1>3, <1>6 DEF Asking
  <2> QED
    BY <2>1, <2>2
<1> QED
  BY <1>4, <1>7, <1>8 DEF Asking

\* If the pair u, v and no other may gain or lose a chat, only its edge can change.
LEMMA OnlyTheirChats ==
  ASSUME NEW u \in Users, NEW v \in Users, u # v,
         \A x, y \in Users : x # y /\ {x, y} # {u, v} =>
           (ChatsOfTwo(x, y)' # {} <=> ChatsOfTwo(x, y) # {})
  PROVE  /\ ChatsOfTwo(u, v)' # {} => Chatting' = Chatting \cup {{u, v}}
         /\ ChatsOfTwo(u, v)' = {} => Chatting' = Chatting \ {{u, v}}
<1> DEFINE P == ChattingPairs
           Q == ChattingPairs'
<1>1. P \in SUBSET Pairs /\ Q \in SUBSET Pairs
  BY DEF ChattingPairs
<1>2. ASSUME NEW p \in Pairs, p # <<u, v>>, p # <<v, u>>
      PROVE  p \in P <=> p \in Q
  <2>1. p[1] \in Users /\ p[2] \in Users /\ p[1] # p[2] /\ p = <<p[1], p[2]>>
    BY PairIs
  <2>2. {p[1], p[2]} # {u, v}
    <3>1. {p[1], p[2]} = {u, v} => (p[1] = u /\ p[2] = v) \/ (p[1] = v /\ p[2] = u)
      BY <2>1
    <3> QED
      BY <1>2, <2>1, <3>1
  <2> QED
    BY <2>1, <2>2 DEF ChattingPairs
<1>3. /\ <<u, v>> \in Q <=> ChatsOfTwo(u, v)' # {}
      /\ <<v, u>> \in Q <=> ChatsOfTwo(u, v)' # {}
  BY DEF ChattingPairs, Pairs, ChatsOfTwo
<1>4. Chatting = Edges(P) /\ Chatting' = Edges(Q)
  BY DEF Chatting
<1> HIDE DEF P, Q
<1>5. CASE ChatsOfTwo(u, v)' # {}
  <2>1. Edges(Q) = Edges(P) \cup {{u, v}}
    BY <1>1, <1>2, <1>3, <1>5, EdgesJoin
  <2> QED
    BY <1>4, <1>5, <2>1
<1>6. CASE ChatsOfTwo(u, v)' = {}
  <2>1. Edges(Q) = Edges(P) \ {{u, v}}
    BY <1>1, <1>2, <1>3, <1>6, EdgesPart
  <2> QED
    BY <1>4, <1>6, <2>1
<1> QED
  BY <1>5, <1>6

LEMMA ChattingIs ==
  ASSUME NEW u \in Users, NEW v \in Users, u # v
  PROVE  {u, v} \in Chatting <=> ChatsOfTwo(u, v) # {}
<1>1. /\ <<u, v>> \in ChattingPairs <=> ChatsOfTwo(u, v) # {}
      /\ <<v, u>> \in ChattingPairs <=> ChatsOfTwo(u, v) # {}
  BY DEF ChattingPairs, Pairs, ChatsOfTwo
<1> QED
  BY <1>1, EdgeIn, AcceptedArePairs DEF Chatting

LEMMA JoinMaps ==
  ASSUME GInv, NEW r \in Requests, CreateChatMember(r)
  PROVE  /\ {Self(r), Target(r)} \in Befriended
         /\ Chatting' = Chatting \/ Chatting' = Chatting \cup {{Self(r), Target(r)}}
<1> USE DEF GInv
<1>0. PICK u, v : u = Self(r) /\ v = Target(r)
  OBVIOUS
<1> SUFFICES /\ {u, v} \in Befriended
             /\ Chatting' = Chatting \/ Chatting' = Chatting \cup {{u, v}}
  BY <1>0
<1> DEFINE k == req[r].chat
<1>1. /\ k \in ChatIds
      /\ u \in Users /\ v \in Users /\ u # v
      /\ members[k] \subseteq {u, v}
      /\ members'[k] \subseteq {u, v}
      /\ members[k] \subseteq members'[k]
      /\ \A j \in ChatIds : j # k => members'[j] = members[j]
      /\ live' = live
  BY <1>0, JoinEffects
<1>2. {u, v} \in Befriended
  <2>1. Friends(u, v)
    BY <1>0 DEF CreateChatMember, Current, CurrentFor, AmongFriends
  <2> QED
    BY <1>1, <2>1, BefriendedIs DEF Befriended
<1> HIDE DEF k
<1>3. \A x, y \in Users : x # y /\ {x, y} # {u, v} =>
        (ChatsOfTwo(x, y)' # {} <=> ChatsOfTwo(x, y) # {})
  <2> SUFFICES ASSUME NEW x \in Users, NEW y \in Users, x # y, {x, y} # {u, v}
               PROVE  ChatsOfTwo(x, y)' = ChatsOfTwo(x, y)
    OBVIOUS
  <2>1. ~({x, y} \subseteq members[k]) /\ ~({x, y} \subseteq members'[k])
    BY <1>1
  <2> QED
    BY <1>1, <2>1 DEF ChatsOfTwo
<1>4. ChatsOfTwo(u, v) \subseteq ChatsOfTwo(u, v)'
  BY <1>1 DEF ChatsOfTwo
<1>5. CASE ChatsOfTwo(u, v)' # {}
  <2>1. Chatting' = Chatting \cup {{u, v}}
    BY <1>1, <1>3, <1>5, OnlyTheirChats
  <2> QED
    BY <1>2, <2>1
<1>6. CASE ChatsOfTwo(u, v)' = {}
  <2>1. Chatting' = Chatting \ {{u, v}}
    BY <1>1, <1>3, <1>6, OnlyTheirChats
  <2>2. {u, v} \notin Chatting
    BY <1>1, <1>4, <1>6, ChattingIs
  <2> QED
    BY <1>2, <2>1, <2>2
<1> QED
  BY <1>5, <1>6

LEMMA CreateMaps ==
  ASSUME GInv, NEW r \in Requests, CreateChat(r)
  PROVE  Chatting' = Chatting
<1> USE DEF GInv
<1>1. created + 1 \in ChatIds /\ members[created + 1] = {}
  BY DEF CreateChat, Own
<1>2. live' = live \cup {created + 1} /\ members' = members
  BY DEF CreateChat
<1>3. \A u, v : ChatsOfTwo(u, v)' = ChatsOfTwo(u, v)
  BY <1>1, <1>2 DEF ChatsOfTwo
<1> QED
  BY <1>3 DEF Chatting, ChattingPairs

LEMMA DropMaps ==
  ASSUME GInv, NEW r \in Requests, DeleteChat(r)
  PROVE  /\ {Self(r), Target(r)} \notin Befriended
         /\ Chatting' = Chatting \/ Chatting' = Chatting \ {{Self(r), Target(r)}}
<1> USE DEF GInv
<1>0. PICK u, v : u = Self(r) /\ v = Target(r)
  OBVIOUS
<1> SUFFICES /\ {u, v} \notin Befriended
             /\ Chatting' = Chatting \/ Chatting' = Chatting \ {{u, v}}
  BY <1>0
<1> DEFINE k == req[r].chat
<1>1. /\ u \in Users /\ v \in Users /\ u # v
      /\ ~Friends(u, v)
      /\ k \in ChatIds /\ {u, v} \subseteq members[k]
  BY <1>0, Knows DEF DeleteChat, Current, CurrentFor
<1>2. {u, v} \notin Befriended
  BY <1>1, BefriendedIs DEF Befriended
<1>3. /\ live' = live \ {k} /\ members'[k] = {}
      /\ \A j \in ChatIds : j # k => members'[j] = members[j]
  BY <1>1 DEF DeleteChat
<1> HIDE DEF k
<1>4. members[k] \subseteq {u, v}
  BY <1>1 DEF ChatsOfPairs
<1>5. \A x, y \in Users : x # y /\ {x, y} # {u, v} =>
        (ChatsOfTwo(x, y)' # {} <=> ChatsOfTwo(x, y) # {})
  <2> SUFFICES ASSUME NEW x \in Users, NEW y \in Users, x # y, {x, y} # {u, v}
               PROVE  ChatsOfTwo(x, y)' = ChatsOfTwo(x, y)
    OBVIOUS
  <2>1. ~({x, y} \subseteq members[k])
    BY <1>4
  <2> QED
    BY <1>3, <2>1 DEF ChatsOfTwo
<1>6. ChatsOfTwo(u, v)' \subseteq ChatsOfTwo(u, v)
  BY <1>3 DEF ChatsOfTwo
<1>7. CASE ChatsOfTwo(u, v)' # {}
  <2>1. Chatting' = Chatting \cup {{u, v}}
    BY <1>1, <1>5, <1>7, OnlyTheirChats
  <2>2. {u, v} \in Chatting
    BY <1>1, <1>6, <1>7, ChattingIs
  <2> QED
    BY <1>2, <2>1, <2>2
<1>8. CASE ChatsOfTwo(u, v)' = {}
  BY <1>1, <1>2, <1>5, <1>8, OnlyTheirChats
<1> QED
  BY <1>7, <1>8

LEMMA HandleMaps ==
  ASSUME GInv, NEW r \in Requests, Handle(r)
  PROVE  [Graph!GraphNext]_<<Asking, Befriended, Chatting>>
<1> DEFINE u == Self(r)
           v == Target(r)
<1> USE DEF Graph!GraphNext, Graph!Ask, Graph!AskBack, Graph!Part, Graph!Open, Graph!Shut,
            Asking, Befriended, Chatting, Edges, ChattingPairs
<1>1. ~At(r, "idle") => u \in Users /\ v \in Users /\ u # v
  BY Knows DEF GInv
<1> HIDE DEF u, v
<1>2. CASE CreateFriendRequest(r)
  BY <1>1, <1>2, AskMaps, ChatsSame DEF CreateFriendRequest, u, v
<1>3. CASE AcceptFriendRequest(r)
  BY <1>1, <1>3, AcceptMaps, ChatsSame DEF AcceptFriendRequest, u, v
<1>4. CASE CreateFriendship(r)
  BY <1>4, MirrorMaps, ChatsSame DEF CreateFriendship
<1>5. CASE DeleteFriendship(r)
  BY <1>1, <1>5, PartMaps, ChatsSame DEF DeleteFriendship, u, v
<1>6. CASE CreateChatMember(r)
  BY <1>1, <1>6, JoinMaps, RowsSame DEF CreateChatMember, u, v
<1>7. CASE DeleteChat(r)
  BY <1>1, <1>7, DropMaps, RowsSame DEF DeleteChat, u, v
<1>8. CASE CreateChat(r)
  BY <1>8, CreateMaps, RowsSame DEF CreateChat
<1>9. CASE \/ GetFriendshipStatus(r) \/ LookUpChat(r) \/ FindChat(r) \/ QueryFails(r)
  BY <1>9, ChatsSame, RowsSame DEF GetFriendshipStatus, LookUpChat, FindChat, QueryFails
<1> QED
  BY <1>2, <1>3, <1>4, <1>5, <1>6, <1>7, <1>8, <1>9 DEF Handle

\* The friend system is a social graph, whichever queries fail, if friendships end
\* only when no other request is under way: every query of every handler changes the
\* graph as one promised operation does, or not at all.
THEOREM GraphImplemented ==
  ASSUME PartsAlone
  PROVE  FriendshipSpec => ImplementsGraph
<1>1. FriendshipInit => Graph!GraphInit
  BY DEF FriendshipInit, Graph!GraphInit, AcceptedPairs, ChatsOfTwo
<1>2. GInv /\ [FriendshipNext]_fvars
        => [Graph!GraphNext]_<<{p \in Pairs : /\ row[p] = "pending"
                                              /\ <<p[2], p[1]>> \notin AcceptedPairs},
                               {{p[1], p[2]} : p \in AcceptedPairs},
                               {{p[1], p[2]} : p \in {q \in Pairs : ChatsOfTwo(q[1], q[2]) # {}}}>>
  <2> SUFFICES ASSUME GInv, [FriendshipNext]_fvars
               PROVE  [Graph!GraphNext]_<<Asking, Befriended, Chatting>>
    BY DEF Asking, Befriended, Chatting, Edges, ChattingPairs
  <2>1. ASSUME NEW r \in Requests, NEW kind \in Kinds, NEW p \in Pairs, Arrive(r, kind, p)
        PROVE  UNCHANGED <<Asking, Befriended, Chatting>>
    BY <2>1, ChatsSame, RowsSame DEF Arrive
  <2>2. CASE UNCHANGED fvars
    BY <2>2, ChatsSame, RowsSame
  <2> QED
    BY <2>1, <2>2, HandleMaps DEF FriendshipNext
<1> QED
  BY <1>1, <1>2, GraphKept, PTL DEF FriendshipSpec, ImplementsGraph, Graph!GraphSpec, Graph!graphVars
-----------------------------------------------------------------------------

(***************************************************************************)
(* Second chats.                                                           *)
(*                                                                         *)
(* A handler makes a chat for a pair if it has found none.  Until its last *)
(* insert the chat does not count, so others may find none as well; but    *)
(* whoever does was under way by then, and the chats of a pair and the     *)
(* handlers that are making one are together no more than the requests.    *)
(***************************************************************************)
Making == {"create", "join", "joinOther"}

Makers(p) == {r \in Requests : req[r].at \in Making /\ PairOf(r) = Between(p[1], p[2])}

Counted ==
  /\ \A r \in Requests : At(r, "join") => members[req[r].chat] = {}
  /\ \A p \in Pairs :
       Cardinality(ChatsOfTwo(p[1], p[2])) + Cardinality(Makers(p)) <= Cardinality(Requests)

LEMMA FiniteChats ==
  ASSUME FriendshipTypeOK, NEW p \in Pairs
  PROVE  /\ IsFiniteSet(ChatsOfTwo(p[1], p[2])) /\ IsFiniteSet(Makers(p))
         /\ Cardinality(ChatsOfTwo(p[1], p[2])) \in Nat /\ Cardinality(Makers(p)) \in Nat
         /\ Cardinality(Requests) \in Nat
<1>1. IsFiniteSet(1..MaxChats)
  BY FS_Interval
<1>2. ChatsOfTwo(p[1], p[2]) \subseteq 1..MaxChats /\ Makers(p) \subseteq Requests
  BY DEF ChatsOfTwo, Makers
<1>3. IsFiniteSet(ChatsOfTwo(p[1], p[2])) /\ IsFiniteSet(Makers(p))
  BY <1>1, <1>2, FS_Subset
<1> QED
  BY <1>3, FS_CardinalityType

\* A step that gives no pair a chat and makes no handler a maker of one.
LEMMA CountFalls ==
  ASSUME IInv, IInv', Counted,
         \A r \in Requests : At(r, "join")' => members'[req'[r].chat] = {},
         \A p \in Pairs : /\ ChatsOfTwo(p[1], p[2])' \subseteq ChatsOfTwo(p[1], p[2])
                          /\ Makers(p)' \subseteq Makers(p)
  PROVE  Counted'
<1> SUFFICES ASSUME NEW p \in Pairs
             PROVE  Cardinality(ChatsOfTwo(p[1], p[2]))' + Cardinality(Makers(p))'
                      <= Cardinality(Requests)
  BY DEF Counted
<1> DEFINE old == Cardinality(ChatsOfTwo(p[1], p[2]))
           new == Cardinality(ChatsOfTwo(p[1], p[2])')
           before == Cardinality(Makers(p))
           after == Cardinality(Makers(p)')
<1>1. /\ IsFiniteSet(ChatsOfTwo(p[1], p[2])) /\ IsFiniteSet(Makers(p))
      /\ old \in Nat /\ before \in Nat /\ Cardinality(Requests) \in Nat
  BY FiniteChats
<1>2. new <= old /\ after <= before /\ new \in Nat /\ after \in Nat
  BY <1>1, FS_Subset, FS_CardinalityType
<1>3. old + before <= Cardinality(Requests)
  BY DEF Counted
<1> HIDE DEF old, new, before, after
<1>4. new + after <= Cardinality(Requests)
  BY <1>1, <1>2, <1>3
<1> QED
  BY <1>4 DEF new, after

\* The handler r alone moves, and is not, or was and stays, one of the makers.
LEMMA MakersStay ==
  ASSUME NEW r \in Requests, \A s \in Requests : s # r => req'[s] = req[s],
         \/ req'[r].at \notin Making
         \/ req[r].at \in Making /\ req'[r].by = req[r].by /\ req'[r].to = req[r].to,
         NEW p \in Pairs
  PROVE  Makers(p)' \subseteq Makers(p)
BY DEF Makers, PairOf, Between

LEMMA CountStays ==
  ASSUME IInv, IInv', Counted, NEW r \in Requests,
         \A s \in Requests : s # r => req'[s] = req[s],
         req'[r].at \notin Making,
         UNCHANGED <<members, live>>
  PROVE  Counted'
<1>1. \A p \in Pairs : ChatsOfTwo(p[1], p[2])' = ChatsOfTwo(p[1], p[2])
  BY DEF ChatsOfTwo
<1>2. \A p \in Pairs : Makers(p)' \subseteq Makers(p)
  BY MakersStay
<1>3. \A s \in Requests : At(s, "join")' => members'[req'[s].chat] = {}
  BY DEF Counted, Making
<1> QED
  BY <1>1, <1>2, <1>3, CountFalls

\* Whoever finds no chat for the pair is one of the requests under way.
LEMMA FindCounts ==
  ASSUME IInv, IInv', Counted, NEW r \in Requests, FindChat(r), Move(r, "create")
  PROVE  Counted'
<1>1. Moved(r, "create")
  BY MoveMoves DEF Steps
<1>2. \A s \in Requests : At(s, "join")' => members'[req'[s].chat] = {}
  BY <1>1 DEF Counted, Moved, FindChat
<1>3. \A x, y : ChatsOfTwo(x, y)' = ChatsOfTwo(x, y)
  BY DEF ChatsOfTwo, FindChat
<1>4. ChatsOfTwo(Self(r), Target(r)) = {} /\ Self(r) \in Users /\ Target(r) \in Users
  <2>1. ~Reply(r)
    BY <1>1, ReplyEnds DEF Moved, Ended
  <2> QED
    BY <2>1, Knows DEF FindChat
<1>5. ASSUME NEW p \in Pairs
      PROVE  Cardinality(ChatsOfTwo(p[1], p[2]))' + Cardinality(Makers(p))'
               <= Cardinality(Requests)
  <2>1. CASE PairOf(r) = Between(p[1], p[2])
    <3>1. ChatsOfTwo(p[1], p[2]) = {}
      <4>1. {p[1], p[2]} = {Self(r), Target(r)}
        BY <2>1, PairIs DEF PairOf, Between
      <4> QED
        BY <1>4, <4>1 DEF ChatsOfTwo
    <3>2. Cardinality(ChatsOfTwo(p[1], p[2]))' = 0
      BY <1>3, <3>1, FS_EmptySet
    <3>3. Makers(p)' \subseteq Requests
      BY DEF Makers
    <3>4. /\ Cardinality(Makers(p)') <= Cardinality(Requests)
          /\ Cardinality(Makers(p)') \in Nat /\ Cardinality(Requests) \in Nat
      BY <3>3, FS_Subset, FS_CardinalityType
    <3> QED
      BY <3>2, <3>4
  <2>2. CASE PairOf(r) # Between(p[1], p[2])
    <3>1. Makers(p)' = Makers(p)
      BY <1>1, <2>2 DEF Makers, Moved, PairOf, Between
    <3> QED
      BY <1>3, <3>1 DEF Counted
  <2> QED
    BY <2>1, <2>2
<1> QED
  BY <1>2, <1>5 DEF Counted

\* A new chat has no members yet.
LEMMA CreateCounts ==
  ASSUME IInv, IInv', Counted, NEW r \in Requests, CreateChat(r)
  PROVE  Counted'
<1>1. created + 1 \in ChatIds /\ members[created + 1] = {}
  BY DEF CreateChat, Own
<1>2. live' = live \cup {created + 1} /\ members' = members
  BY DEF CreateChat
<1>3. \A u, v : ChatsOfTwo(u, v)' = ChatsOfTwo(u, v)
  BY <1>1, <1>2 DEF ChatsOfTwo
<1>4. Moved(r, "join") /\ req'[r].chat = created + 1
  BY <1>1, MoveToMoves DEF CreateChat, Steps
<1>5. \A p \in Pairs : Makers(p)' \subseteq Makers(p)
  BY <1>4, MakersStay DEF Moved, CreateChat, Making
<1>6. \A s \in Requests : At(s, "join")' => members'[req'[s].chat] = {}
  BY <1>1, <1>2, <1>4 DEF Moved, Counted
<1> QED
  BY <1>3, <1>5, <1>6, CountFalls

LEMMA DropCounts ==
  ASSUME IInv, IInv', Counted, NEW r \in Requests, DeleteChat(r)
  PROVE  Counted'
<1>1. Ended(r)
  BY ReplyEnds DEF DeleteChat
<1>2. \A k \in ChatIds : members'[k] \subseteq members[k]
  BY DEF DeleteChat
<1>3. \A p \in Pairs : ChatsOfTwo(p[1], p[2])' \subseteq ChatsOfTwo(p[1], p[2])
  BY <1>2 DEF ChatsOfTwo, DeleteChat
<1>4. \A p \in Pairs : Makers(p)' \subseteq Makers(p)
  BY <1>1, MakersStay DEF Ended, Making
<1>5. ASSUME NEW s \in Requests, At(s, "join")'
      PROVE  members'[req'[s].chat] = {}
  <2>1. At(s, "join") /\ req'[s] = req[s]
    BY <1>1, <1>5 DEF Ended
  <2>2. req[s].chat \in ChatIds
    BY <2>1 DEF Own, Filling
  <2> QED
    BY <1>2, <2>1, <2>2 DEF Counted
<1> QED
  BY <1>3, <1>4, <1>5, CountFalls

\* Others are filling other chats.
LEMMA JoinLeaves ==
  ASSUME IInv, Counted, NEW r \in Requests, CreateChatMember(r),
         NEW s \in Requests, s # r, req'[s] = req[s], At(s, "join")'
  PROVE  members'[req'[s].chat] = {}
<1>1. Filling(r) /\ Filling(s)
  BY DEF CreateChatMember, Filling
<1>2. req[s].chat # req[r].chat /\ req[s].chat \in ChatIds
  BY <1>1 DEF Own
<1> QED
  BY <1>2, JoinEffects DEF Counted

\* The first member joins an empty chat.
LEMMA FirstCounts ==
  ASSUME IInv, IInv', Counted, NEW r \in Requests, CreateChatMember(r), At(r, "join")
  PROVE  Counted'
<1> DEFINE k == req[r].chat
<1>1. JoinChat(r, Self(r)) /\ (Move(r, "joinOther") \/ Reply(r))
  BY DEF CreateChatMember
<1>2. members[k] = {} /\ k \in ChatIds /\ Self(r) \in Users /\ live' = live
      /\ \A j \in ChatIds : j # k => members'[j] = members[j]
  BY JoinEffects DEF Counted
<1>3. members'[k] \subseteq {Self(r)}
  BY <1>1, <1>2 DEF JoinChat
<1>4. Moved(r, "joinOther") \/ Ended(r)
  BY <1>1, MoveMoves, ReplyEnds DEF Steps
<1> HIDE DEF k
<1>5. ASSUME NEW p \in Pairs
      PROVE  ChatsOfTwo(p[1], p[2])' \subseteq ChatsOfTwo(p[1], p[2])
  <2>1. p[1] # p[2]
    BY PairIs
  <2>2. ~({p[1], p[2]} \subseteq members'[k])
    BY <1>3, <2>1
  <2> QED
    BY <1>2, <2>2 DEF ChatsOfTwo
<1>6. \A p \in Pairs : Makers(p)' \subseteq Makers(p)
  BY <1>4, MakersStay DEF Moved, Ended, Making
<1>7. \A s \in Requests : At(s, "join")' => members'[req'[s].chat] = {}
  BY <1>4, JoinLeaves DEF Moved, Ended
<1> QED
  BY <1>5, <1>6, <1>7, CountFalls

\* With the second one the chat counts, and its maker no longer does.
LEMMA SecondCounts ==
  ASSUME IInv, IInv', Counted, NEW r \in Requests, CreateChatMember(r), At(r, "joinOther")
  PROVE  Counted'
<1> DEFINE k == req[r].chat
<1>1. /\ k \in ChatIds /\ live' = live
      /\ Self(r) \in Users /\ Target(r) \in Users
      /\ members'[k] \subseteq {Self(r), Target(r)}
      /\ members[k] \subseteq members'[k]
      /\ \A j \in ChatIds : j # k => members'[j] = members[j]
  BY JoinEffects
<1>2. Ended(r)
  BY ReplyEnds DEF CreateChatMember
<1>3. \A s \in Requests : At(s, "join")' => members'[req'[s].chat] = {}
  BY <1>2, JoinLeaves DEF Ended
<1> HIDE DEF k
<1>4. ASSUME NEW p \in Pairs
      PROVE  Cardinality(ChatsOfTwo(p[1], p[2])') + Cardinality(Makers(p)')
               <= Cardinality(Requests)
  <2> DEFINE C == ChatsOfTwo(p[1], p[2])
             D == ChatsOfTwo(p[1], p[2])'
             M == Makers(p)
             N == Makers(p)'
             all == Cardinality(Requests)
  <2>1. IsFiniteSet(C) /\ IsFiniteSet(M) /\ Cardinality(C) \in Nat /\ Cardinality(M) \in Nat
        /\ all \in Nat /\ Cardinality(C) + Cardinality(M) <= all
    BY FiniteChats DEF Counted
  <2>2. D \subseteq C \cup {k}
    BY <1>1 DEF ChatsOfTwo
  <2>3. N \subseteq M
    BY <1>2, MakersStay DEF Ended, Making
  <2>4. CASE PairOf(r) = Between(p[1], p[2])
    <3>1. r \in M /\ N \subseteq M \ {r}
      BY <1>2, <2>3, <2>4 DEF Makers, Ended, Making
    <3> HIDE DEF C, D, M, N, all
    <3>2. IsFiniteSet(C \cup {k}) /\ Cardinality(C \cup {k}) <= Cardinality(C) + 1
          /\ Cardinality(C \cup {k}) \in Nat
      <4>1. /\ IsFiniteSet(C \cup {k})
            /\ Cardinality(C \cup {k}) = Cardinality(C)
                 \/ Cardinality(C \cup {k}) = Cardinality(C) + 1
        BY <2>1, FS_AddElement
      <4> QED
        BY <2>1, <4>1
    <3>3. IsFiniteSet(M \ {r}) /\ Cardinality(M \ {r}) = Cardinality(M) - 1
          /\ Cardinality(M \ {r}) \in Nat
      BY <2>1, <3>1, FS_RemoveElement, FS_CardinalityType
    <3>4. /\ Cardinality(D) <= Cardinality(C \cup {k}) /\ Cardinality(D) \in Nat
          /\ Cardinality(N) <= Cardinality(M \ {r}) /\ Cardinality(N) \in Nat
      BY <2>2, <3>1, <3>2, <3>3, FS_Subset, FS_CardinalityType
    <3>5. Cardinality(D) + Cardinality(N) <= all
      BY <2>1, <3>2, <3>3, <3>4
    <3> QED
      BY <3>5 DEF D, N, all
  <2>5. CASE PairOf(r) # Between(p[1], p[2])
    <3>1. ~({p[1], p[2]} \subseteq {Self(r), Target(r)})
      BY <2>5, PairIs DEF PairOf, Between
    <3>2. k \notin D
      BY <1>1, <3>1 DEF ChatsOfTwo
    <3> HIDE DEF C, D, M, N, all
    <3>3. /\ Cardinality(D) <= Cardinality(C) /\ Cardinality(D) \in Nat
          /\ Cardinality(N) <= Cardinality(M) /\ Cardinality(N) \in Nat
      BY <2>1, <2>2, <2>3, <3>2, FS_Subset, FS_CardinalityType
    <3>4. Cardinality(D) + Cardinality(N) <= all
      BY <2>1, <3>3
    <3> QED
      BY <3>4 DEF D, N, all
  <2> QED
    BY <2>4, <2>5
<1> QED
  BY <1>3, <1>4 DEF Counted

\* The steps that neither find, make nor drop a chat.
LEMMA RestCounts ==
  ASSUME IInv, IInv', Counted, NEW r \in Requests,
         \/ \E kind \in Kinds, p \in Pairs : Arrive(r, kind, p)
         \/ GetFriendshipStatus(r) \/ CreateFriendRequest(r) \/ AcceptFriendRequest(r)
         \/ CreateFriendship(r) \/ DeleteFriendship(r) \/ LookUpChat(r) \/ QueryFails(r)
  PROVE  Counted'
<1>1. UNCHANGED <<members, live>>
  BY DEF Arrive, GetFriendshipStatus, CreateFriendRequest, AcceptFriendRequest,
         CreateFriendship, DeleteFriendship, LookUpChat, QueryFails
<1>2. CASE Reply(r)
  BY <1>1, <1>2, ReplyEnds, CountStays DEF Ended, Making
<1>3. ASSUME NEW step \in {"insert", "accept", "mirror", "delete", "find", "lookup"}, Move(r, step)
      PROVE  Counted'
  BY <1>1, <1>3, MoveMoves, CountStays DEF Moved, Steps, Making
<1>4. ASSUME NEW k \in ChatIds, MoveTo(r, "drop", k)
      PROVE  Counted'
  BY <1>1, <1>4, MoveToMoves, CountStays DEF Moved, Steps, Making
<1>5. ASSUME NEW kind \in Kinds, NEW p \in Pairs, Arrive(r, kind, p)
      PROVE  Counted'
  <2>1. req'[r].at = "status" /\ \A s \in Requests : s # r => req'[s] = req[s]
    BY <1>5 DEF Arrive
  <2> QED
    BY <1>1, <2>1, CountStays DEF Making
<1>6. CASE LookUpChat(r)
  BY <1>2, <1>4, <1>6 DEF LookUpChat, ChatsOfTwo
<1>7. CASE GetFriendshipStatus(r)
  BY <1>2, <1>3, <1>7 DEF GetFriendshipStatus, BefriendStatus, UnfriendStatus, ChatStatus
<1> QED
  BY <1>2, <1>3, <1>5, <1>6, <1>7
  DEF CreateFriendRequest, AcceptFriendRequest, CreateFriendship, DeleteFriendship, QueryFails

LEMMA StepCounts ==
  ASSUME IInv, IInv', Counted, [FriendshipNext]_fvars
  PROVE  Counted'
<1>1. CASE UNCHANGED fvars
  BY <1>1 DEF Counted, ChatsOfTwo, Makers, PairOf
<1>2. ASSUME NEW r \in Requests, FindChat(r)
      PROVE  Counted'
  <2>1. CASE Move(r, "create")
    BY <1>2, <2>1, FindCounts
  <2>2. CASE Reply(r)
    BY <1>2, <2>2, ReplyEnds, CountStays DEF Ended, Making, FindChat
  <2> QED
    BY <1>2, <2>1, <2>2 DEF FindChat
<1>3. ASSUME NEW r \in Requests, CreateChatMember(r)
      PROVE  Counted'
  BY <1>3, FirstCounts, SecondCounts DEF CreateChatMember
<1> QED
  BY <1>1, <1>2, <1>3, CreateCounts, DropCounts, RestCounts DEF FriendshipNext, Handle

LEMMA InitCounts == FriendshipInit => Counted
<1> SUFFICES ASSUME FriendshipInit PROVE Counted
  OBVIOUS
<1>1. \A r \in Requests : req[r].at = "idle"
  BY DEF FriendshipInit, NoRequest
<1>2. \A p \in Pairs : ChatsOfTwo(p[1], p[2]) = {} /\ Makers(p) = {}
  BY <1>1 DEF FriendshipInit, ChatsOfTwo, Makers, Making
<1>3. Cardinality({}) = 0 /\ Cardinality(Requests) \in Nat
  BY FS_EmptySet, FS_CardinalityType
<1>4. \A p \in Pairs :
        Cardinality(ChatsOfTwo(p[1], p[2])) + Cardinality(Makers(p)) <= Cardinality(Requests)
  <2> SUFFICES ASSUME NEW p \in Pairs
               PROVE  Cardinality(ChatsOfTwo(p[1], p[2])) + Cardinality(Makers(p))
                        <= Cardinality(Requests)
    OBVIOUS
  <2>1. Cardinality(ChatsOfTwo(p[1], p[2])) = 0 /\ Cardinality(Makers(p)) = 0
    BY <1>2, <1>3
  <2> QED
    BY <1>3, <2>1
<1> QED
  BY <1>1, <1>4 DEF Counted

\* A pair that has a chat gets it again: second chats come of requests that overlap
\* and no others, so a pair never has more of them than requests run at one time,
\* however they interleave and whichever queries fail.
THEOREM ChatsAreCounted == FriendshipSpec => []ChatsPerPair
<1>1. IInv /\ Counted => ChatsPerPair
  <2> SUFFICES ASSUME IInv, Counted, NEW p \in Pairs
               PROVE  Cardinality(ChatsOfTwo(p[1], p[2])) <= Cardinality(Requests)
    BY DEF ChatsPerPair
  <2> DEFINE chats == Cardinality(ChatsOfTwo(p[1], p[2]))
             makers == Cardinality(Makers(p))
             all == Cardinality(Requests)
  <2>1. chats \in Nat /\ makers \in Nat /\ all \in Nat
    BY FiniteChats
  <2>2. chats + makers <= all
    BY DEF Counted
  <2> HIDE DEF chats, makers, all
  <2>3. chats <= all
    BY <2>1, <2>2
  <2> QED
    BY <2>3 DEF chats, all
<1>2. IInv /\ Counted /\ [FriendshipNext]_fvars => (IInv /\ Counted)'
  BY NextConsent, StepCounts
<1>3. FriendshipInit => IInv /\ Counted
  BY InitConsent, InitCounts
<1> QED
  BY <1>1, <1>2, <1>3, PTL DEF FriendshipSpec

(***************************************************************************)
(* One-sided friends.                                                      *)
(*                                                                         *)
(* An accept writes the row of the one who asked and then the mirrored     *)
(* one.  What it counts on in between, that the row it has read is still   *)
(* there, fails only if somebody ends the friendship meanwhile.            *)
(***************************************************************************)
Mutually(pairs) == \A u, v \in Users : <<u, v>> \in pairs => <<v, u>> \in pairs

AcceptsStand ==
  \A r \in Requests :
    /\ At(r, "accept") => \/ row[<<Target(r), Self(r)>>] # "none"
                          \/ <<Target(r), Self(r)>> \in torn
    /\ At(r, "mirror") => \/ row[<<Target(r), Self(r)>>] = "accepted"
                          \/ <<Target(r), Self(r)>> \in torn

LInv == Mutually(torn) /\ AcceptsStand /\ ListsExplained

\* Whose mirrored row is still to come, apart from the request r.
LEMMA MirroringStays ==
  ASSUME NEW r \in Requests, \A s \in Requests : s # r => req'[s] = req[s],
         NEW by, NEW to, Mirroring(by, to),
         ~(At(r, "mirror") /\ Self(r) = by /\ Target(r) = to)
  PROVE  Mirroring(by, to)'
BY DEF Mirroring

\* A request goes elsewhere, and the rows stay.
LEMMA ListsStay ==
  ASSUME IInv, LInv, NEW r \in Requests, \A s \in Requests : s # r => req'[s] = req[s],
         ~At(r, "mirror"), row' = row, torn' = torn,
         At(r, "accept")' => row[<<Target(r)', Self(r)'>>] # "none",
         ~At(r, "mirror")'
  PROVE  LInv'
<1>1. Mutually(torn)'
  BY DEF LInv, Mutually
<1>2. AcceptsStand'
  BY DEF LInv, AcceptsStand
<1>3. ListsExplained'
  BY MirroringStays DEF LInv, ListsExplained, FriendsOf
<1> QED
  BY <1>1, <1>2, <1>3 DEF LInv

LEMMA StatusLists ==
  ASSUME IInv, LInv, NEW r \in Requests, GetFriendshipStatus(r), torn' = torn
  PROVE  LInv'
<1>1. At(r, "status") /\ row' = row
  BY DEF GetFriendshipStatus
<1>2. CASE Reply(r)
  BY <1>1, <1>2, ReplyEnds, ListsStay DEF Ended
<1>3. ASSUME NEW step \in {"insert", "delete", "find"}, Move(r, step)
      PROVE  LInv'
  BY <1>1, <1>3, MoveMoves, ListsStay DEF Moved, Steps
<1>4. ASSUME NEW p \in StatusRows(Self(r), Target(r)), row[p] = "pending", p[1] = Target(r),
             Move(r, "accept")
      PROVE  LInv'
  <2>1. p = <<Self(r), Target(r)>> \/ p = <<Target(r), Self(r)>>
    BY DEF StatusRows
  <2>2. Self(r) # Target(r) /\ <<Self(r), Target(r)>>[1] = Self(r)
    BY <1>1, Knows
  <2>3. row[<<Target(r), Self(r)>>] # "none"
    BY <1>4, <2>1, <2>2
  <2> QED
    BY <1>1, <1>4, <2>3, MoveMoves, ListsStay DEF Moved, Steps
<1> QED
  BY <1>2, <1>3, <1>4 DEF GetFriendshipStatus, BefriendStatus, UnfriendStatus, ChatStatus

LEMMA AskLists ==
  ASSUME IInv, LInv, NEW r \in Requests, CreateFriendRequest(r), torn' = torn
  PROVE  LInv'
<1> DEFINE st == <<Self(r), Target(r)>>
<1>1. /\ st \in Pairs
      /\ row'[st] = IF row[st] = "none" THEN "pending" ELSE row[st]
      /\ \A p \in Pairs : p # st => row'[p] = row[p]
  BY RowEffects DEF CreateFriendRequest
<1>2. Ended(r) /\ At(r, "insert")
  BY ReplyEnds DEF CreateFriendRequest
<1> HIDE DEF st
<1>3. \A p \in Pairs : /\ row'[p] # "none" \/ row[p] = "none"
                       /\ row'[p] = "accepted" <=> row[p] = "accepted"
                       /\ row[p] = "pending" => row'[p] = "pending"
  BY <1>1
<1>4. AcceptsStand'
  <2> SUFFICES ASSUME NEW s \in Requests, s # r, ~At(s, "idle")
               PROVE  /\ At(s, "accept") => \/ row'[<<Target(s), Self(s)>>] # "none"
                                            \/ <<Target(s), Self(s)>> \in torn
                      /\ At(s, "mirror") => \/ row'[<<Target(s), Self(s)>>] = "accepted"
                                            \/ <<Target(s), Self(s)>> \in torn
    BY <1>2 DEF Ended, AcceptsStand
  <2>1. <<Target(s), Self(s)>> \in Pairs
    BY Knows
  <2> QED
    BY <1>3, <2>1 DEF LInv, AcceptsStand
<1>5. ListsExplained'
  <2> SUFFICES ASSUME NEW u \in Users, NEW v \in Users, u # v, row'[<<u, v>>] = "accepted"
               PROVE  \/ row'[<<v, u>>] = "accepted" \/ Mirroring(v, u)'
                      \/ row'[<<v, u>>] = "pending" \/ <<u, v>> \in torn
    BY DEF ListsExplained, FriendsOf
  <2>1. <<u, v>> \in Pairs /\ <<v, u>> \in Pairs
    BY DEF Pairs
  <2>2. \/ row[<<v, u>>] = "accepted" \/ Mirroring(v, u)
        \/ row[<<v, u>>] = "pending" \/ <<u, v>> \in torn
    BY <1>3, <2>1 DEF LInv, ListsExplained, FriendsOf
  <2>3. Mirroring(v, u) => Mirroring(v, u)'
    BY <1>2, MirroringStays DEF Ended
  <2> QED
    BY <1>3, <2>1, <2>2, <2>3
<1> QED
  BY <1>4, <1>5 DEF LInv, Mutually

LEMMA AcceptLists ==
  ASSUME IInv, LInv, NEW r \in Requests, AcceptFriendRequest(r), torn' = torn
  PROVE  LInv'
<1> DEFINE ts == <<Target(r), Self(r)>>
<1>1. /\ ts \in Pairs
      /\ row'[ts] = IF row[ts] = "none" THEN "none" ELSE "accepted"
      /\ \A p \in Pairs : p # ts => row'[p] = row[p]
  BY RowEffects DEF AcceptFriendRequest
<1>2. Moved(r, "mirror") /\ At(r, "accept")
  BY MoveMoves DEF AcceptFriendRequest, Steps
<1>3. row'[ts] = "accepted" \/ ts \in torn
  BY <1>1, <1>2 DEF LInv, AcceptsStand
<1>4. \A by, to : Self(r) = by /\ Target(r) = to => Mirroring(by, to)'
  BY <1>2 DEF Mirroring, Moved
<1>5. AcceptsStand'
  <2> SUFFICES ASSUME NEW s \in Requests, s # r, ~At(s, "idle")
               PROVE  /\ At(s, "accept") => \/ row'[<<Target(s), Self(s)>>] # "none"
                                            \/ <<Target(s), Self(s)>> \in torn
                      /\ At(s, "mirror") => \/ row'[<<Target(s), Self(s)>>] = "accepted"
                                            \/ <<Target(s), Self(s)>> \in torn
    BY <1>2, <1>3 DEF Moved, AcceptsStand
  <2>1. <<Target(s), Self(s)>> \in Pairs
    BY Knows
  <2> HIDE DEF ts
  <2> QED
    BY <1>1, <2>1 DEF LInv, AcceptsStand
<1> SUFFICES ASSUME NEW u \in Users, NEW v \in Users, u # v, row'[<<u, v>>] = "accepted"
             PROVE  \/ row'[<<v, u>>] = "accepted" \/ Mirroring(v, u)'
                    \/ row'[<<v, u>>] = "pending" \/ <<u, v>> \in torn
  BY <1>5 DEF LInv, Mutually, ListsExplained, FriendsOf
<1>6. <<u, v>> \in Pairs /\ <<v, u>> \in Pairs
  BY DEF Pairs
<1>7. CASE <<u, v>> = ts
  <2>1. v = Self(r) /\ u = Target(r)
    BY <1>7
  <2> QED
    BY <1>4, <2>1
<1>8. CASE <<u, v>> # ts
  <2> HIDE DEF ts
  <2>1. row[<<u, v>>] = "accepted"
    BY <1>1, <1>6, <1>8
  <2>2. \/ row[<<v, u>>] = "accepted" \/ Mirroring(v, u)
        \/ row[<<v, u>>] = "pending" \/ <<u, v>> \in torn
    BY <2>1 DEF LInv, ListsExplained, FriendsOf
  <2>3. Mirroring(v, u) => Mirroring(v, u)'
    BY <1>2, MirroringStays DEF Moved
  <2> QED
    BY <1>1, <1>6, <2>2, <2>3
<1> QED
  BY <1>7, <1>8

LEMMA MirrorLists ==
  ASSUME IInv, LInv, NEW r \in Requests, CreateFriendship(r), torn' = torn
  PROVE  LInv'
<1> DEFINE st == <<Self(r), Target(r)>>
<1>1. /\ st \in Pairs
      /\ row'[st] = IF row[st] = "none" THEN "accepted" ELSE row[st]
      /\ \A p \in Pairs : p # st => row'[p] = row[p]
  BY RowEffects DEF CreateFriendship
<1>2. Ended(r) /\ At(r, "mirror") /\ Self(r) # Target(r)
      /\ Self(r) \in Users /\ Target(r) \in Users
  BY ReplyEnds, Knows DEF CreateFriendship
<1>3. row[<<Target(r), Self(r)>>] = "accepted" \/ <<Self(r), Target(r)>> \in torn
  BY <1>2 DEF LInv, AcceptsStand, Mutually
<1>4. AcceptsStand'
  <2> SUFFICES ASSUME NEW s \in Requests, s # r, ~At(s, "idle")
               PROVE  /\ At(s, "accept") => \/ row'[<<Target(s), Self(s)>>] # "none"
                                            \/ <<Target(s), Self(s)>> \in torn
                      /\ At(s, "mirror") => \/ row'[<<Target(s), Self(s)>>] = "accepted"
                                            \/ <<Target(s), Self(s)>> \in torn
    BY <1>2 DEF Ended, AcceptsStand
  <2>1. <<Target(s), Self(s)>> \in Pairs
    BY Knows
  <2> HIDE DEF st
  <2> QED
    BY <1>1, <2>1 DEF LInv, AcceptsStand
<1> SUFFICES ASSUME NEW u \in Users, NEW v \in Users, u # v, row'[<<u, v>>] = "accepted"
             PROVE  \/ row'[<<v, u>>] = "accepted" \/ Mirroring(v, u)'
                    \/ row'[<<v, u>>] = "pending" \/ <<u, v>> \in torn
  BY <1>4 DEF LInv, Mutually, ListsExplained, FriendsOf
<1>5. <<u, v>> \in Pairs /\ <<v, u>> \in Pairs
  BY DEF Pairs
<1>6. CASE <<u, v>> = st
  <2>1. <<v, u>> # st /\ <<v, u>> = <<Target(r), Self(r)>>
    BY <1>2, <1>6
  <2> QED
    BY <1>1, <1>3, <1>5, <1>6, <2>1
<1>7. CASE <<v, u>> = st
  <2> HIDE DEF st
  <2>1. row[st] \in Statuses
    BY <1>1
  <2> QED
    BY <1>1, <1>7, <2>1
<1>8. CASE <<u, v>> # st /\ <<v, u>> # st
  <2>1. ~(Self(r) = v /\ Target(r) = u)
    BY <1>8
  <2>2. Mirroring(v, u) => Mirroring(v, u)'
    BY <1>2, <2>1, MirroringStays DEF Ended
  <2> HIDE DEF st
  <2> QED
    BY <1>1, <1>5, <1>8, <2>2 DEF LInv, ListsExplained, FriendsOf
<1> QED
  BY <1>6, <1>7, <1>8

LEMMA PairsAre ==
  ASSUME NEW r \in Requests, NEW u, NEW v, <<u, v>> \in PairOf(r)
  PROVE  <<v, u>> \in PairOf(r)
BY DEF PairOf, Between

\* A friendship that ends takes both rows, and the accepts it ends under are marked.
LEMMA PartLists ==
  ASSUME IInv, LInv, NEW r \in Requests, Part(r)
  PROVE  LInv'
<1>1. DeleteFriendship(r) /\ torn' = Marks(torn, r, Overlaps(r, Accepting))
  BY DEF Part
<1>2. /\ \A p \in PairOf(r) : row'[p] = "none"
      /\ \A p \in Pairs : p \notin PairOf(r) => row'[p] = row[p]
  BY <1>1, RowEffects DEF DeleteFriendship, PairOf, Between
<1>3. Moved(r, "lookup") /\ At(r, "delete")
  BY <1>1, MoveMoves DEF DeleteFriendship, Steps
<1>4. \A u, v : <<u, v>> \notin PairOf(r) => (<<u, v>> \in torn' <=> <<u, v>> \in torn)
  BY <1>1 DEF Marks
<1>5. Mutually(torn)'
  <2> SUFFICES ASSUME NEW u \in Users, NEW v \in Users, <<u, v>> \in torn'
               PROVE  <<v, u>> \in torn'
    BY DEF Mutually
  <2>1. CASE <<u, v>> \in PairOf(r)
    <3>1. <<v, u>> \in PairOf(r)
      BY <2>1, PairsAre
    <3> QED
      BY <1>1, <2>1, <3>1 DEF Marks
  <2>2. CASE <<u, v>> \notin PairOf(r)
    <3>1. <<v, u>> \notin PairOf(r)
      BY <2>2 DEF PairOf, Between
    <3> QED
      BY <1>4, <2>2, <3>1 DEF LInv, Mutually
  <2> QED
    BY <2>1, <2>2
<1>6. AcceptsStand'
  <2> SUFFICES ASSUME NEW s \in Requests, s # r, req[s].at \in Accepting
               PROVE  /\ At(s, "accept") => \/ row'[<<Target(s), Self(s)>>] # "none"
                                            \/ <<Target(s), Self(s)>> \in torn'
                      /\ At(s, "mirror") => \/ row'[<<Target(s), Self(s)>>] = "accepted"
                                            \/ <<Target(s), Self(s)>> \in torn'
    BY <1>3 DEF Moved, AcceptsStand, Accepting
  <2>1. <<Target(s), Self(s)>> \in Pairs
    BY Knows DEF Accepting
  <2>2. CASE <<Target(s), Self(s)>> \in PairOf(r)
    <3>1. PairOf(s) = PairOf(r)
      BY <2>2 DEF PairOf, Between
    <3>2. Overlaps(r, Accepting)
      BY <3>1 DEF Overlaps
    <3> QED
      BY <1>1, <2>2, <3>2 DEF Marks
  <2>3. CASE <<Target(s), Self(s)>> \notin PairOf(r)
    BY <1>2, <1>4, <2>1, <2>3 DEF LInv, AcceptsStand
  <2> QED
    BY <2>2, <2>3
<1> SUFFICES ASSUME NEW u \in Users, NEW v \in Users, u # v, row'[<<u, v>>] = "accepted"
             PROVE  \/ row'[<<v, u>>] = "accepted" \/ Mirroring(v, u)'
                    \/ row'[<<v, u>>] = "pending" \/ <<u, v>> \in torn'
  BY <1>5, <1>6 DEF LInv, ListsExplained, FriendsOf
<1>7. <<u, v>> \in Pairs /\ <<v, u>> \in Pairs
  BY DEF Pairs
<1>8. <<u, v>> \notin PairOf(r) /\ <<v, u>> \notin PairOf(r)
  BY <1>2 DEF PairOf, Between
<1>9. Mirroring(v, u) => Mirroring(v, u)'
  BY <1>3, MirroringStays DEF Moved
<1> QED
  BY <1>2, <1>4, <1>7, <1>8, <1>9 DEF LInv, ListsExplained, FriendsOf

\* An accept that fails before its second insert is marked.
LEMMA FailLists ==
  ASSUME IInv, LInv, NEW r \in Requests, Fail(r)
  PROVE  LInv'
<1>1. QueryFails(r) /\ torn' = IF At(r, "mirror") THEN torn \cup PairOf(r) ELSE torn
  BY DEF Fail
<1>2. Ended(r) /\ row' = row
  BY <1>1, ReplyEnds DEF QueryFails
<1>3. torn \subseteq torn'
  BY <1>1
<1>4. Mutually(torn)'
  <2>1. \A u, v : <<u, v>> \in PairOf(r) => <<v, u>> \in PairOf(r)
    BY PairsAre
  <2> QED
    BY <1>1, <2>1 DEF LInv, Mutually
<1>5. AcceptsStand'
  BY <1>2, <1>3 DEF LInv, AcceptsStand, Ended
<1>6. ASSUME NEW u \in Users, NEW v \in Users, Mirroring(v, u)
      PROVE  Mirroring(v, u)' \/ <<u, v>> \in torn'
  <2>1. CASE At(r, "mirror") /\ Self(r) = v /\ Target(r) = u
    BY <1>1, <2>1 DEF PairOf, Between
  <2>2. CASE ~(At(r, "mirror") /\ Self(r) = v /\ Target(r) = u)
    BY <1>2, <1>6, <2>2, MirroringStays DEF Ended
  <2> QED
    BY <2>1, <2>2
<1>7. ListsExplained'
  BY <1>2, <1>3, <1>6 DEF LInv, ListsExplained, FriendsOf
<1> QED
  BY <1>4, <1>5, <1>7 DEF LInv

\* The queries about chats.
LEMMA ChatLists ==
  ASSUME IInv, LInv, NEW r \in Requests, torn' = torn,
         \/ \E kind \in Kinds, p \in Pairs : Arrive(r, kind, p)
         \/ FindChat(r) \/ LookUpChat(r) \/ DeleteChat(r)
         \/ CreateChat(r) \/ CreateChatMember(r)
  PROVE  LInv'
<1>1. row' = row /\ ~At(r, "mirror")
  BY DEF Arrive, FindChat, LookUpChat, DeleteChat, CreateChat, CreateChatMember
<1>2. CASE Reply(r)
  BY <1>1, <1>2, ReplyEnds, ListsStay DEF Ended
<1>3. ASSUME NEW step \in {"create", "joinOther"}, Move(r, step)
      PROVE  LInv'
  BY <1>1, <1>3, MoveMoves, ListsStay DEF Moved, Steps
<1>4. ASSUME NEW step \in {"drop", "join"}, NEW k \in 0..MaxChats, MoveTo(r, step, k)
      PROVE  LInv'
  <2>1. Moved(r, step)
    BY <1>4, MoveToMoves DEF Steps
  <2> QED
    BY <1>1, <2>1, ListsStay DEF Moved
<1>5. ASSUME NEW kind \in Kinds, NEW p \in Pairs, Arrive(r, kind, p)
      PROVE  LInv'
  <2>1. req'[r].at = "status" /\ \A s \in Requests : s # r => req'[s] = req[s]
    BY <1>5 DEF Arrive
  <2> QED
    BY <1>1, <2>1, ListsStay
<1>6. CASE CreateChat(r)
  <2>1. created + 1 \in 0..MaxChats
    BY <1>6 DEF CreateChat
  <2> QED
    BY <1>4, <1>6, <2>1 DEF CreateChat
<1>7. CASE LookUpChat(r)
  BY <1>2, <1>4, <1>7 DEF LookUpChat, ChatsOfTwo
<1> QED
  BY <1>2, <1>3, <1>5, <1>6, <1>7 DEF FindChat, DeleteChat, CreateChatMember

\* What FriendshipRaces remembers changes nothing that the requests do.
LEMMA RacesKeep ==
  ASSUME IInv, [RacesNext]_racesVars
  PROVE  IInv'
<1>1. RacesNext => FriendshipNext
  BY DEF RacesNext, FriendshipNext, Part, LookUp, Fail, Other, Handle
<1>2. UNCHANGED racesVars => UNCHANGED fvars
  BY DEF racesVars
<1> QED
  BY <1>1, <1>2, NextConsent

LEMMA StepLists ==
  ASSUME IInv, LInv, [RacesNext]_racesVars
  PROVE  LInv'
<1>1. CASE UNCHANGED racesVars
  BY <1>1 DEF racesVars, history, LInv, Mutually, AcceptsStand, ListsExplained, FriendsOf, Mirroring
<1>2. ASSUME NEW r \in Requests, LookUp(r)
      PROVE  LInv'
  BY <1>2, ChatLists DEF LookUp
<1>3. ASSUME NEW r \in Requests, Other(r)
      PROVE  LInv'
  <2>1. torn' = torn
    BY <1>3 DEF Other, history
  <2> QED
    BY <1>3, <2>1, ChatLists, StatusLists, AskLists, AcceptLists, MirrorLists DEF Other
<1> QED
  BY <1>1, <1>2, <1>3, PartLists, FailLists DEF RacesNext

\* Who has somebody on the friends list is on that one's list, for any number of
\* users and requests, except while the accept is under way, where each has asked
\* the other at the same moment, and where an unfriending or a failed insert has cut
\* an accept in two.
THEOREM ListsAreExplained == RacesSpec => []ListsExplained
<1>1. RacesInit => IInv /\ LInv
  <2> SUFFICES ASSUME RacesInit PROVE LInv
    BY InitConsent DEF RacesInit
  <2>1. \A r \in Requests : req[r].at = "idle"
    BY DEF RacesInit, FriendshipInit, NoRequest
  <2>2. \A u, v \in Users : v \notin FriendsOf(u)
    BY DEF RacesInit, FriendshipInit, FriendsOf, Pairs
  <2> QED
    BY <2>1, <2>2 DEF RacesInit, LInv, Mutually, AcceptsStand, ListsExplained
<1>2. IInv /\ LInv /\ [RacesNext]_racesVars => (IInv /\ LInv)'
  BY RacesKeep, StepLists
<1> QED
  BY <1>1, <1>2, PTL DEF RacesSpec, LInv

(***************************************************************************)
(* Chats without a friendship.                                             *)
(*                                                                         *)
(* A handler that makes a chat has found the two to be friends, and they   *)
(* stay friends unless somebody ends the friendship meanwhile; whoever     *)
(* does drops a chat they have, if the queries find it.                    *)
(***************************************************************************)
MakersStand ==
  \A r \in Requests :
    req[r].at \in Creating => Friends(Self(r), Target(r)) \/ <<Self(r), Target(r)>> \in stray

CInv == Mutually(stray) /\ MakersStand /\ ChatsExplained

\* What the request r has to drop; others have what they had.
Drops(r, k, u, v) ==
  /\ At(r, "lookup") \/ (At(r, "drop") /\ req[r].chat = k)
  /\ <<Self(r), Target(r)>> \in Between(u, v)

LEMMA ToDropStays ==
  ASSUME NEW r \in Requests, \A s \in Requests : s # r => req'[s] = req[s],
         NEW k, NEW u, NEW v, ToDrop(k, u, v), ~Drops(r, k, u, v)
  PROVE  ToDrop(k, u, v)'
BY DEF ToDrop, Drops

\* No friendship ends.
FriendsStay == \A p \in Pairs : row[p] = "accepted" => row'[p] = "accepted"

LEMMA MakersStayFriends ==
  ASSUME IInv, CInv, NEW r \in Requests, \A s \in Requests : s # r => req'[s] = req[s],
         FriendsStay, stray \subseteq stray',
         req'[r].at \in Creating =>
           (Friends(Self(r), Target(r)) \/ <<Self(r), Target(r)>> \in stray)'
  PROVE  MakersStand'
<1> SUFFICES ASSUME NEW s \in Requests, s # r, req[s].at \in Creating
             PROVE  \/ row'[<<Self(s), Target(s)>>] = "accepted"
                    \/ row'[<<Target(s), Self(s)>>] = "accepted"
                    \/ <<Self(s), Target(s)>> \in stray'
  BY DEF MakersStand, Friends
<1>1. <<Self(s), Target(s)>> \in Pairs /\ <<Target(s), Self(s)>> \in Pairs
  BY Knows DEF Creating
<1> QED
  BY <1>1 DEF CInv, MakersStand, Friends, FriendsStay

\* The chats stay, and so does what accounts for them.
LEMMA ChatsStay ==
  ASSUME IInv, CInv, NEW r \in Requests, \A s \in Requests : s # r => req'[s] = req[s],
         UNCHANGED <<members, live, stray>>, FriendsStay,
         req[r].at \notin {"lookup", "drop"},
         req'[r].at \in Creating =>
           (Friends(Self(r), Target(r)) \/ <<Self(r), Target(r)>> \in stray)'
  PROVE  CInv'
<1>1. MakersStand' /\ Mutually(stray)'
  BY MakersStayFriends DEF CInv, Mutually
<1>2. ChatsExplained'
  <2> SUFFICES ASSUME NEW k \in live, NEW u \in members[k], NEW v \in members[k], u # v
               PROVE  \/ row'[<<u, v>>] = "accepted" \/ row'[<<v, u>>] = "accepted"
                      \/ ToDrop(k, u, v)' \/ <<u, v>> \in stray
    BY DEF ChatsExplained, Friends
  <2>1. <<u, v>> \in Pairs /\ <<v, u>> \in Pairs
    BY DEF Pairs
  <2>2. Friends(u, v) \/ ToDrop(k, u, v) \/ <<u, v>> \in stray
    BY DEF CInv, ChatsExplained
  <2>3. ToDrop(k, u, v) => ToDrop(k, u, v)'
    BY ToDropStays DEF Drops
  <2> QED
    BY <2>1, <2>2, <2>3 DEF Friends, FriendsStay
<1> QED
  BY <1>1, <1>2 DEF CInv

\* Requests that come, look at the status, or write a row.
LEMMA RowChats ==
  ASSUME IInv, CInv, NEW r \in Requests, stray' = stray,
         \/ \E kind \in Kinds, p \in Pairs : Arrive(r, kind, p)
         \/ GetFriendshipStatus(r) \/ CreateFriendRequest(r)
         \/ AcceptFriendRequest(r) \/ CreateFriendship(r)
  PROVE  CInv'
<1>1. /\ UNCHANGED <<members, live>> /\ req[r].at \notin {"lookup", "drop"}
      /\ row' = row \/ ~At(r, "idle")
  BY DEF Arrive, GetFriendshipStatus, CreateFriendRequest, AcceptFriendRequest, CreateFriendship
<1>2. FriendsStay
  <2>1. row' = row => FriendsStay
    BY DEF FriendsStay
  <2>2. CreateFriendRequest(r) \/ AcceptFriendRequest(r) \/ CreateFriendship(r) => FriendsStay
    BY <1>1, RowEffects DEF FriendsStay
  <2> QED
    BY <2>1, <2>2 DEF Arrive, GetFriendshipStatus
<1>3. CASE Reply(r)
  BY <1>1, <1>2, <1>3, ReplyEnds, ChatsStay DEF Ended, Creating
<1>4. ASSUME NEW step \in {"insert", "accept", "mirror", "delete"}, Move(r, step)
      PROVE  CInv'
  BY <1>1, <1>2, <1>4, MoveMoves, ChatsStay DEF Moved, Steps, Creating
<1>5. ASSUME NEW kind \in Kinds, NEW p \in Pairs, Arrive(r, kind, p)
      PROVE  CInv'
  <2>1. req'[r].at = "status" /\ \A s \in Requests : s # r => req'[s] = req[s]
    BY <1>5 DEF Arrive
  <2> QED
    BY <1>1, <1>2, <2>1, ChatsStay DEF Creating
<1>6. ASSUME NEW p \in StatusRows(Self(r), Target(r)), row[p] = "accepted", Move(r, "find"),
             row' = row
      PROVE  CInv'
  <2>1. Friends(Self(r), Target(r))
    BY <1>6 DEF StatusRows, Friends
  <2>2. Moved(r, "find")
    BY <1>6, MoveMoves DEF Steps
  <2>3. Friends(Self(r), Target(r))'
    BY <1>6, <2>1, <2>2 DEF Friends, Moved
  <2> QED
    BY <1>1, <1>2, <2>2, <2>3, ChatsStay DEF Moved
<1>7. CASE GetFriendshipStatus(r)
  BY <1>3, <1>4, <1>6, <1>7
  DEF GetFriendshipStatus, BefriendStatus, UnfriendStatus, ChatStatus
<1> QED
  BY <1>3, <1>4, <1>5, <1>7 DEF CreateFriendRequest, AcceptFriendRequest, CreateFriendship

\* Queries that make a chat: the handler knows the two to be friends, or is marked.
LEMMA FindChats ==
  ASSUME IInv, CInv, NEW r \in Requests, FindChat(r), stray' = stray
  PROVE  CInv'
<1>1. /\ UNCHANGED <<row, members, live>> /\ FriendsStay /\ At(r, "find")
      /\ Friends(Self(r), Target(r)) \/ <<Self(r), Target(r)>> \in stray
  BY DEF FindChat, FriendsStay, CInv, MakersStand, Creating
<1>2. CASE Reply(r)
  BY <1>1, <1>2, ReplyEnds, ChatsStay DEF Ended, Creating
<1>3. CASE Move(r, "create")
  <2>1. Moved(r, "create")
    BY <1>3, MoveMoves DEF Steps
  <2>2. (Friends(Self(r), Target(r)) \/ <<Self(r), Target(r)>> \in stray)'
    BY <1>1, <2>1 DEF Friends, Moved
  <2> QED
    BY <1>1, <2>1, <2>2, ChatsStay DEF Moved
<1> QED
  BY <1>2, <1>3 DEF FindChat

\* Two chats of a pair are more than one.
LEMMA TwoAreMore ==
  ASSUME FriendshipTypeOK, NEW r \in Requests, NEW j, NEW k,
         j \in ChatsOfTwo(Self(r), Target(r)), k \in ChatsOfTwo(Self(r), Target(r)), j # k
  PROVE  Cardinality(ChatsOfTwo(Self(r), Target(r))) > 1
<1> DEFINE chats == ChatsOfTwo(Self(r), Target(r))
<1>1. IsFiniteSet(chats)
  <2>1. chats \subseteq 1..MaxChats
    BY DEF ChatsOfTwo
  <2>2. IsFiniteSet(1..MaxChats)
    BY FS_Interval
  <2> QED
    BY <2>1, <2>2, FS_Subset
<1>2. {j, k} \subseteq chats
  OBVIOUS
<1> HIDE DEF chats
<1>3. IsFiniteSet({j}) /\ Cardinality({j}) = 1
  BY FS_Singleton
<1>4. Cardinality({j, k}) = 2
  <2>1. k \notin {j}
    OBVIOUS
  <2>2. Cardinality({j} \cup {k}) = Cardinality({j}) + 1
    BY <1>3, <2>1, FS_AddElement
  <2>3. {j, k} = {j} \cup {k}
    OBVIOUS
  <2> QED
    BY <1>3, <2>2, <2>3
<1>5. Cardinality({j, k}) <= Cardinality(chats) /\ Cardinality(chats) \in Nat
  BY <1>1, <1>2, FS_Subset, FS_CardinalityType
<1>6. Cardinality(chats) > 1
  BY <1>4, <1>5
<1> QED
  BY <1>6 DEF chats

LEMMA CreateChats ==
  ASSUME IInv, CInv, NEW r \in Requests, CreateChat(r), stray' = stray
  PROVE  CInv'
<1>1. created + 1 \in ChatIds /\ members[created + 1] = {}
  BY DEF CreateChat, Own
<1>2. live' = live \cup {created + 1} /\ members' = members /\ row' = row
  BY DEF CreateChat
<1>3. Moved(r, "join") /\ At(r, "create")
  BY <1>1, MoveToMoves DEF CreateChat, Steps
<1>4. (Friends(Self(r), Target(r)) \/ <<Self(r), Target(r)>> \in stray)'
  BY <1>2, <1>3 DEF CInv, MakersStand, Creating, Friends, Moved
<1>5. MakersStand' /\ Mutually(stray)'
  BY <1>2, <1>3, <1>4, MakersStayFriends DEF CInv, Mutually, Moved, FriendsStay
<1>6. ASSUME NEW k \in live', NEW u \in members'[k], NEW v \in members'[k], u # v
      PROVE  (Friends(u, v) \/ ToDrop(k, u, v) \/ <<u, v>> \in stray)'
  <2>1. k \in live /\ u \in members[k] /\ v \in members[k]
    BY <1>1, <1>2, <1>6
  <2>2. Friends(u, v) \/ ToDrop(k, u, v) \/ <<u, v>> \in stray
    BY <1>6, <2>1 DEF CInv, ChatsExplained
  <2>3. ToDrop(k, u, v) => ToDrop(k, u, v)'
    BY <1>3, ToDropStays DEF Drops, Moved
  <2> QED
    BY <1>2, <2>2, <2>3 DEF Friends
<1> QED
  BY <1>5, <1>6 DEF CInv, ChatsExplained

LEMMA JoinChats ==
  ASSUME IInv, CInv, NEW r \in Requests, CreateChatMember(r), stray' = stray
  PROVE  CInv'
<1>1. PICK c : c = req[r].chat
  OBVIOUS
<1>2. /\ c \in ChatIds /\ live' = live /\ row' = row
      /\ members'[c] \subseteq {Self(r), Target(r)}
      /\ \A j \in ChatIds : j # c => members'[j] = members[j]
      /\ Self(r) \in Users /\ Target(r) \in Users
  BY <1>1, JoinEffects
<1>3. /\ Moved(r, "joinOther") \/ Ended(r)
      /\ req[r].at \in {"join", "joinOther"}
  BY MoveMoves, ReplyEnds DEF CreateChatMember, Steps
<1>4. Friends(Self(r), Target(r)) \/ <<Self(r), Target(r)>> \in stray
  BY <1>3 DEF CInv, MakersStand, Creating
<1>5. MakersStand' /\ Mutually(stray)'
  <2>1. req'[r].at \in Creating =>
          (Friends(Self(r), Target(r)) \/ <<Self(r), Target(r)>> \in stray)'
    BY <1>2, <1>3, <1>4 DEF Friends, Moved, Ended, Creating
  <2> QED
    BY <1>2, <1>3, <2>1, MakersStayFriends DEF CInv, Mutually, Moved, Ended, FriendsStay
<1>6. ASSUME NEW k \in live, NEW u \in members'[k], NEW v \in members'[k], u # v
      PROVE  (Friends(u, v) \/ ToDrop(k, u, v) \/ <<u, v>> \in stray)'
  <2>1. CASE k = c
    <3>1. (u = Self(r) /\ v = Target(r)) \/ (u = Target(r) /\ v = Self(r))
      BY <1>2, <1>6, <2>1
    <3> QED
      BY <1>2, <1>4, <3>1 DEF Friends, CInv, Mutually
  <2>2. CASE k # c
    <3>1. u \in members[k] /\ v \in members[k]
      BY <1>2, <1>6, <2>2
    <3>2. Friends(u, v) \/ ToDrop(k, u, v) \/ <<u, v>> \in stray
      BY <1>6, <3>1 DEF CInv, ChatsExplained
    <3>3. ToDrop(k, u, v) => ToDrop(k, u, v)'
      BY <1>3, ToDropStays DEF Drops, Moved, Ended
    <3> QED
      BY <1>2, <3>2, <3>3 DEF Friends
  <2> QED
    BY <2>1, <2>2
<1> QED
  BY <1>2, <1>5, <1>6 DEF CInv, ChatsExplained

\* A chat that is found is dropped next; if there are more, the pair is marked.
LEMMA LookUpChats ==
  ASSUME IInv, CInv, NEW r \in Requests, LookUp(r)
  PROVE  CInv'
<1> DEFINE chats == ChatsOfTwo(Self(r), Target(r))
<1>1. /\ LookUpChat(r) /\ At(r, "lookup") /\ UNCHANGED <<row, members, live>>
      /\ stray' = IF Cardinality(chats) > 1 THEN stray \cup PairOf(r) ELSE stray
  BY DEF LookUp, LookUpChat
<1>2. /\ Ended(r) \/ Moved(r, "drop")
      /\ \/ chats = {}
         \/ req'[r].chat \in chats /\ Moved(r, "drop")
  BY <1>1, ReplyEnds, MoveToMoves DEF LookUpChat, Steps, ChatsOfTwo
<1>3. stray \subseteq stray' /\ Mutually(stray)'
  BY <1>1, PairsAre DEF CInv, Mutually
<1>4. MakersStand'
  <2>1. req'[r].at \notin Creating /\ FriendsStay
    BY <1>1, <1>2 DEF Ended, Moved, Creating, FriendsStay
  <2> QED
    BY <1>2, <1>3, <2>1, MakersStayFriends DEF Ended, Moved
<1>5. ASSUME NEW k \in live, NEW u \in members[k], NEW v \in members[k], u # v
      PROVE  (Friends(u, v) \/ ToDrop(k, u, v) \/ <<u, v>> \in stray)'
  <2>1. CASE <<Self(r), Target(r)>> \in Between(u, v)
    <3>1. k \in chats /\ <<u, v>> \in PairOf(r)
      BY <2>1 DEF ChatsOfTwo, Between, PairOf
    <3>2. CASE req'[r].chat = k
      BY <1>2, <2>1, <3>1, <3>2 DEF ToDrop, Moved
    <3>3. CASE req'[r].chat # k
      <4>1. req'[r].chat \in chats
        BY <1>2, <3>1
      <4>2. Cardinality(chats) > 1
        BY <3>1, <3>3, <4>1, TwoAreMore
      <4> QED
        BY <1>1, <3>1, <4>2
    <3> QED
      BY <3>2, <3>3
  <2>2. CASE <<Self(r), Target(r)>> \notin Between(u, v)
    <3>1. Friends(u, v) \/ ToDrop(k, u, v) \/ <<u, v>> \in stray
      BY <1>5 DEF CInv, ChatsExplained
    <3>2. ToDrop(k, u, v) => ToDrop(k, u, v)'
      BY <1>2, <2>2, ToDropStays DEF Drops, Moved, Ended
    <3> QED
      BY <1>1, <1>3, <3>1, <3>2 DEF Friends
  <2> QED
    BY <2>1, <2>2
<1> QED
  BY <1>1, <1>3, <1>4, <1>5 DEF CInv, ChatsExplained

\* The chat that was to be dropped is gone, and with it what accounted for it.
LEMMA DropChats ==
  ASSUME IInv, CInv, NEW r \in Requests, DeleteChat(r), stray' = stray
  PROVE  CInv'
<1>1. Ended(r) /\ At(r, "drop") /\ row' = row
  BY ReplyEnds DEF DeleteChat
<1>2. \A k \in live' : k \in live /\ k # req[r].chat /\ members'[k] = members[k]
  BY DEF DeleteChat
<1>3. MakersStand' /\ Mutually(stray)'
  BY <1>1, MakersStayFriends DEF CInv, Mutually, Ended, FriendsStay, Creating
<1>4. ASSUME NEW k \in live', NEW u \in members'[k], NEW v \in members'[k], u # v
      PROVE  (Friends(u, v) \/ ToDrop(k, u, v) \/ <<u, v>> \in stray)'
  <2>1. Friends(u, v) \/ ToDrop(k, u, v) \/ <<u, v>> \in stray
    BY <1>2, <1>4 DEF CInv, ChatsExplained
  <2>2. ToDrop(k, u, v) => ToDrop(k, u, v)'
    BY <1>1, <1>2, ToDropStays DEF Drops, Ended
  <2> QED
    BY <1>1, <2>1, <2>2 DEF Friends
<1> QED
  BY <1>3, <1>4 DEF CInv, ChatsExplained

\* A friendship that ends leaves the chat to be looked up, and the makers of another
\* marked.
LEMMA PartChats ==
  ASSUME IInv, CInv, NEW r \in Requests, Part(r)
  PROVE  CInv'
<1>1. /\ DeleteFriendship(r) /\ UNCHANGED <<members, live>>
      /\ stray' = Marks(stray, r, Overlaps(r, Creating))
  BY DEF Part, DeleteFriendship
<1>2. \A p \in Pairs : p \notin PairOf(r) => row'[p] = row[p]
  BY <1>1, RowEffects DEF DeleteFriendship, PairOf, Between
<1>3. Moved(r, "lookup") /\ At(r, "delete")
  BY <1>1, MoveMoves DEF DeleteFriendship, Steps
<1>4. \A u, v : <<u, v>> \notin PairOf(r) => (<<u, v>> \in stray' <=> <<u, v>> \in stray)
  BY <1>1 DEF Marks
<1>5. Mutually(stray)'
  <2> SUFFICES ASSUME NEW u \in Users, NEW v \in Users, <<u, v>> \in stray'
               PROVE  <<v, u>> \in stray'
    BY DEF Mutually
  <2>1. CASE <<u, v>> \in PairOf(r)
    <3>1. <<v, u>> \in PairOf(r)
      BY <2>1, PairsAre
    <3> QED
      BY <1>1, <2>1, <3>1 DEF Marks
  <2>2. CASE <<u, v>> \notin PairOf(r)
    <3>1. <<v, u>> \notin PairOf(r)
      BY <2>2 DEF PairOf, Between
    <3> QED
      BY <1>4, <2>2, <3>1 DEF CInv, Mutually
  <2> QED
    BY <2>1, <2>2
<1>6. MakersStand'
  <2> SUFFICES ASSUME NEW s \in Requests, s # r, req[s].at \in Creating
               PROVE  \/ row'[<<Self(s), Target(s)>>] = "accepted"
                      \/ row'[<<Target(s), Self(s)>>] = "accepted"
                      \/ <<Self(s), Target(s)>> \in stray'
    BY <1>3 DEF Moved, MakersStand, Creating, Friends
  <2>1. <<Self(s), Target(s)>> \in Pairs /\ <<Target(s), Self(s)>> \in Pairs
    BY Knows DEF Creating
  <2>2. CASE <<Self(s), Target(s)>> \in PairOf(r)
    <3>1. PairOf(s) = PairOf(r)
      BY <2>2 DEF PairOf, Between
    <3>2. Overlaps(r, Creating)
      BY <3>1 DEF Overlaps
    <3> QED
      BY <1>1, <2>2, <3>2 DEF Marks
  <2>3. CASE <<Self(s), Target(s)>> \notin PairOf(r)
    <3>1. <<Target(s), Self(s)>> \notin PairOf(r)
      BY <2>3 DEF PairOf, Between
    <3> QED
      BY <1>2, <1>4, <2>1, <2>3, <3>1 DEF CInv, MakersStand, Friends
  <2> QED
    BY <2>2, <2>3
<1>7. ASSUME NEW k \in live, NEW u \in members[k], NEW v \in members[k], u # v
      PROVE  (Friends(u, v) \/ ToDrop(k, u, v) \/ <<u, v>> \in stray)'
  <2>1. <<u, v>> \in Pairs /\ <<v, u>> \in Pairs
    BY <1>7 DEF Pairs
  <2>2. CASE <<u, v>> \in PairOf(r)
    <3>1. <<Self(r), Target(r)>> \in Between(u, v)
      BY <2>2 DEF PairOf, Between
    <3> QED
      BY <1>3, <3>1 DEF ToDrop, Moved
  <2>3. CASE <<u, v>> \notin PairOf(r)
    <3>1. <<v, u>> \notin PairOf(r)
      BY <2>3 DEF PairOf, Between
    <3>2. Friends(u, v) \/ ToDrop(k, u, v) \/ <<u, v>> \in stray
      BY <1>7 DEF CInv, ChatsExplained
    <3>3. ToDrop(k, u, v) => ToDrop(k, u, v)'
      BY <1>3, ToDropStays DEF Drops, Moved
    <3> QED
      BY <1>2, <1>4, <2>1, <2>3, <3>1, <3>2, <3>3 DEF Friends
  <2> QED
    BY <2>2, <2>3
<1> QED
  BY <1>1, <1>5, <1>6, <1>7 DEF CInv, ChatsExplained

\* An unfriending that fails with the chat still there is marked.
LEMMA FailChats ==
  ASSUME IInv, CInv, NEW r \in Requests, Fail(r)
  PROVE  CInv'
<1>1. /\ QueryFails(r) /\ UNCHANGED <<row, members, live>>
      /\ stray' = IF At(r, "lookup") \/ At(r, "drop") THEN stray \cup PairOf(r) ELSE stray
  BY DEF Fail, QueryFails
<1>2. Ended(r) /\ FriendsStay
  BY <1>1, ReplyEnds DEF QueryFails, FriendsStay
<1>3. stray \subseteq stray' /\ Mutually(stray)'
  BY <1>1, PairsAre DEF CInv, Mutually
<1>4. MakersStand'
  BY <1>2, <1>3, MakersStayFriends DEF Ended, Creating
<1>5. ASSUME NEW k \in live, NEW u \in members[k], NEW v \in members[k], u # v
      PROVE  (Friends(u, v) \/ ToDrop(k, u, v) \/ <<u, v>> \in stray)'
  <2>1. CASE Drops(r, k, u, v)
    <3>1. <<u, v>> \in PairOf(r)
      BY <2>1 DEF Drops, PairOf, Between
    <3> QED
      BY <1>1, <2>1, <3>1 DEF Drops
  <2>2. CASE ~Drops(r, k, u, v)
    <3>1. Friends(u, v) \/ ToDrop(k, u, v) \/ <<u, v>> \in stray
      BY <1>5 DEF CInv, ChatsExplained
    <3>2. ToDrop(k, u, v) => ToDrop(k, u, v)'
      BY <1>2, <2>2, ToDropStays DEF Ended
    <3> QED
      BY <1>1, <1>3, <3>1, <3>2 DEF Friends
  <2> QED
    BY <2>1, <2>2
<1> QED
  BY <1>1, <1>3, <1>4, <1>5 DEF CInv, ChatsExplained

LEMMA StepChats ==
  ASSUME IInv, CInv, [RacesNext]_racesVars
  PROVE  CInv'
<1>1. CASE UNCHANGED racesVars
  <2>1. UNCHANGED <<row, members, live, req, stray>>
    BY <1>1 DEF racesVars, history
  <2>2. Mutually(stray)' /\ MakersStand'
    BY <2>1 DEF CInv, Mutually, MakersStand, Friends
  <2>3. ChatsExplained'
    BY <2>1 DEF CInv, ChatsExplained, Friends, ToDrop
  <2> QED
    BY <2>2, <2>3 DEF CInv
<1>2. ASSUME NEW r \in Requests, Other(r)
      PROVE  CInv'
  <2>1. stray' = stray
    BY <1>2 DEF Other, history
  <2> QED
    BY <1>2, <2>1, RowChats, FindChats, CreateChats, JoinChats, DropChats DEF Other
<1> QED
  BY <1>1, <1>2, PartChats, LookUpChats, FailChats DEF RacesNext

\* A chat joins friends, for any number of users, requests and chats, or a request is
\* on its way to drop it, except where the friendship ended under a handler that had
\* found the two friends, or left a second chat, or a query of the unfriending failed.
THEOREM ChatsAreExplained == RacesSpec => []ChatsExplained
<1>1. RacesInit => IInv /\ CInv
  <2> SUFFICES ASSUME RacesInit PROVE CInv
    BY InitConsent DEF RacesInit
  <2>1. \A r \in Requests : req[r].at = "idle"
    BY DEF RacesInit, FriendshipInit, NoRequest
  <2> QED
    BY <2>1 DEF RacesInit, FriendshipInit, CInv, Mutually, MakersStand, Creating, ChatsExplained
<1>2. IInv /\ CInv /\ [RacesNext]_racesVars => (IInv /\ CInv)'
  BY RacesKeep, StepChats
<1> QED
  BY <1>1, <1>2, PTL DEF RacesSpec, CInv
================================================================================
