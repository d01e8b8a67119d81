--------------------------- MODULE FriendshipProofs ---------------------------
(***************************************************************************)
(* Consent, for any number of users, requests and chats: nobody becomes a  *)
(* friend of somebody who has not asked, and nobody shares a chat with     *)
(* somebody who was not a friend once.                                     *)
(*                                                                         *)
(* A handler acts on a status it has read some queries ago, so what makes  *)
(* the two properties inductive is what its place in the code remembers:   *)
(* Remembered says who must have asked by then, Own that the chat a        *)
(* handler is filling is its own and has no other members yet.             *)
(***************************************************************************)
EXTENDS Friendship, TLAPS

\* The handlers that found the two to be friends, or to become friends.
Mutual == {"accept", "mirror", "find", "create", "join", "joinOther"}

BothAsked(u, v) == {<<u, v>>, <<v, u>>} \subseteq asked

\* A row is there for a reason.
RowsAsked ==
  \A p \in Pairs :
    /\ row[p] = "pending" => p \in asked
    /\ row[p] = "accepted" => BothAsked(p[1], p[2])

Remembered ==
  \A r \in Requests :
    /\ req[r].at # "idle" => <<Self(r), Target(r)>> \in Pairs
    /\ req[r].at = "insert" => <<Self(r), Target(r)>> \in asked
    /\ req[r].at = "status" /\ req[r].kind = "befriend" => <<Self(r), Target(r)>> \in asked
    /\ req[r].at \in Mutual => BothAsked(Self(r), Target(r))

Filling(r) == req[r].at \in {"join", "joinOther"}

Own ==
  /\ \A r \in Requests : Filling(r) =>
       /\ req[r].chat \in 1..created
       /\ members[req[r].chat] \subseteq {Self(r), Target(r)}
  /\ \A r, s \in Requests : Filling(r) /\ Filling(s) /\ r # s => req[r].chat # req[s].chat
  /\ \A k \in ChatIds : k > created => members[k] = {}

\* ConsentBeforeChat, of the chats that were deleted too.
MembersAsked ==
  \A k \in ChatIds : \A u, v \in members[k] : u # v => BothAsked(u, v)

IInv == FriendshipTypeOK /\ RowsAsked /\ Remembered /\ Own /\ MembersAsked

\* At the start there is nothing to consent to.
LEMMA InitConsent == FriendshipInit => IInv
<1>1. (CHOOSE u \in Users : TRUE) \in Users
  BY FriendshipConstants
<1> SUFFICES ASSUME FriendshipInit PROVE IInv
  OBVIOUS
<1> USE FriendshipConstants DEF FriendshipInit
<1>2. FriendshipTypeOK
  <2>1. NoRequest \in RequestStates
    BY <1>1 DEF NoRequest, RequestStates, Steps, AllKinds
  <2> QED
    BY <2>1 DEF FriendshipTypeOK, Statuses, ChatIds
<1>3. RowsAsked
  BY DEF RowsAsked
<1>4. \A r \in Requests : req[r].at = "idle"
  BY DEF NoRequest
<1>5. Remembered
  BY <1>4 DEF Remembered, Mutual
<1>6. Own
  BY <1>4 DEF Own, Filling
<1>7. MembersAsked
  BY DEF MembersAsked
<1> QED
  BY <1>2, <1>3, <1>5, <1>6, <1>7 DEF IInv

(***************************************************************************)
(* How a request moves on.                                                 *)
(***************************************************************************)

\* Only the request r moves, to step, and stays what it is.
Moved(r, step) ==
  /\ req' \in [Requests -> RequestStates]
  /\ \A s \in Requests : s # r => req'[s] = req[s]
  /\ req'[r].at = step
  /\ req'[r].kind = req[r].kind /\ req'[r].by = req[r].by /\ req'[r].to = req[r].to

\* Only the request r ends.
Ended(r) ==
  /\ req' \in [Requests -> RequestStates]
  /\ \A s \in Requests : s # r => req'[s] = req[s]
  /\ req'[r].at = "idle"

LEMMA MoveMoves ==
  ASSUME FriendshipTypeOK, NEW r \in Requests, NEW step \in Steps, Move(r, step)
  PROVE  Moved(r, step) /\ req'[r].chat = req[r].chat
<1> DEFINE q == [req[r] EXCEPT !.at = step]
<1>1. req[r] \in RequestStates /\ req \in [Requests -> RequestStates]
  BY DEF FriendshipTypeOK
<1>2. /\ q \in RequestStates /\ q.at = step /\ q.kind = req[r].kind
      /\ q.by = req[r].by /\ q.to = req[r].to /\ q.chat = req[r].chat
  BY <1>1 DEF RequestStates
<1>3. req' = [req EXCEPT ![r] = q]
  BY DEF Move
<1> HIDE DEF q
<1> QED
  BY <1>1, <1>2, <1>3 DEF Moved

LEMMA MoveToMoves ==
  ASSUME FriendshipTypeOK, NEW r \in Requests, NEW step \in Steps, NEW k \in 0..MaxChats,
         MoveTo(r, step, k)
  PROVE  Moved(r, step) /\ req'[r].chat = k
<1> DEFINE q == [req[r] EXCEPT !.at = step, !.chat = k]
<1>1. req[r] \in RequestStates /\ req \in [Requests -> RequestStates]
  BY DEF FriendshipTypeOK
<1>2. /\ q \in RequestStates /\ q.at = step /\ q.kind = req[r].kind
      /\ q.by = req[r].by /\ q.to = req[r].to /\ q.chat = k
  BY <1>1 DEF RequestStates
<1>3. req' = [req EXCEPT ![r] = q]
  BY DEF MoveTo
<1> HIDE DEF q
<1> QED
  BY <1>1, <1>2, <1>3 DEF Moved

LEMMA ReplyEnds ==
  ASSUME FriendshipTypeOK, NEW r \in Requests, Reply(r)
  PROVE  Ended(r)
<1>1. (CHOOSE u \in Users : TRUE) \in Users
  BY FriendshipConstants
<1>2. NoRequest \in RequestStates /\ NoRequest.at = "idle"
  BY <1>1, FriendshipConstants DEF NoRequest, RequestStates, Steps, AllKinds
<1> QED
  BY <1>2 DEF Reply, Ended, FriendshipTypeOK

(***************************************************************************)
(* Each query keeps what is known.                                         *)
(***************************************************************************)
USE FriendshipConstants
    DEF IInv, FriendshipTypeOK, Statuses, ChatIds, tables, fvars,
        At, Self, Target, BothAsked, Filling

\* What a handler in the middle of its work knows.
LEMMA Knows ==
  ASSUME IInv, NEW r \in Requests, ~At(r, "idle")
  PROVE  /\ Self(r) \in Users /\ Target(r) \in Users /\ Self(r) # Target(r)
         /\ <<Self(r), Target(r)>> \in Pairs /\ <<Target(r), Self(r)>> \in Pairs
         /\ req[r].at \in Mutual => BothAsked(Self(r), Target(r))
<1>1. <<Self(r), Target(r)>> \in Pairs /\ (req[r].at \in Mutual => BothAsked(Self(r), Target(r)))
  BY DEF Remembered
<1> QED
  BY <1>1 DEF Pairs

LEMMA ArriveConsent ==
  ASSUME IInv, NEW r \in Requests, NEW kind \in Kinds, NEW p \in Pairs, Arrive(r, kind, p)
  PROVE  IInv'
<1> DEFINE q == [at |-> "status", kind |-> kind, by |-> p[1], to |-> p[2], chat |-> 0]
<1>1. p[1] \in Users /\ p[2] \in Users /\ <<p[1], p[2]>> = p
  BY DEF Pairs
<1>2. q \in RequestStates /\ q.at = "status" /\ q.kind = kind /\ q.by = p[1] /\ q.to = p[2]
  BY <1>1 DEF RequestStates, Steps
<1>3. req' = [req EXCEPT ![r] = q]
  BY DEF Arrive
<1> HIDE DEF q
<1>4. req' \in [Requests -> RequestStates] /\ req'[r] = q
      /\ \A s \in Requests : s # r => req'[s] = req[s]
  BY <1>2, <1>3
<1>5. asked \subseteq asked' /\ asked' \in SUBSET Pairs /\ (kind = "befriend" => p \in asked')
      /\ UNCHANGED tables
  BY DEF Arrive
<1>6. FriendshipTypeOK'
  BY <1>4, <1>5
<1>7. RowsAsked' /\ MembersAsked'
  BY <1>5 DEF RowsAsked, MembersAsked
<1>8. Remembered'
  BY <1>1, <1>2, <1>4, <1>5 DEF Remembered, Mutual
<1>9. Own'
  BY <1>2, <1>4, <1>5 DEF Own
<1> QED
  BY <1>6, <1>7, <1>8, <1>9

\* A handler answers, or gives up; the tables may have changed, the chats not.
LEMMA EndKeeps ==
  ASSUME IInv, NEW r \in Requests, Ended(r), UNCHANGED <<members, created, asked>>
  PROVE  Remembered' /\ Own' /\ MembersAsked' /\ req' \in [Requests -> RequestStates]
<1>1. Remembered'
  BY DEF Ended, Remembered, Mutual
<1>2. Own'
  BY DEF Ended, Own
<1> QED
  BY <1>1, <1>2 DEF MembersAsked, Ended

\* A handler moves on to a step that needs no more than it knows.
LEMMA MoveKeeps ==
  ASSUME IInv, NEW r \in Requests, NEW step, Moved(r, step),
         UNCHANGED <<members, created, asked>>,
         ~At(r, "idle"),
         step \notin {"idle", "status", "join", "joinOther"},
         step = "insert" => <<Self(r), Target(r)>> \in asked,
         step \in Mutual => BothAsked(Self(r), Target(r))
  PROVE  Remembered' /\ Own' /\ MembersAsked' /\ req' \in [Requests -> RequestStates]
<1>1. Remembered'
  <2> SUFFICES ASSUME NEW s \in Requests
               PROVE  /\ req'[s].at # "idle" => <<Self(s)', Target(s)'>> \in Pairs
                      /\ req'[s].at = "insert" => <<Self(s)', Target(s)'>> \in asked
                      /\ req'[s].at = "status" /\ req'[s].kind = "befriend"
                           => <<Self(s)', Target(s)'>> \in asked
                      /\ req'[s].at \in Mutual => BothAsked(Self(s)', Target(s)')
    BY DEF Remembered
  <2>1. CASE s = r
    BY <2>1, Knows DEF Moved
  <2>2. CASE s # r
    BY <2>2 DEF Moved, Remembered
  <2> QED
    BY <2>1, <2>2
<1>2. Own'
  BY SMTT(40) DEF Moved, Own
<1> QED
  BY <1>1, <1>2 DEF MembersAsked, Moved

LEMMA ReplyConsent ==
  ASSUME IInv, NEW r \in Requests, Reply(r), UNCHANGED <<tables, asked>>
  PROVE  IInv'
<1>1. Remembered' /\ Own' /\ MembersAsked' /\ req' \in [Requests -> RequestStates]
  BY ReplyEnds, EndKeeps
<1>2. RowsAsked'
  BY DEF RowsAsked
<1> QED
  BY <1>1, <1>2

LEMMA MoveConsent ==
  ASSUME IInv, NEW r \in Requests, NEW step \in Steps, Move(r, step),
         UNCHANGED <<tables, asked>>,
         ~At(r, "idle"),
         step \notin {"idle", "status", "join", "joinOther"},
         step = "insert" => <<Self(r), Target(r)>> \in asked,
         step \in Mutual => BothAsked(Self(r), Target(r))
  PROVE  IInv'
<1>1. Remembered' /\ Own' /\ MembersAsked' /\ req' \in [Requests -> RequestStates]
  BY MoveMoves, MoveKeeps
<1>2. RowsAsked'
  BY DEF RowsAsked
<1> QED
  BY <1>1, <1>2

LEMMA StatusConsent ==
  ASSUME IInv, NEW r \in Requests, GetFriendshipStatus(r)
  PROVE  IInv'
<1> DEFINE rows == StatusRows(Self(r), Target(r))
<1>0. At(r, "status") /\ UNCHANGED <<tables, asked>>
  BY DEF GetFriendshipStatus
<1>1. CASE Reply(r)
  BY <1>0, <1>1, ReplyConsent
<1>2. CASE rows = {} /\ req[r].kind = "befriend" /\ Move(r, "insert")
  <2>1. <<Self(r), Target(r)>> \in asked
    BY <1>0, <1>2 DEF Remembered
  <2> QED
    BY <1>0, <1>2, <2>1, MoveConsent DEF Mutual, Steps
<1>3. ASSUME NEW p \in rows, req[r].kind = "befriend" /\ BefriendStatus(r, p), ~Reply(r)
      PROVE  IInv'
  <2>1. row[p] = "pending" /\ p[1] = Target(r) /\ Move(r, "accept")
    BY <1>3 DEF BefriendStatus
  <2>a. p \in Pairs /\ (p = <<Self(r), Target(r)>> \/ p = <<Target(r), Self(r)>>)
    BY <1>0, Knows DEF StatusRows
  <2>b. Self(r) # Target(r) /\ <<Self(r), Target(r)>>[1] = Self(r)
    BY <1>0, Knows
  <2>2. p = <<Target(r), Self(r)>> /\ p \in Pairs
    BY <2>1, <2>a, <2>b
  <2>3. <<Self(r), Target(r)>> \in asked
    BY <1>0, <1>3 DEF Remembered
  <2>4. BothAsked(Self(r), Target(r))
    BY <2>1, <2>2, <2>3 DEF RowsAsked
  <2> QED
    BY <1>0, <2>1, <2>4, MoveConsent DEF Steps
<1>4. ASSUME NEW p \in rows, req[r].kind = "unfriend" /\ UnfriendStatus(r, p), ~Reply(r)
      PROVE  IInv'
  <2>1. Move(r, "delete")
    BY <1>4 DEF UnfriendStatus
  <2> QED
    BY <1>0, <2>1, MoveConsent DEF Mutual, Steps
<1>5. ASSUME NEW p \in rows, req[r].kind = "chat" /\ ChatStatus(r, p), ~Reply(r)
      PROVE  IInv'
  <2>1. row[p] = "accepted" /\ Move(r, "find")
    BY <1>5 DEF ChatStatus
  <2>2. p \in Pairs /\ (p = <<Self(r), Target(r)>> \/ p = <<Target(r), Self(r)>>)
    BY <1>0, Knows DEF StatusRows
  <2>3. {<<p[1], p[2]>>, <<p[2], p[1]>>} \subseteq asked
    BY <2>1, <2>2 DEF RowsAsked
  <2>4. CASE p = <<Self(r), Target(r)>>
    <3>1. p[1] = Self(r) /\ p[2] = Target(r)
      BY <2>4
    <3> QED
      BY <1>0, <2>1, <2>3, <3>1, MoveConsent DEF Steps
  <2>5. CASE p = <<Target(r), Self(r)>>
    <3>1. p[1] = Target(r) /\ p[2] = Self(r)
      BY <2>5
    <3> QED
      BY <1>0, <2>1, <2>3, <3>1, MoveConsent DEF Steps
  <2> QED
    BY <2>2, <2>4, <2>5
<1> QED
  BY <1>1, <1>2, <1>3, <1>4, <1>5 DEF GetFriendshipStatus

\* The queries on the table friends.
LEMMA RowConsent ==
  ASSUME IInv, NEW r \in Requests,
         \/ CreateFriendRequest(r) \/ AcceptFriendRequest(r)
         \/ CreateFriendship(r) \/ DeleteFriendship(r)
  PROVE  IInv'
<1>0. ~At(r, "idle") /\ <<Self(r), Target(r)>> \in Pairs /\ <<Target(r), Self(r)>> \in Pairs
  BY Knows DEF CreateFriendRequest, AcceptFriendRequest, CreateFriendship, DeleteFriendship
<1>1. CASE CreateFriendRequest(r)
  <2>1. /\ row' = [row EXCEPT ![<<Self(r), Target(r)>>] = IF @ = "none" THEN "pending" ELSE @]
        /\ UNCHANGED <<members, live, created, asked>>
    BY <1>1 DEF CreateFriendRequest, Insert
  <2>2. <<Self(r), Target(r)>> \in asked
    BY <1>0, <1>1, Knows DEF CreateFriendRequest, Mutual, Remembered
  <2>3. RowsAsked'
    <3> SUFFICES ASSUME NEW p \in Pairs
                 PROVE  /\ row'[p] = "pending" => p \in asked
                        /\ row'[p] = "accepted" => BothAsked(p[1], p[2])
      BY <2>1 DEF RowsAsked
    <3>1. CASE p = <<Self(r), Target(r)>>
      <4>1. p[1] = Self(r) /\ p[2] = Target(r)
        BY <3>1
      <4> QED
        BY <1>0, <2>1, <2>2, <3>1, <4>1 DEF RowsAsked
    <3>2. CASE p # <<Self(r), Target(r)>>
      BY <1>0, <2>1, <3>2 DEF RowsAsked
    <3> QED
      BY <3>1, <3>2
  <2>4. Remembered' /\ Own' /\ MembersAsked' /\ req' \in [Requests -> RequestStates]
    BY <1>1, <2>1, ReplyEnds, EndKeeps DEF CreateFriendRequest
  <2>5. row' \in [Pairs -> Statuses]
    BY <1>0, <2>1
  <2> QED
    BY <2>1, <2>3, <2>4, <2>5
<1>2. CASE AcceptFriendRequest(r)
  <2>1. /\ row' = [row EXCEPT ![<<Target(r), Self(r)>>] = IF @ = "none" THEN @ ELSE "accepted"]
        /\ UNCHANGED <<members, live, created, asked>>
    BY <1>2 DEF AcceptFriendRequest, Insert
  <2>2. BothAsked(Self(r), Target(r))
    BY <1>0, <1>2, Knows DEF AcceptFriendRequest, Mutual, Remembered
  <2>3. RowsAsked'
    <3> SUFFICES ASSUME NEW p \in Pairs
                 PROVE  /\ row'[p] = "pending" => p \in asked
                        /\ row'[p] = "accepted" => BothAsked(p[1], p[2])
      BY <2>1 DEF RowsAsked
    <3>1. CASE p = <<Target(r), Self(r)>>
      <4>1. p[1] = Target(r) /\ p[2] = Self(r)
        BY <3>1
      <4> QED
        BY <1>0, <2>1, <2>2, <3>1, <4>1 DEF RowsAsked
    <3>2. CASE p # <<Target(r), Self(r)>>
      BY <1>0, <2>1, <3>2 DEF RowsAsked
    <3> QED
      BY <3>1, <3>2
  <2>4. Remembered' /\ Own' /\ MembersAsked' /\ req' \in [Requests -> RequestStates]
    BY <1>2, <2>1, <2>2, MoveMoves, MoveKeeps DEF AcceptFriendRequest, Mutual, Steps
  <2>5. row' \in [Pairs -> Statuses]
    BY <1>0, <2>1
  <2> QED
    BY <2>1, <2>3, <2>4, <2>5
<1>3. CASE CreateFriendship(r)
  <2>1. /\ row' = [row EXCEPT ![<<Self(r), Target(r)>>] = IF @ = "none" THEN "accepted" ELSE @]
        /\ UNCHANGED <<members, live, created, asked>>
    BY <1>3 DEF CreateFriendship, Insert
  <2>2. BothAsked(Self(r), Target(r))
    BY <1>0, <1>3, Knows DEF CreateFriendship, Mutual, Remembered
  <2>3. RowsAsked'
    <3> SUFFICES ASSUME NEW p \in Pairs
                 PROVE  /\ row'[p] = "pending" => p \in asked
                        /\ row'[p] = "accepted" => BothAsked(p[1], p[2])
      BY <2>1 DEF RowsAsked
    <3>1. CASE p = <<Self(r), Target(r)>>
      <4>1. p[1] = Self(r) /\ p[2] = Target(r)
        BY <3>1
      <4> QED
        BY <1>0, <2>1, <2>2, <3>1, <4>1 DEF RowsAsked
    <3>2. CASE p # <<Self(r), Target(r)>>
      BY <1>0, <2>1, <3>2 DEF RowsAsked
    <3> QED
      BY <3>1, <3>2
  <2>4. Remembered' /\ Own' /\ MembersAsked' /\ req' \in [Requests -> RequestStates]
    BY <1>3, <2>1, ReplyEnds, EndKeeps DEF CreateFriendship
  <2>5. row' \in [Pairs -> Statuses]
    BY <1>0, <2>1
  <2> QED
    BY <2>1, <2>3, <2>4, <2>5
<1>4. CASE DeleteFriendship(r)
  <2>1. /\ row' = [row EXCEPT ![<<Self(r), Target(r)>>] = "none", ![<<Target(r), Self(r)>>] = "none"]
        /\ UNCHANGED <<members, live, created, asked>>
    BY <1>4 DEF DeleteFriendship
  <2>2. row' = [p \in Pairs |-> IF p \in {<<Self(r), Target(r)>>, <<Target(r), Self(r)>>} THEN "none" ELSE row[p]]
    BY <1>0, <2>1
  <2>3. RowsAsked'
    <3>1. \A p \in Pairs : row'[p] = "none" \/ row'[p] = row[p]
      BY <2>2
    <3> QED
      BY <2>1, <3>1 DEF RowsAsked
  <2>4. Remembered' /\ Own' /\ MembersAsked' /\ req' \in [Requests -> RequestStates]
    BY <1>0, <1>4, <2>1, MoveMoves, MoveKeeps DEF DeleteFriendship, Mutual, Steps
  <2>5. row' \in [Pairs -> Statuses]
    BY <2>2
  <2> QED
    BY <2>1, <2>3, <2>4, <2>5
<1> QED
  BY <1>1, <1>2, <1>3, <1>4

\* The queries on the tables chats and chat_members.
LEMMA FindConsent ==
  ASSUME IInv, NEW r \in Requests, FindChat(r)
  PROVE  IInv'
<1>1. At(r, "find") /\ UNCHANGED <<tables, asked>>
  BY DEF FindChat
<1>2. CASE Reply(r)
  BY <1>1, <1>2, ReplyConsent
<1>3. CASE Move(r, "create")
  <2>1. BothAsked(Self(r), Target(r))
    BY <1>1, Knows DEF Mutual
  <2> QED
    BY <1>1, <1>3, <2>1, MoveConsent DEF Steps
<1> QED
  BY <1>2, <1>3 DEF FindChat

LEMMA LookUpConsent ==
  ASSUME IInv, NEW r \in Requests, LookUpChat(r)
  PROVE  IInv'
<1>1. At(r, "lookup") /\ UNCHANGED <<tables, asked>>
  BY DEF LookUpChat
<1>2. CASE Reply(r)
  BY <1>1, <1>2, ReplyConsent
<1>3. ASSUME NEW k \in ChatsOfTwo(Self(r), Target(r)), MoveTo(r, "drop", k)
      PROVE  IInv'
  <2>1. k \in 0..MaxChats
    BY DEF ChatsOfTwo
  <2>2. Moved(r, "drop")
    BY <1>3, <2>1, MoveToMoves DEF Steps
  <2>3. Remembered' /\ Own' /\ MembersAsked' /\ req' \in [Requests -> RequestStates]
    BY <1>1, <2>2, MoveKeeps DEF Mutual
  <2>4. RowsAsked'
    BY <1>1 DEF RowsAsked
  <2> QED
    BY <1>1, <2>3, <2>4
<1> QED
  BY <1>2, <1>3 DEF LookUpChat

LEMMA DropConsent ==
  ASSUME IInv, NEW r \in Requests, DeleteChat(r)
  PROVE  IInv'
<1>1. /\ members' = [members EXCEPT ![req[r].chat] = {}]
      /\ live' \in SUBSET ChatIds
      /\ UNCHANGED <<row, created, asked>>
  BY DEF DeleteChat
<1>2. Ended(r)
  BY ReplyEnds DEF DeleteChat
<1>3. /\ members' \in [ChatIds -> SUBSET Users]
      /\ \A k \in ChatIds : members'[k] \subseteq members[k]
  BY <1>1
<1>4. RowsAsked'
  BY <1>1 DEF RowsAsked
<1>5. Remembered'
  BY <1>1, <1>2 DEF Ended, Remembered, Mutual
<1>6. Own'
  <2>1. \A s \in Requests : Filling(s)' =>
          Filling(s) /\ req'[s] = req[s] /\ req[s].chat \in ChatIds
    BY <1>2 DEF Ended, Own
  <2> QED
    BY <1>1, <1>3, <2>1 DEF Own
<1>7. MembersAsked'
  BY <1>1, <1>3 DEF MembersAsked
<1> QED
  BY <1>1, <1>2, <1>3, <1>4, <1>5, <1>6, <1>7 DEF Ended

LEMMA CreateConsent ==
  ASSUME IInv, NEW r \in Requests, CreateChat(r)
  PROVE  IInv'
<1>1. /\ created \in Nat /\ created' = created + 1
      /\ created' \in ChatIds /\ created' \in 0..MaxChats
      /\ live' = live \cup {created + 1} /\ UNCHANGED <<row, members, asked>>
  BY DEF CreateChat
<1>2. Moved(r, "join") /\ req'[r].chat = created + 1
  BY <1>1, MoveToMoves DEF CreateChat, Steps
<1>3. /\ <<Self(r), Target(r)>> \in Pairs
      /\ BothAsked(Self(r), Target(r))
  BY Knows DEF CreateChat, Mutual
<1>4. RowsAsked' /\ MembersAsked'
  BY <1>1 DEF RowsAsked, MembersAsked
<1>5. Remembered'
  <2>1. \A s \in Requests : s # r => req'[s] = req[s]
    BY <1>2 DEF Moved
  <2>2. \A u, v : BothAsked(u, v)' <=> BothAsked(u, v)
    BY <1>1 DEF BothAsked
  <2>3. /\ req'[r].at = "join" /\ "join" \in Mutual
        /\ <<Self(r), Target(r)>>' \in Pairs
        /\ BothAsked(Self(r)', Target(r)')
    BY <1>2, <1>3 DEF Moved, Mutual
  <2> QED
    BY <1>1, <2>1, <2>2, <2>3 DEF Remembered
<1>6. Own'
  <2>1. members'[created + 1] = {}
    BY <1>1 DEF Own
  <2>2. \A s \in Requests : s # r /\ Filling(s)' =>
          Filling(s) /\ req'[s] = req[s] /\ req[s].chat \in 1..created
    BY <1>2 DEF Moved, Own
  <2>3. \A s \in Requests : Filling(s)' =>
          /\ req'[s].chat \in 1..created'
          /\ members'[req'[s].chat] \subseteq {Self(s)', Target(s)'}
    BY <1>1, <1>2, <2>1, <2>2 DEF Own
  <2>4. \A s, t \in Requests : Filling(s)' /\ Filling(t)' /\ s # t
          => req'[s].chat # req'[t].chat
    BY <1>1, <1>2, <2>2 DEF Own
  <2>5. \A k \in ChatIds : k > created' => members'[k] = {}
    BY <1>1 DEF Own
  <2> QED
    BY <2>3, <2>4, <2>5 DEF Own
<1> QED
  BY <1>1, <1>2, <1>4, <1>5, <1>6 DEF Moved

LEMMA JoinConsent ==
  ASSUME IInv, NEW r \in Requests, CreateChatMember(r)
  PROVE  IInv'
<1> DEFINE k == req[r].chat
<1>1. Filling(r) /\ UNCHANGED <<row, live, created, asked>>
  BY DEF CreateChatMember
<1>2. /\ Self(r) \in Users /\ Target(r) \in Users
      /\ <<Self(r), Target(r)>> \in Pairs
      /\ BothAsked(Self(r), Target(r))
  BY <1>1, Knows DEF Mutual
<1>3. k \in 1..created /\ k \in ChatIds /\ members[k] \subseteq {Self(r), Target(r)}
  BY <1>1 DEF Own
<1>4. PICK w \in {Self(r), Target(r)} : JoinChat(r, w)
  BY DEF CreateChatMember
<1>5. /\ members' \in [ChatIds -> SUBSET Users]
      /\ members'[k] \subseteq {Self(r), Target(r)}
      /\ \A j \in ChatIds : j # k => members'[j] = members[j]
  BY <1>2, <1>3, <1>4 DEF JoinChat
<1>6. Ended(r) \/ (Moved(r, "joinOther") /\ req'[r].chat = k)
  BY ReplyEnds, MoveMoves DEF CreateChatMember, Steps
<1>7. FriendshipTypeOK'
  BY <1>1, <1>5, <1>6 DEF Ended, Moved
<1>8. RowsAsked'
  BY <1>1 DEF RowsAsked
<1>9. Remembered'
  <2>1. \A s \in Requests : s # r => req'[s] = req[s]
    BY <1>6 DEF Ended, Moved
  <2>2. \A u, v : BothAsked(u, v)' <=> BothAsked(u, v)
    BY <1>1 DEF BothAsked
  <2>3. \/ req'[r].at = "idle" /\ "idle" \notin Mutual
        \/ /\ req'[r].at = "joinOther"
           /\ <<Self(r), Target(r)>>' \in Pairs
           /\ BothAsked(Self(r)', Target(r)')
    BY <1>2, <1>6 DEF Ended, Moved, Mutual
  <2> QED
    BY <1>1, <2>1, <2>2, <2>3 DEF Remembered
<1>10. Own'
  <2>1. \A s \in Requests : Filling(s)' =>
          Filling(s) /\ req'[s].chat = req[s].chat /\ Self(s)' = Self(s) /\ Target(s)' = Target(s)
    BY <1>1, <1>6 DEF Ended, Moved
  <2>2. ASSUME NEW s \in Requests, Filling(s)'
        PROVE  /\ req'[s].chat \in 1..created
               /\ members'[req'[s].chat] \subseteq {Self(s)', Target(s)'}
    <3>1. CASE s = r
      BY <1>3, <1>5, <2>1, <2>2, <3>1
    <3>2. CASE s # r
      <4>1. req[s].chat # k /\ req[s].chat \in 1..created /\ req[s].chat \in ChatIds
            /\ members[req[s].chat] \subseteq {Self(s), Target(s)}
        BY <1>1, <2>1, <2>2, <3>2 DEF Own
      <4> QED
        BY <1>5, <2>1, <2>2, <4>1
    <3> QED
      BY <3>1, <3>2
  <2>3. \A s, t \in Requests : Filling(s)' /\ Filling(t)' /\ s # t
          => req'[s].chat # req'[t].chat
    BY <2>1 DEF Own
  <2>4. \A j \in ChatIds : j > created => members'[j] = {}
    BY <1>3, <1>5 DEF Own
  <2> QED
    BY <1>1, <2>2, <2>3, <2>4 DEF Own
<1>11. MembersAsked'
  <2> SUFFICES ASSUME NEW j \in ChatIds, NEW u \in members'[j], NEW v \in members'[j], u # v
               PROVE  BothAsked(u, v)'
    BY DEF MembersAsked
  <2>1. CASE j = k
    BY <1>1, <1>2, <1>5, <2>1, ZenonT(60)
  <2>2. CASE j # k
    BY <1>1, <1>5, <2>2 DEF MembersAsked
  <2> QED
    BY <2>1, <2>2
<1> QED
  BY <1>7, <1>8, <1>9, <1>10, <1>11

LEMMA NextConsent ==
  ASSUME IInv, [FriendshipNext]_fvars
  PROVE  IInv'
<1>1. ASSUME NEW r \in Requests, NEW kind \in Kinds, NEW p \in Pairs, Arrive(r, kind, p)
      PROVE  IInv'
  BY <1>1, ArriveConsent
<1>2. ASSUME NEW r \in Requests, Handle(r)
      PROVE  IInv'
  BY <1>2, StatusConsent, RowConsent, FindConsent, LookUpConsent, DropConsent,
     CreateConsent, JoinConsent, ReplyConsent DEF Handle, QueryFails
<1>3. CASE UNCHANGED fvars
  <2>1. RowsAsked' /\ Remembered' /\ Own' /\ MembersAsked'
    BY <1>3 DEF RowsAsked, Remembered, Own, MembersAsked, Mutual
  <2> QED
    BY <1>3, <2>1
<1> QED
  BY <1>1, <1>2, <1>3 DEF FriendshipNext

LEMMA SpecConsent == FriendshipSpec => []IInv
<1>1. FriendshipInit => IInv
  BY InitConsent
<1>2. IInv /\ [FriendshipNext]_fvars => IInv'
  BY NextConsent
<1> QED
  BY <1>1, <1>2, PTL DEF FriendshipSpec

\* The tables and the handlers' variables keep their types.
THEOREM FriendshipTyped == FriendshipSpec => []FriendshipTypeOK
<1>1. IInv => FriendshipTypeOK
  OBVIOUS
<1> QED
  BY <1>1, SpecConsent, PTL

\* Whatever the interleaving and whichever queries fail, a friendship that is
\* listed was asked for by both.
THEOREM FriendsConsented == FriendshipSpec => []ConsentBeforeFriends
<1>1. IInv => ConsentBeforeFriends
  BY DEF RowsAsked, ConsentBeforeFriends, FriendsOf, Pairs
<1> QED
  BY <1>1, SpecConsent, PTL

\* Two members of a chat have both asked for the friendship.
THEOREM ChatsConsented == FriendshipSpec => []ConsentBeforeChat
<1>1. IInv => ConsentBeforeChat
  BY DEF MembersAsked, ConsentBeforeChat
<1> QED
  BY <1>1, SpecConsent, PTL
=============================================================================
