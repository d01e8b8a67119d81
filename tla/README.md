# dedachat: a verification project

dedachat is a chat program in Go: a server (HTTP, WebSockets, PostgreSQL) and a
terminal client. The modules here model the server's concurrent core, its
friend system, its rate limiter, the client's presence session, the online status
from end to end, and the client's screens with its chats; TLC checks them on small
instances, and TLAPS proves their safety properties and refinements for every
value of the constants. Every definition is read off the code; `PROJECT.json`
(`map`) has the lines for each.

## The system

| Component | State | Operations | Hard parts |
| --- | --- | --- | --- |
| **Hub** (`server/hub.go`) | the maps of chat and presence clients, the online counters, the closing of every `send` channel | the cases of `run()`, `IsOnline`, `Shutdown` | every case is a rendezvous with another goroutine; it closes channels others may still be about to unregister; it blocks while it hangs sockets up |
| **Chat sockets** (`server/handler_chats_ws.go`) | per connection: the handler's place, the read and the write loop, the send buffer, the socket | dial (member check, history, read mark, upgrade, register), read, store, broadcast, write, ping, the two ways of closing | two loops and the hub end one connection in any order; history and live messages overlap; peers are lost |
| **Presence sockets** (`server/handler_presence_ws.go`) | per connection: the place in the handler and the read loop | dial, ping, the deferred unregistration | several devices of one user; clients that crash |
| **Message store** (`internal/database`) | chats, messages, `is_read` | `CreateMessage`, `GetMessagesByChat`, `MarkMessagesAsRead`, `GetUnreadMessages`, `DeleteChat` | queries of concurrent handlers interleave; a chat is deleted under an open socket |
| **Process** (`server/server.go`) | where `Run` is; the shutdown context | serve, drain, wait for the hub, close the database, exit; deadline; second signal | hijacked connections are invisible to `http.Server.Shutdown`; registrations slip in behind the signal |
| **Friend system** (`server/handler_friends.go`, `handler_chats.go`) | the tables friends, chats, chat_members | befriend, accept, unfriend, open a chat | several queries per request and no transaction |
| **Rate limiter** (`server/ratelimit.go`) | buckets per key, the last sweep | `allow`, `sweep`, Retry-After | the sweep forgets state; a request turned away must be free; the clock is read before the lock |
| **Client presence** (`client/presence.go`) | the session in the struct; per session a context, a loop, a watcher, a connection | `Start`, `Stop`, reconnect | called from TUI commands, a signal handler and `Run` at once |
| **Client TUI** (`client/client.go`, `app.go`, `auth.go`) | the current screen, the user logged in, the commands that run and the messages they have sent | the forms, `register`, `login`, `chat`, `clientModel.Update` | commands return after their screen has gone; the presence session is started by one and the user set by another |
| **Client chat** (`client/chat.go`) | the connection, the context, `msgChan`, the reader | dial, read, wait for a message, leave | the reader waits for room in a channel nobody may drain; the end of the context races buffered messages |
| Users, authentication (`handler_users.go`, `internal/auth`, `middleware.go`) | the table users; the hour a token is good for | register, login, JWT | a token expires under a session that still uses it |
| Read marks, notifications, client API, replies, entry points | - | - | read-only or pure I/O |

The server's components meet in three ways: goroutines of the sockets
rendezvous with the hub over unbuffered channels; the hub and a write loop share
a buffered `send` channel; handlers and read loops share the database. The
client's presence session is, for the server, one presence socket after another.
In the client, commands run beside `Update` and talk to it by messages; a chat's
reader talks to its screen through `msgChan`.

## Modules

    Sockets          the server's end of a WebSocket: open, closed, close frame, peer
      Hub            the hub's half of every rendezvous
        MessageStore the queries on chats and messages
          ChatSockets    handlerChatWS, readFromClient, writeToClient
        PresenceSockets  handlerPresenceWS, presenceClient.read
            Server           main and everything above, Next, fairness
              ServerProperties   what the server promises
                MCServer         instances for TLC
                ServerProofs     theorems: types, channels, sockets, shutdown, status
                  ServerDeliveryProofs   theorems: delivery, order, read marks
    Friendship       POST/DELETE /api/friends, POST /api/chats, query by query
      SocialGraph    what the friend system promises (abstract)
      FriendshipRaces          the same requests, with the memory of which pairs a race hit
      FriendshipProofs         theorems: consent
        SocialGraphProofs      theorems: SocialGraph is implemented; lists and chats
                               under overlapping requests
    RateLimiter      keyedLimiter and Retry-After
      TokenBucket    what a rate limit promises (abstract)
      RateLimiterProofs
    ClientPresence   presence.Start, Stop, run, hold
      OneSession     what the presence session promises (abstract)
      ClientPresenceProofs
    OnlineStatus     ServerProperties and ClientPresence: one client, one server
      MCOnline       an instance for TLC
      OnlineStatusProofs       theorems: both ends, with restarts
    ChatSession      connectToChat: reader, msgChan, context
      ClientApp      clientModel.Update, the screens and their commands
        MCClient     an instance for TLC
        ClientAppProofs

**Sockets.** gorilla's connection is reduced to `sock` (not yet, open, closed),
`frame` (the first close frame the server wrote) and `peer`. A peer is `"up"`
while it takes what it is sent within `writeWait` and answers pings, and `"gone"`
from the moment it does not. `CloseConn` and `CloseSocket` are the functions of
those names.

**Hub.** An action `HubX` is one case of `run()`; the modules above it conjoin the
other goroutine's half, which is what an unbuffered channel does. `HubReady` says
that the hub is parked in its select. Hanging sockets up is a step per socket:
`closeConn` may block for `writeWait` each time, and the hub serves nobody
meanwhile (`hangup` is what is left). The loop over the clients of a broadcast is
one step: the buffered sends in it do not block, and only the hub adds to a
buffer.

**ChatSockets, PresenceSockets.** `pc[c]` and `ppc[p]` are the next step of the
handler and, after it, of the read loop; `writer[c]` is the write loop. Every
query, every rendezvous and every deferred call is a step of its own. `wire[c]`
is what was written to a living peer. `feed[c]` is auxiliary:
the history a registered connection was dialled with and behind it what others have
broadcast in its chat since, whether the hub still tracks the connection or not. The message limiter
of a connection is a choice (`RateLimited`), as are failing writes to lost peers.
A frame above `maxMessageSize` fails the read of a living peer, and the library
writes the close frame before it returns (`ReadTooBig`, `PresenceReadTooBig`). The
dedachat client caps what is typed below the limit; other clients need not.

**MessageStore.** Each query is one step. A message is its position in its chat:
`created_at` is `NOW()` at the insert, and the order of inserts is taken for the
order of timestamps.

**Server.** `main` walks through `Run`: serving, draining (`server.Shutdown`),
hubwait (`hub.Shutdown`), closedb, dbclosed, exited. When `main` is `"exited"`
nothing moves. What may befall a run is the constant `Inputs` (SIGTERM, a second
signal, the deadline, refused dials, floods, frames above the limit, lost peers,
failing inserts, read marks, the end of a friendship), so that each run names its faults.

**Friendship.** A request's handler is `req[r]`: the query it stands before and
its local variables. `row[<<u, v>>]` is the `request_status` of the row with that
primary key. `GetFriendshipStatus` is `LIMIT 1` without an order, so with two rows
it returns any one. `asked` is auxiliary: who has ever asked whom. The bound `Alone`
names the operations that are asked for only while no other request is under way; the
code has no such rule, and with `Alone = {}` requests overlap as they like.

**FriendshipRaces.** The steps of Friendship with two history variables that no step
reads. `torn` has the pairs for which an accept was cut in two: its second insert
failed, or an unfriending ran between its status and its inserts. `stray` has those
for whom a chat may outlive the friendship: it was being opened when the friendship
ended, there were two, or the unfriending failed to find or drop it. An unfriending
that runs with none of this under way clears both for its pair.

**RateLimiter.** Time and tokens are counted in ticks: a token is worth `Cost`
ticks, a full bucket `Capacity`. `Level`, `Wait`, `Reserve`, `Cancel` are
`golang.org/x/time/rate` for one token (external). A call is two steps, the
reading of the clock and the rest under the lock; `Preempted` says whether time
may pass in between.

**ClientPresence.** A call of `Start` makes a session that carries its name.
`held` is the pair in the struct, `took[k]` what a `Stop` has taken out of it.
`Patient` says whether the user waits for a login to be answered before the next;
`authModel.Update` does not make them. A dial under way when its session is
cancelled may still succeed (`Reconnect`): the context of `DialContext` cuts the
connecting, not the handshake behind it; `hold` then finds the context done and
says goodbye. The process ends as soon as a `Stop` of the
signal handler or of `Run` has returned (`Exited`), or without one (`Kills`).
`stale` has the sessions whose token has expired: their dials fail for ever.

**OnlineStatus.** Every step of the client comes with what it does to the server's
end of the connection (`OnTheWire`): a dial that succeeds is `PresenceUpgrade` of
a free socket, a close frame or a lost connection is `PeerLost`, and the server
learns of it by reading. `link[s]` is the socket a session's connection leads to.
`Restart` is a server that ends in any way and another one in its place; `Recycle`
frees the name of a socket that is done.

**ChatSession.** One chat as the client has it open, under a name of `Opens` that
is used again when nothing is left of it. `reader[o]` is the step of the reader:
in `ReadMessage`, in `send` with a message, in `send` with "Disconnected", before
the deferred `cancel`. Messages of a chat are numbered as the server sends them.
`ReadMessage` may return a message that was buffered before the connection ended.
The server sends JSON only, so the branch for what does not decode is left out.

**ClientApp.** `inflight` is the bag of commands that run and messages that wait
for `Update`: bubbletea runs each command in a goroutine and promises no order.
A command that ends with an error, or a message that only shows something, is
`Done`. A message is handled on the screen there is when it comes. `session` is
whose presence session is up; `DoLogin` takes `Start` as one step. `shown[o]` is
what the chat screen was given. `adrift` is auxiliary: the last login that reached
`Start` did so while the success of another user's was still to come (`Crosses`),
or the `loginSuccessMsg` of some login since found another screen than a form and
was dropped.

The definitions headed "Fault variants" are bodies with a plausible slip (a
dropped guard, a forgotten reset); no specification uses them. They are what the
`mutants` of `PROJECT.json` put in place of the real ones to see that each property
notices.

## What is checked

Passing runs. Distinct states in brackets.

| Run | Instance | Shows |
| --- | --- | --- |
| `chat_delivery` (762k) | alice twice, bob once; buffer 2, history 2, 3 messages; mark, unfriend, dberror | `TypeOK`. `TrackedOpen` (no send on, or second close of, a closed channel). `GapFree`: what a peer was sent is a prefix of its history and the broadcasts since, also when its buffer overflows. `PerSenderOrder`: what one connection wrote is never reordered, although history and broadcasts overlap. `ReadByAddressee`: an author's other device leaves messages unread |
| `chat_faults` (102k) | alice, bob; buffer 1, no history, 2 messages; flood, oversize, lost; fair | `NoAbruptClose`: whoever is lost, floods, is too slow or sends too much, no living peer is cut off without a close frame. `StoredReachesTracked`: a stored message reaches every tracked peer, or that peer is told it is cut off. `ChatSocketsEnd`: both loops of a broken connection end, however it broke |
| `online_status` (27k) | alice's client: 1 login, quit, kill; 2 sockets used again and again, 1 failing dial, restarts of the server; fair | `OnlineExact`, `TrackedAreOnline`, `LostPresenceEnds`. `HeardAreServed`: what the client has not given up the server serves, on a socket of its own. `StatusSettles`: a user who stays connected ends up online, one who does not, offline, also when the server is restarted or the old socket is counted out after the new one is in |
| `shutdown` (403k) | two chat sockets, one presence socket; stop, deadline, kill, overping; fair; deadlock checked | `ClosingHangsUp` (late registrations are hung up, not tracked), `NoAbruptClose`, `ShutdownTerminates` |
| `friends_overlap` (1.25m) | 2 users, 2 requests of any kind at a time, failing queries, 3 chats in all | `ChatsPerPair`: no more chats of a pair than requests at a time. `ListsExplained`, `ChatsExplained`: one-sided lists and chats without a friendship come of nothing but the races and failures they name |
| `friends_race` (562k) | 2 users, 3 requests that befriend or open chats, unfriending with no other request under way, failing queries, 2 chats in all | `FriendshipTypeOK`, `ConsentBeforeFriends`, `ConsentBeforeChat`; `ImplementsGraph`: even concurrent, every query is a promised operation or none |
| `rate_limit` (98k) | 2 keys, capacity 2 tokens, 12 ticks, TTL 5 | `LimiterTypeOK`, `RetryAfterHonest`, `IdleIsFull`, `ImplementsBuckets`: sweeping and cancelling are invisible |
| `client_session` (91k) | 2 logins, SIGTERM, quit; 2 failing dials, tokens expire; fair | `SessionsTypeOK`, `LoopsOwned` (every loop can be stopped), `GoodbyeBeforeEnd` (a `Stop` returns after the close frame), `CallsReturn`, `ImplementsOneSession` (never two sessions), `ComesBack` |
| `client_chat` (119k) | 1 nickname, 2 chats, `msgChan` of 1, 2 messages in the one chat and only the end in the other, 2 commands or messages in flight; fair | `ClientTypeOK`. `ScreenOwnsChat`: no chat goes on behind another screen. `ShownInOrder`: no hole, no reordering. `ScreenIsUsers`: the presence session is that of the user logged in, or of one whose `loginSuccessMsg` is on its way, unless a success found another screen. `ChatsReleased`: no reader and no wait stays behind. `EveryMessageShown`: what was read is shown or the chat ended |

Runs that end in a counterexample: places where the program does not do what the
repository says of it. The texts are quoted in `PROJECT.json`, `findings`.

| Run | Statement | What happens |
| --- | --- | --- |
| `doc_friend_lists` | `friends --list` shows all your friends | two mutual requests at the same moment: friends on one list only |
| `doc_one_session` | a second login replaces the first | Enter twice: two sessions, one of which nobody can stop |
| `doc_reconnect` | the presence session reconnects by itself, for the whole session | its token has expired: every dial is refused, and the user stays offline |

More of the kind, without a run of their own:

- Two first openings of a chat at once create two chats, of which unfriending drops
  one; a chat opened while the friendship ends outlives it, and so does one that the
  unfriending failed to find or drop. `ChatsExplained` has these as its exceptions,
  and without any one of them `friends_overlap` ends in a counterexample; so it does
  without any of those of `ListsExplained`.
- `ImplementsGraph` breaks when `DELETE /api/friends` comes between the two writes of
  an acceptance: the second write puts one row back, accepted, and no request is left.
- A registration that slips in behind the shutdown is hung up but not waited for:
  its read loop may still be in `CreateMessage` when the database closes, against
  the comment in `Run`.
- A dial marks as read what came in after it had loaded the history; such a
  message is no longer counted by a notification and, if it was broadcast before
  the registration, not shown either.
- A message whose insert fails is dropped, and its sender stays connected, although
  the comment in `readFromClient` calls silent dropping worse than hanging up.
- A socket between `Upgrade` and `register` when the hub drains is neither told nor
  closed, against "closes every chat and presence socket" in `README.md`.
- A goroutine that has read the clock and then waits for the limiter's lock may
  set a bucket's clock back; its refill then counts twice, and more than the burst
  is granted back to back (`Preempted = TRUE` in `rate_limit.cfg`).
- `IdleIsFull` needs `Capacity <= TTL`, a burst that refills within `bucketTTL`.
  The environment may ask for more, and a sweep then hands out extra tokens.
- Esc while a login is under way: its `loginSuccessMsg` finds another screen and is
  dropped, but the session is up. The user is online without being logged in, or
  another user is. Enter with one name and, after registering, with another makes two
  logins that may finish in one order and be told in the other. `ScreenIsUsers` has
  both as its exceptions (`adrift`): `client_chat` ends in a counterexample without the
  first, and, given a second nickname, without the second.
  The result of a `chat` command likewise opens with the token of the user that
  was, or is, logged in when it returns. A second login that cannot dial has ended
  the first session all the same: logged in, and offline.
- Esc in a chat whose `Close` fails (TLS, the other end gone): the context is
  cancelled, the screen stays and shows the error for ever, since the second
  `Close` fails too. Only the end of the program helps.
- An `incomingMsg` of a chat that was left may come when the next chat is on the
  screen: it is shown there, and the chat then has two waits, which may deliver in
  the wrong order. `ShownInOrder` leaves such screens out.
- What is in `msgChan` when the reader ends, "Disconnected" with it, may never be
  shown: `waitForMessage` picks between the channel and the context at random.
- A `Stop` that finds the session taken returns before the other has sent the close
  frame, and the process may end in between; a login that finishes during the quit
  leaves its session to the operating system. `StatusSettles` holds nevertheless.

**Bounds.** Two sockets of one user and one of another are the least with a
sender, a listener, a second device, and a message that must not come back to its
author; a buffer of 1 or 2 overflows after two or three messages; the history is
never longer than the buffer (the code has 50 and 256, and `StoreConstants` says
so). `MaxMessages` bounds what peers send, never what a loop does with it.
Frames above the limit come to the chat sockets in `chat_faults` and to the presence
socket in `shutdown`: both kinds in `shutdown` would be too many states for its
liveness. `chat_faults` has no history, so that two messages still overflow the buffer
as broadcasts; `chat_delivery` has the histories. In the friend system every race the handlers
have is one of two or three requests of one pair: `friends_race` has three that
befriend or open chats (and unfriend alone), `friends_overlap` two of any kind, one after another as often
as the three chats last. The limiter's clock runs over two sweeps. The client
run has two logins, since a third finds the struct in a state the first two leave.
`online_status` has one login, whose loop dials any number of times, since
names are used again; two sockets are one that lingers and its successor. In
`client_chat` a channel of 1 is full with the second message (the code has 50);
the reader then holds "Disconnected" as a third. Two chats are one that was left
and one on the screen; two in flight are the wait of a chat and anything that comes
across it. It has one nickname, who may be online without being logged in; that one
login crosses another's takes two, which with the liveness properties are too many
states. For any number of nicknames `ScreenIsUsers` is a theorem.

**Fairness.** Weak fairness of each goroutine: Go schedules whoever can run, an
unbuffered channel serves its senders in turn, and select picks at random. That a
lost peer shows as a failed read rests on pings and the read deadline, which
`ReadError` and `PresenceReadError` model as enabled once a peer is gone. Only a pong
extends the deadline of a chat socket, never a message, so a read loop whose write
loop has ended fails in the end whatever it still reads: `GiveUp` is strongly fair. Peers,
users, signals and deadlines are never fair; `ShutdownTerminates` therefore holds
without help of the deadline. In `ClientPresence` the bound on failing dials is
the server coming back. In `OnlineStatus` the system also closes the connections of
a process that is gone. In `ClientApp` the readers, the waits and the messages of
chats are fair; keys, requests, the server and the network are not.

**Deadlock** is left unchecked where the system may really stop: a server that has
no more dials, messages or faults to expect within the bounds is idle, a limiter
has reached the end of its clock, a client has ended its sessions or its program. `shutdown`
checks it, since every behaviour there can go on until the process is gone.

## What is proved

33 theorems, for any values of the constants that satisfy the named ASSUMEs of the
modules: any number of users, chats, connections, logins, requests and messages,
and any size of buffers, limits and channels. Where a theorem has a hypothesis of
its own (`OnlyTheAddresseeReads`, `GraphImplemented`, two of the limiter's, three of the
presence session's), it is the condition under which the code keeps the property; what
happens without it is in the list above. `ListsAreExplained`, `ChatsAreExplained` and
`SessionIsTheUsers` have no hypothesis, but properties with exceptions: states that the
history variables remember, each with a counterexample if it is left out. Every safety
property a passing run checks is a theorem, and every refinement.

`ServerProofs`:

- `TypeCorrect`: `Spec => []TypeOK`.
- `NoSendOnClosed`: `[]TrackedOpen`. Not inductive alone: a connection must not
  register when its channel is closed already. The strengthening `Places` ties
  each connection's place in the code to what the hub knows of it: before the
  registration the channel is open and no write loop runs; a tracked client has
  registered and not unregistered.
- `FrameBeforeClose`: `[]NoAbruptClose`. The read loop's deferred `closeSocket`
  sends no frame, so the strengthening `Reasons` says why a read loop leaves or a
  write loop ends: the peer is gone or a frame is out. It uses `Places`.
- `ShutdownReachesAll`: `[]ClosingHangsUp`, from `Places`.
- `OnlineCountsSockets`: `[]OnlineExact`, with cardinalities of the sets of counted
  sockets; `TrackedUsersOnline`: `[]TrackedAreOnline`, from it and `Places`.

`ServerDeliveryProofs`:

- `NoHoles`: `[]GapFree`. The invariant `Delivered` says, position by position, that
  the wire is the feed as far as it goes and that the buffer of a living write loop
  continues it, up to the end of the feed if the hub tracks the client. Before the
  registration the wire is empty and the buffer is the history, which is what the
  registration makes the feed; a client cut off by a full buffer has its feed go on
  without it. With `Places` a tracked client is a registered one, so the recipients
  of a broadcast are the tracked ones among those it is meant for.
- `SendersAreHeardInOrder`: `[]PerSenderOrder`. Histories overlap broadcasts, so a
  wire is not sorted. `Ordered` has it that a read loop holds the last message its
  connection stored (`HeldIsLatest`): no row a buffer or a wire has of the same
  connection lies behind it when it is broadcast. The lemmas on `Tail`, `Append` and
  a growing log (`TailKeeps`, `AppendKeeps`, `MovedKeeps`, `GrownKeeps`) carry that
  through the steps of the two loops.
- `OnlyTheAddresseeReads`: `[]ReadByAddressee`, if `ChatsOfTwo`: no chat has three
  members. `createChatForUsers` adds two users to each chat it makes, and nothing
  else writes `chat_members`. `ReadMarks`: who is past the membership
  query is a member, who wrote is one, and a mark goes back to a member other than
  the author who has had the chat open; of two, that is the addressee.

`FriendshipProofs`, with failing queries and any number of requests at once:

- `FriendshipTyped`, `FriendsConsented` (`[]ConsentBeforeFriends`) and
  `ChatsConsented` (`[]ConsentBeforeChat`). A handler acts on what it read some
  queries ago, so the invariant `IInv` has `Remembered` (what a handler's place
  says about who has asked), `RowsAsked` (a row is there for a reason), `Own` (the
  chat a handler fills is its own) and `MembersAsked`.

`SocialGraphProofs`: `GraphImplemented`, `FriendshipSpec => ImplementsGraph`, if
`PartsAlone` (`"unfriend" \in Alone`): friendships are ended by a request that has the
server to itself.
Everything else may interleave, and queries may fail. A step maps to a step or a
stutter because what a handler has read is still so when it writes (`Current`:
requests still pending or accepted, friends still friends); the one thing that
takes this from another handler is `DELETE /api/friends`, hence the hypothesis.
The invariant has `PartingAlone` for that. Without it, an unfriending between the two
writes of an acceptance is half undone by the second of them. `friends_race` checks the
same case.

The rest of `SocialGraphProofs`, for any number of requests of any kind that overlap as
they like, with failing queries:

- `ChatsAreCounted`: `FriendshipSpec => []ChatsPerPair`. One chat per pair is not what
  the code keeps. What it keeps is a count (`Counted`): the chats of a pair and the
  handlers that may still add one to them (`Makers`: past the query that found none)
  are no more than the requests. A handler gets to be a maker only when the pair
  has no chat, and each maker adds one at most.
- `ListsAreExplained`: `RacesSpec => []ListsExplained`. A handler writes the mirrored
  row of an accept long after it has read the status, so the invariant `LInv` follows
  it: unless the pair is torn, the row it is about to mirror is there (`AcceptsStand`).
- `ChatsAreExplained`: `RacesSpec => []ChatsExplained`. Likewise `CInv` has it that
  whoever is about to open a chat for a pair that is not stray has two friends before
  it (`MakersStand`), and that an unfriending which has yet to look a chat up, or to
  drop it, answers for it.

`RateLimiterProofs`:

- `LimiterTyped`: `[]LimiterTypeOK`, with `0 <= level <= Capacity` for every bucket:
  a reservation may run into debt, but is cancelled in the same step.
- `RetryAfterKept`: `[]RetryAfterHonest`, even with `Preempted`. `Debt` bounds the
  distance of a bucket from the token its key was told to wait for; `Past` has no
  reading of the clock ahead of it.
- `IdleRefills`: `[]IdleIsFull`, if `Capacity <= TTL`; from `Seen`, that a bucket was
  filled when it was last seen. The defaults keep `Capacity <= TTL` by far.
- `BucketsPromised`: `LimiterSpec => ImplementsBuckets`, if `Capacity <= TTL` and
  `~Preempted`: a forgotten bucket was full (`IdleIsFull`), and a reading of the clock
  is the time under the lock (`Fresh`).

`ClientPresenceProofs`:

- `SessionsTyped`; `StopSaysGoodbye`: `[]GoodbyeBeforeEnd`, with calls that overlap as
  they like. `Calling` and `LifeCycle` relate the place of a call, the session it took
  and the loop, watcher and connection of that session.
- `NoLoopIsLost`: `[]LoopsOwned`, and `SessionsInSuccession`: `PresenceSpec =>
  ImplementsOneSession`, if `Patient`. `Install` overwrites what the struct holds, so
  the invariant must say that it holds nothing from the `Take` of a `Start` to its
  `Install` (`InTurn`); `Owned` adds the sessions between `Install` and `Launch`.

`OnlineStatusProofs`, of `OnlineSpec`: clients that come back, sockets that are dialled
again, and a server that may be restarted at any time.

- `OnlineCountsAreExact`: `[]OnlineExact`, and `TrackedUsersAreOnline`:
  `[]TrackedAreOnline`. A dial is the `PresencePeer` of `Spec` and a server step its
  `Presence`, so the lemmas of `ServerProofs` apply; new are the lost socket, `Restart`
  (counts nobody, and no socket is counted) and `Recycle` (no map holds a socket that is
  done: `Places`).
- `ServerHoldsOn`: `[]HeardAreServed`, with `Linked`, which relates the two ends. It needs
  both programs: of the client, that no step opens a connection it has said goodbye on or
  touches two at once (`MovesOnTheWire`, from `LifeCycle`), so that the sessions the
  server hears from are one more, one fewer or the same (`HeardMoves`); of the server,
  that a read loop leaves, and closes, only what is gone. It follows that `OnTheWire`
  never forbids the client a step: the socket it lets go of is there.
- `StopSaysGoodbyeOnline` and, if `Patient`, `SessionsInSuccessionOnline`: every step of
  `OnlineSpec` is one of the presence session, a lost connection, or none of it.

`ClientAppProofs`:

- `ClientTypes`; `ScreenIsOfTheChat`: `[]ScreenOwnsChat`, which with the typing is
  inductive.
- `ChatsInOrder`: `[]ShownInOrder`, for any capacity of `msgChan`. What the screen has
  been given, the one message under way to it, the channel and what the reader holds
  make up the messages read, in order (`InLine`), as long as one wait serves the channel
  (`OneWait`); a name that is used again has nothing of the chat before (`Fresh`).
- `SessionIsTheUsers`: `[]ScreenIsUsers`, with logins that overlap and successes that
  find any screen. The invariant says in addition who the screens will have logged in
  (`Expected`): unless adrift, a success that is still to come is the session's, and
  with none to come the session is the user's already.

`Patient`, the hypothesis of `NoLoopIsLost`, `SessionsInSuccession` and
`SessionsInSuccessionOnline`, is what a user does who looks at the screen: the form does
not block a second Enter, and `doc_one_session` shows the rest.

**Only model-checked.** Everything with fairness (`ShutdownTerminates`,
`ChatSocketsEnd`, `StoredReachesTracked`, `LostPresenceEnds`, `StatusSettles`,
`CallsReturn`, `ComesBack`, `ChatsReleased`, `EveryMessageShown`), which the prover
cannot do. That at most so many commands are in flight (the cardinality of a bag) is a bound in
the guards of `ClientApp`, and no theorem speaks of it.

## What is not modelled

In the client: typing, scrolling and layout; sending in a chat, which is one write;
the friends and notifications commands, each a request whose result is only shown;
the goroutine that marks as read every two seconds (its request is `MarkAsRead` of
the server); decoding of replies. On the server: password hashing, signatures,
formatting and JSON; `clientIP` and the parsing of the environment; deployment. A broadcast while `closeConn` waits on a stalled peer is delayed, not
lost, and the model has it so; how long it takes is not modelled. A crash of the
process loses the hub and all sockets and keeps the tables (`Killed`); the restart
is modelled for the presence sockets (`Restart` in OnlineStatus) and, for the chat
sockets, is a fresh `Init` with the messages of before, and is not modelled.

## Plan

1. Done: the sockets, the hub and the process with their proofs; the friend system
   with its consent proofs; the limiter; the presence session and its abstract
   specification; the online status end to end; the client's screens and chats.
2. Done: the proofs of the presence session, of the screens and of what a chat shows;
   of the limiter and its refinement; of the social graph and the friends lists; of
   delivery, order and read marks. Lists, chats and the user on the screen with requests and
   logins that overlap.
3. Done: the online counters and the presence session of `OnlineSpec`, with restarts, and
   what relates the two ends of a connection.
4. Next: that a user whose connection is heard and counted is shown as online while it
   stays so, as a refinement of an abstract status; presence sessions without `Patient`, as
   lists and chats have been done: which loops a second Enter leaves, and no others.
5. Then the client's goroutine that marks as read, and the restart of the server under
   open chat sockets.
