------------------------------ MODULE ClientApp ------------------------------
(***************************************************************************)
(* The client's TUI: one screen at a time, and the commands its Update     *)
(* methods return, which run beside it.  A command ends with a message to  *)
(* Update, and messages arrive in any order, whatever screen is shown by   *)
(* then.  inflight holds both: the commands that run and the messages that *)
(* wait for Update.                                                        *)
(*                                                                         *)
(* The server's part in it is the table of accounts and whether a request  *)
(* is answered.  The presence session is the one of the last login: what   *)
(* Start and Stop do is ClientPresence's.                                  *)
(***************************************************************************)
EXTENDS ChatSession, Bags

CONSTANTS
  Nicknames,    \* who may register and log in
  Registered,   \* those who have registered before
  Nobody,       \* the empty nickname and token
  MaxInflight   \* bound: commands and messages at a time

ASSUME AppConstants ==
  /\ Registered \subseteq Nicknames
  /\ Nobody \notin Nicknames
  /\ MaxInflight \in Nat
  /\ Opens \cap {"app", "quit", "login", "register"} = {}

VARIABLES
  accounts,    \* the nicknames in the table users
  screen,      \* the current model: "app", "login" and "register", a chat, or "quit"
  user,        \* cfg.currentUser
  session,     \* whose presence session is up
  shown,       \* shown[o]: what a chat screen has been given, oldest first
  inflight,    \* commands and messages, a bag
  adrift       \* auxiliary: the session's login crossed another's, or came too late

appVars == <<accounts, screen, user, session, shown, inflight, adrift>>
clientVars == <<sessionVars, appVars>>

Somebody == Nicknames \cup {Nobody}
Forms == {"login", "register"}

\* The commands, and the messages that make a difference to some screen.
Commands ==
  [do : {"doLogin", "doRegister"}, nick : Nicknames] \cup
  [do : {"startChat"}] \cup
  [do : {"waitForMessage"}, chat : Opens]
Messages ==
  [msg : {"loginSuccess", "registerSuccess"}, nick : Nicknames] \cup
  [msg : {"switchToAuth"}, mode : Forms] \cup
  [msg : {"switchToChat", "switchToApp"}] \cup
  [msg : {"incoming"}, chat : Opens, n : Nat]

ClientTypeOK ==
  /\ ChatSessionTypeOK
  /\ accounts \in SUBSET Nicknames
  /\ screen \in {"app", "quit"} \cup Forms \cup Opens
  /\ user \in Somebody
  /\ session \in Somebody
  /\ shown \in [Opens -> Seq([chat : Opens, n : Nat])]
  /\ IsABag(inflight) /\ BagToSet(inflight) \subseteq Commands \cup Messages
  /\ adrift \in BOOLEAN

ClientInit ==
  /\ ChatSessionInit
  /\ accounts = Registered
  /\ screen = "app"
  /\ user = Nobody
  /\ session = Nobody
  /\ shown = [o \in Opens |-> <<>>]
  /\ inflight = EmptyBag
  /\ adrift = FALSE

Spawn(x) ==
  /\ BagCardinality(inflight) < MaxInflight
  /\ inflight' = inflight (+) SetToBag({x})
Done(x) == inflight' = inflight (-) SetToBag({x})
Become(x, y) == inflight' = (inflight (-) SetToBag({x})) (+) SetToBag({y})

Running(c) == {x \in BagToSet(inflight) : "do" \in DOMAIN x /\ x.do = c}
Waiting(m) == {x \in BagToSet(inflight) : "msg" \in DOMAIN x /\ x.msg = m}

\* The program runs.
On == screen # "quit"
-----------------------------------------------------------------------------
(***************************************************************************)
(* Keys.                                                                   *)
(***************************************************************************)

Key(on) ==
  /\ screen \in on
  /\ UNCHANGED <<sessionVars, accounts, user, shown, adrift>>

\* Enter on the app screen: a command is run; a chat asks for a login first.
Submit ==
  /\ Key({"app"})
  /\ \/ \E mode \in Forms : Spawn([msg |-> "switchToAuth", mode |-> mode])
     \/ user # Nobody /\ Spawn([do |-> "startChat"])
  /\ UNCHANGED <<screen, session>>

\* Enter on a form whose two fields are filled in; the form stays.
SubmitForm ==
  /\ Key(Forms)
  /\ \E n \in Nicknames :
       Spawn([do |-> IF screen = "login" THEN "doLogin" ELSE "doRegister", nick |-> n])
  /\ UNCHANGED <<screen, session>>

\* Esc on a form or in a chat asks for the app screen.
Esc ==
  /\ Key(Forms \cup Opens)
  /\ Spawn([msg |-> "switchToApp"])
  /\ UNCHANGED <<screen, session>>

\* Esc on the app screen, or SIGTERM on any: the program ends, and its session.
Quit ==
  /\ screen' = "quit"
  /\ session' = Nobody
  /\ UNCHANGED <<sessionVars, accounts, user, shown, inflight, adrift>>
-----------------------------------------------------------------------------
(***************************************************************************)
(* Commands.                                                               *)
(***************************************************************************)

CommandRest == UNCHANGED <<sessionVars, screen, user, shown>>

\* handlerLoginUser: GetUserByNickname finds the user, the password being right.
GetUserByNickname(n) == n \in accounts

\* handlerCreateUser: an insert into a table with a unique nickname.
CreateUser(n) == n \notin accounts /\ accounts' = accounts \cup {n}

\* The success of somebody else's login has yet to reach its screen.
Crosses(c) == \E m \in Waiting("loginSuccess") : m.nick # c.nick

\* POST /api/login, then presence.Start, which first ends the session there is and
\* then may fail.  loginErrMsg only shows an error.
DoLogin(c) ==
  /\ c.do = "doLogin"
  /\ \/ /\ GetUserByNickname(c.nick)
        /\ \/ session' = c.nick /\ Become(c, [msg |-> "loginSuccess", nick |-> c.nick])
           \/ session' = Nobody /\ Done(c)
        /\ adrift' = Crosses(c)
     \/ UNCHANGED <<session, adrift>> /\ Done(c)
  /\ UNCHANGED accounts
  /\ CommandRest

\* POST /api/register, whose answer may be lost.
DoRegister(c) ==
  /\ c.do = "doRegister"
  /\ \/ /\ CreateUser(c.nick)
        /\ Become(c, [msg |-> "registerSuccess", nick |-> c.nick]) \/ Done(c)
     \/ UNCHANGED accounts /\ Done(c)
  /\ UNCHANGED <<session, adrift>>
  /\ CommandRest

\* POST /api/chats
StartChat(c) ==
  /\ c.do = "startChat"
  /\ Become(c, [msg |-> "switchToChat"]) \/ Done(c)
  /\ UNCHANGED <<accounts, session, adrift>>
  /\ CommandRest

\* A message of the chat, or the end of its context; chance if there are both.
WaitForMessage(c) ==
  /\ c.do = "waitForMessage"
  /\ \/ /\ Take(c.chat)
        /\ Become(c, [msg |-> "incoming", chat |-> c.chat, n |-> Head(msgChan[c.chat])])
     \/ c.chat \in cancelled /\ Done(c) /\ UNCHANGED sessionVars
  /\ UNCHANGED <<accounts, screen, user, session, shown, adrift>>

Command(c) ==
  /\ "do" \in DOMAIN c
  /\ DoLogin(c) \/ DoRegister(c) \/ StartChat(c) \/ WaitForMessage(c)
-----------------------------------------------------------------------------
(***************************************************************************)
(* clientModel.Update: the messages, on the screen there is when they come.*)
(***************************************************************************)

\* A new appModel.
ToApp == screen' = "app"

\* The names for a chat that are free, and one of them: it does not matter which.
Free == {o \in Opens : conn[o] = "none"}
NextChat == CHOOSE o \in Free : TRUE

(***************************************************************************)
(* Fault variants.                                                         *)
(***************************************************************************)

\* The login is not kept.
LoginSuccessForgotten(m) ==
  /\ m.msg = "loginSuccess"
  /\ screen' = IF screen \in Forms THEN "app" ELSE screen
  /\ Done(m)
  /\ UNCHANGED <<sessionVars, user, shown, adrift>>

\* A chat is left by its context alone.
SwitchToAppUnclosed(m) ==
  /\ m.msg = "switchToApp"
  /\ cancelled' = IF screen \in Opens THEN cancelled \cup {screen} ELSE cancelled
  /\ ToApp
  /\ Done(m)
  /\ UNCHANGED <<conn, reader, received, msgChan, user, shown>>

\* The screen does not wait for the next message.
IncomingOnce(m) ==
  /\ m.msg = "incoming"
  /\ screen \in Opens
  /\ shown' = [shown EXCEPT ![screen] = Append(@, [chat |-> m.chat, n |-> m.n])]
  /\ Done(m)
  /\ UNCHANGED <<sessionVars, screen, user>>

(***************************************************************************)
(* The messages.                                                           *)
(***************************************************************************)

LoginSuccess(m) ==
  /\ m.msg = "loginSuccess"
  /\ \/ screen \in Forms /\ user' = m.nick /\ ToApp /\ UNCHANGED adrift
     \/ /\ screen \notin Forms
        /\ adrift' = (adrift \/ m.nick # user)
        /\ UNCHANGED <<user, screen>>
  /\ Done(m)
  /\ UNCHANGED <<sessionVars, shown>>

RegisterSuccess(m) ==
  /\ m.msg = "registerSuccess"
  /\ \/ screen \in Forms /\ ToApp
     \/ screen \notin Forms /\ UNCHANGED screen
  /\ Done(m)
  /\ UNCHANGED <<sessionVars, user, shown>>

SwitchToAuth(m) ==
  /\ m.msg = "switchToAuth"
  /\ screen' = IF screen = "app" THEN m.mode ELSE screen
  /\ Done(m)
  /\ UNCHANGED <<sessionVars, user, shown>>

\* The dial is made inside Update, and nothing else happens until it is over.
SwitchToChat(m) ==
  /\ m.msg = "switchToChat"
  /\ \/ /\ screen = "app"
        /\ Free # {}
        /\ Connect(NextChat)
        /\ screen' = NextChat
        /\ Become(m, [do |-> "waitForMessage", chat |-> NextChat])
     \/ Done(m) /\ UNCHANGED <<sessionVars, screen>>
  /\ UNCHANGED <<user, shown>>

\* A chat is left: its context is cancelled and its connection closed.  Close
\* may report an error, of a TLS connection whose other end is gone; closing it
\* again always does.  The chat then stays on the screen.
SwitchToApp(m) ==
  /\ m.msg = "switchToApp"
  /\ \/ /\ screen \in Opens
        /\ CancelAndClose(screen)
        /\ \/ /\ conn[screen] # "closed"
              /\ shown' = [shown EXCEPT ![screen] = <<>>]
              /\ ToApp
           \/ conn[screen] # "up" /\ UNCHANGED <<screen, shown>>
     \/ screen \notin Opens /\ ToApp /\ UNCHANGED <<sessionVars, shown>>
  /\ Done(m)
  /\ UNCHANGED user

\* A chat screen shows the message and waits for the next, of its own chat.
Incoming(m) ==
  /\ m.msg = "incoming"
  /\ \/ /\ screen \in Opens
        /\ shown' = [shown EXCEPT ![screen] = Append(@, [chat |-> m.chat, n |-> m.n])]
        /\ Become(m, [do |-> "waitForMessage", chat |-> screen])
     \/ screen \notin Opens /\ Done(m) /\ UNCHANGED shown
  /\ UNCHANGED <<sessionVars, screen, user>>

Update(m) ==
  /\ "msg" \in DOMAIN m
  /\ \/ LoginSuccess(m)
     \/ /\ \/ RegisterSuccess(m) \/ SwitchToAuth(m) \/ SwitchToChat(m)
           \/ SwitchToApp(m) \/ Incoming(m)
        /\ UNCHANGED adrift
  /\ UNCHANGED <<accounts, session>>
-----------------------------------------------------------------------------
\* What ends a chat from outside, and what the server sends in it.
Peer(o) == (Receive(o) \/ Lose(o)) /\ UNCHANGED appVars

\* The reader of a chat, whatever screen there is.
ChatStep(o) == ReaderStep(o) /\ UNCHANGED appVars

\* No goroutine and no message is left of a chat that was left.
Forget(o) ==
  /\ screen # o
  /\ \A x \in BagToSet(inflight) : "chat" \in DOMAIN x => x.chat # o
  /\ Recycle(o)
  /\ UNCHANGED appVars

Keys == Submit \/ SubmitForm \/ Esc \/ Quit

ClientNext ==
  /\ On
  /\ \/ Keys
     \/ \E x \in BagToSet(inflight) : Command(x) \/ Update(x)
     \/ \E o \in Opens : Peer(o) \/ ChatStep(o) \/ Forget(o)

\* The wait of a chat, and what Update is given of it.
WaitStep(o) == \E x \in Running("waitForMessage") : x.chat = o /\ Command(x)
ShowStep(o) == \E x \in Waiting("incoming") : x.chat = o /\ Update(x)

(***************************************************************************)
(* Go schedules every goroutine that can run, and Update takes messages    *)
(* from a channel that serves its senders in turn.  The user, the server   *)
(* and the network need never do anything.                                 *)
(***************************************************************************)
ClientSpec ==
  /\ ClientInit /\ [][ClientNext]_clientVars
  /\ \A o \in Opens :
       /\ WF_clientVars(On /\ ChatStep(o))
       /\ WF_clientVars(On /\ WaitStep(o))
       /\ WF_clientVars(On /\ ShowStep(o))
-----------------------------------------------------------------------------
(***************************************************************************)
(* Properties.                                                             *)
(***************************************************************************)

\* No chat goes on behind another screen: a connection that this end has not
\* closed belongs to the chat that is shown, whatever messages came late (the
\* switchToAppMsg and switchToChatMsg cases of clientModel.Update).
ScreenOwnsChat ==
  \A o \in Opens : conn[o] \in {"up", "lost"} => screen \in {o, "quit"}

\* The numbers 1 to n, and then perhaps the end.
InOrder(s) ==
  \E k \in 0..Len(s) :
    LET counted == [i \in 1..k |-> i] IN s \in {counted, Append(counted, Disconnected)}

\* A chat screen shows the messages in the order they were read, without a gap or
\* a repetition, "Disconnected" last (connectToChat's reader, waitForMessage and
\* the incomingMsg case).  Left out: a screen that was given a message of a chat
\* left before, for it then has two waits.
ShownInOrder ==
  \A o \in Opens :
    (\A i \in DOMAIN shown[o] : shown[o][i].chat = o)
      => InOrder([i \in DOMAIN shown[o] |-> shown[o][i].n])

\* The presence session that is up, if any, is that of the user whose token the
\* screens use (doLogin starts the one, the loginSuccessMsg case sets the other), or
\* the screen is about to be told.  Left out: a login that Start put through with
\* the success of another's still to come, or whose success found another screen.
ScreenIsUsers ==
  \/ session \in {user, Nobody}
  \/ [msg |-> "loginSuccess", nick |-> session] \in BagToSet(inflight)
  \/ adrift

\* Nothing of a chat outlives its context for ever: neither the reader, at a full
\* channel or in ReadMessage, nor a wait (the ctx.Done() cases of send and of
\* waitForMessage, and Close).
ChatsReleased ==
  \A o \in Opens :
    o \in cancelled ~>
      \/ /\ reader[o] \in {"none", "ended"}
         /\ [do |-> "waitForMessage", chat |-> o] \notin BagToSet(inflight)
      \/ ~On

ShownOf(o, n) == \E s \in Opens : \E i \in DOMAIN shown[s] : shown[s][i] = [chat |-> o, n |-> n]

\* Every message the reader has read gets to a chat screen, unless the chat ends
\* first: the channel is drained however slow the screen was, and a wait is always
\* renewed (the incomingMsg case of chatModel.Update).
EveryMessageShown ==
  \A o \in Opens : \A n \in 1..Sent[o] :
    received[o] >= n ~> ShownOf(o, n) \/ o \in cancelled \/ ~On
=============================================================================
