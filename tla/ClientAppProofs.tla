--------------------------- MODULE ClientAppProofs ---------------------------
(***************************************************************************)
(* The client's TUI, for any number of chats, of messages in them and of   *)
(* commands under way: whose the screen is, and what a chat shows.         *)
(*                                                                         *)
(* ShownInOrder is not inductive: it is the sequence that a chat has been  *)
(* given, what Update is about to give it and the channel make up together *)
(* (InLine), and only as long as one wait at a time serves it (OneWait);   *)
(* a name starts over with nothing left of the chat before (Fresh).        *)
(* ScreenIsUsers needs to know of the successes that have not reached the  *)
(* screen yet: unless the session is adrift, they are its own (Expected).  *)
(***************************************************************************)
EXTENDS ClientApp, Integers, TLAPS

OfChat(x, o) == "chat" \in DOMAIN x /\ x.chat = o

\* The wait of a chat, and the message it brought.
Flow(o) == {x \in BagToSet(inflight) : OfChat(x, o)}

\* Nothing is left of a chat whose name is free; the one on the screen is not.
Fresh ==
  /\ screen \in Opens => conn[screen] # "none"
  /\ \A o \in Opens :
       /\ conn[o] = "none" =>
            /\ reader[o] = "none" /\ received[o] = 0 /\ msgChan[o] = <<>>
            /\ Flow(o) = {}
       /\ shown[o] # <<>> => screen \in {o, "quit"}

\* A screen that was given messages of its own chat only.
Pure(o) == \A i \in DOMAIN shown[o] : shown[o][i].chat = o
Watched(o) == screen = o /\ Pure(o)

OneWait(o) == \A x, y \in Flow(o) : x = y /\ inflight[x] = 1

\* How many things the reader has put into the channel, wherever they are now.
Brought(o) == {x \in Flow(o) : "msg" \in DOMAIN x}
Given(o) == Len(shown[o])
Buffered(o) == Len(msgChan[o])
Fed(o) == Given(o) + (IF Brought(o) = {} THEN 0 ELSE 1) + Buffered(o)

\* What is put in as the i-th: the i-th message, or the end when nothing follows.
Place(o, n, i) ==
  \/ n = i
  \/ n = Disconnected /\ i = Fed(o) /\ reader[o] \in {"leaving", "ended"}

InLine(o) ==
  /\ reader[o] \in {"reading", "parting"} => Fed(o) = received[o]
  /\ reader[o] = "sending" => Fed(o) + 1 = received[o]
  /\ \A i \in DOMAIN shown[o] : Place(o, shown[o][i].n, i)
  /\ \A x \in Brought(o) : Place(o, x.n, Given(o) + 1)
  /\ \A i \in DOMAIN msgChan[o] : Place(o, msgChan[o][i], Fed(o) - Buffered(o) + i)

Lined == \A o \in Opens : Watched(o) => OneWait(o) /\ InLine(o)

IsSuccess(x) == "msg" \in DOMAIN x /\ x.msg = "loginSuccess"

\* No success of a login is still to come but of the one whose session is up, or
\* was until Start failed.
Expected == adrift \/ \A m \in Waiting("loginSuccess") : session \in {m.nick, Nobody}

(***************************************************************************)
(* Bags, one element at a time.                                            *)
(***************************************************************************)

LEMMA PutIn ==
  ASSUME NEW B, IsABag(B), NEW y, NEW C, C = B (+) SetToBag({y})
  PROVE  /\ IsABag(C) /\ BagToSet(C) = BagToSet(B) \cup {y}
         /\ \A z \in BagToSet(B) : z # y => C[z] = B[z]
         /\ y \notin BagToSet(B) => C[y] = 1
<1>1. DOMAIN C = DOMAIN B \cup {y}
  BY DEF SetToBag, (+)
<1>2. \A z \in DOMAIN C :
        C[z] = (IF z \in DOMAIN B THEN B[z] ELSE 0) + (IF z \in {y} THEN 1 ELSE 0)
  BY DEF SetToBag, (+)
<1>3. \A z \in DOMAIN B : B[z] \in Nat /\ B[z] > 0
  BY DEF IsABag
<1>4. \A z \in DOMAIN C : C[z] \in {n \in Nat : n > 0}
  BY <1>1, <1>2, <1>3
<1>5. C = [z \in DOMAIN C |-> C[z]]
  BY DEF SetToBag, (+)
<1>6. IsABag(C)
  BY <1>4, <1>5 DEF IsABag
<1> QED
  BY <1>1, <1>2, <1>3, <1>6 DEF BagToSet

LEMMA TakeOut ==
  ASSUME NEW B, IsABag(B), NEW x \in BagToSet(B), NEW C, C = B (-) SetToBag({x})
  PROVE  /\ IsABag(C) /\ BagToSet(C) \subseteq BagToSet(B)
         /\ \A z \in BagToSet(B) : z # x => z \in BagToSet(C) /\ C[z] = B[z]
         /\ B[x] = 1 => x \notin BagToSet(C)
<1> DEFINE D == [e \in DOMAIN B |-> IF e \in {x} THEN B[e] - 1 ELSE B[e]]
<1>1. /\ DOMAIN C = {d \in DOMAIN B : D[d] > 0}
      /\ C = [z \in DOMAIN C |-> C[z]]
      /\ \A z \in DOMAIN C : C[z] = D[z]
  BY DEF SetToBag, (-), D
<1>2. \A z \in DOMAIN B : B[z] \in Nat /\ B[z] > 0
  BY DEF IsABag
<1>3. \A z \in DOMAIN B : D[z] = IF z = x THEN B[z] - 1 ELSE B[z]
  OBVIOUS
<1> HIDE DEF D
<1>4. \A z \in DOMAIN C : C[z] \in {n \in Nat : n > 0}
  <2> SUFFICES ASSUME NEW z \in DOMAIN C PROVE C[z] \in Nat /\ C[z] > 0
    OBVIOUS
  <2>1. z \in DOMAIN B /\ D[z] > 0 /\ C[z] = D[z]
    BY <1>1
  <2>2. D[z] \in Int
    BY <1>2, <1>3, <2>1
  <2> QED
    BY <2>1, <2>2
<1>5. IsABag(C)
  BY <1>1, <1>4 DEF IsABag
<1>6. ASSUME NEW z \in DOMAIN B, z # x PROVE z \in DOMAIN C /\ C[z] = B[z]
  BY <1>1, <1>2, <1>3, <1>6
<1>7. B[x] = 1 => x \notin DOMAIN C
  BY <1>1, <1>3 DEF BagToSet
<1> QED
  BY <1>1, <1>5, <1>6, <1>7 DEF BagToSet

(***************************************************************************)
(* inflight, by the three ways it changes.                                 *)
(***************************************************************************)

LEMMA SpawnAdds ==
  ASSUME IsABag(inflight), NEW x, Spawn(x)
  PROVE  /\ IsABag(inflight)' /\ BagToSet(inflight') = BagToSet(inflight) \cup {x}
         /\ \A z \in BagToSet(inflight) : z # x => inflight'[z] = inflight[z]
         /\ x \notin BagToSet(inflight) => inflight'[x] = 1
  BY PutIn DEF Spawn

LEMMA DoneTakes ==
  ASSUME IsABag(inflight), NEW x \in BagToSet(inflight), Done(x)
  PROVE  /\ IsABag(inflight)' /\ BagToSet(inflight') \subseteq BagToSet(inflight)
         /\ \A z \in BagToSet(inflight) :
              z # x => z \in BagToSet(inflight') /\ inflight'[z] = inflight[z]
         /\ inflight[x] = 1 => x \notin BagToSet(inflight')
  BY TakeOut DEF Done

LEMMA BecomeTurns ==
  ASSUME IsABag(inflight), NEW x \in BagToSet(inflight), NEW y, x # y, Become(x, y)
  PROVE  /\ IsABag(inflight)' /\ BagToSet(inflight') \subseteq BagToSet(inflight) \cup {y}
         /\ y \in BagToSet(inflight')
         /\ \A z \in BagToSet(inflight) :
              z \notin {x, y} => z \in BagToSet(inflight') /\ inflight'[z] = inflight[z]
         /\ inflight[x] = 1 => x \notin BagToSet(inflight')
         /\ y \notin BagToSet(inflight) => inflight'[y] = 1
<1> DEFINE B == inflight (-) SetToBag({x})
<1>1. /\ IsABag(B) /\ BagToSet(B) \subseteq BagToSet(inflight)
      /\ \A z \in BagToSet(inflight) : z # x => z \in BagToSet(B) /\ B[z] = inflight[z]
      /\ inflight[x] = 1 => x \notin BagToSet(B)
  BY TakeOut
<1>2. inflight' = B (+) SetToBag({y})
  BY DEF Become
<1> HIDE DEF B
<1>3. \A C : C = B (+) SetToBag({y}) =>
        /\ IsABag(C) /\ BagToSet(C) = BagToSet(B) \cup {y}
        /\ \A z \in BagToSet(B) : z # y => C[z] = B[z]
        /\ y \notin BagToSet(B) => C[y] = 1
  BY <1>1, PutIn
<1> QED
  BY <1>1, <1>2, <1>3

FlowKept(o) == Flow(o)' = Flow(o) /\ \A z \in Flow(o) : inflight'[z] = inflight[z]

\* A chat does not notice what is not its own.
LEMMA Elsewhere ==
  ASSUME IsABag(inflight), NEW o, NEW x, ~OfChat(x, o),
         \/ Spawn(x)
         \/ x \in BagToSet(inflight) /\ Done(x)
         \/ /\ x \in BagToSet(inflight)
            /\ \E y : ~OfChat(y, o) /\ x # y /\ Become(x, y)
  PROVE  FlowKept(o)
<1>1. CASE Spawn(x)
  BY <1>1, SpawnAdds DEF Flow, FlowKept, OfChat
<1>2. CASE x \in BagToSet(inflight) /\ Done(x)
  BY <1>2, DoneTakes DEF Flow, FlowKept, OfChat
<1>3. ASSUME x \in BagToSet(inflight), NEW y, ~OfChat(y, o), x # y, Become(x, y)
      PROVE  FlowKept(o)
  BY <1>3, BecomeTurns DEF Flow, FlowKept, OfChat
<1> QED
  BY <1>1, <1>2, <1>3

(***************************************************************************)
(* Types.                                                                  *)
(***************************************************************************)
USE ChatConstants, AppConstants

LEMMA ReaderTyped ==
  ASSUME ChatSessionTypeOK, NEW o \in Opens,
         ReaderStep(o) \/ Receive(o) \/ Lose(o) \/ Connect(o) \/ Take(o)
           \/ CancelAndClose(o) \/ Recycle(o)
  PROVE  ChatSessionTypeOK'
<1> USE DEF ChatSessionTypeOK, Reader, InHand, Disconnected
<1>1. CASE Push(o)
  <2>1. InHand(o) \in Nat /\ InHand(o) <= Sent[o]
    OBVIOUS
  <2>2. /\ Append(msgChan[o], InHand(o)) \in Seq(Nat)
        /\ Len(Append(msgChan[o], InHand(o))) = Len(msgChan[o]) + 1
        /\ \A i \in DOMAIN Append(msgChan[o], InHand(o)) :
             Append(msgChan[o], InHand(o))[i] <= Sent[o]
    BY <2>1
  <2>3. PICK q : q = Append(msgChan[o], InHand(o))
    OBVIOUS
  <2>4. /\ Len(msgChan[o]) < ChanCap /\ msgChan' = [msgChan EXCEPT ![o] = q]
        /\ reader' \in [Opens -> {"none", "reading", "sending", "parting", "leaving", "ended"}]
        /\ UNCHANGED <<conn, received, cancelled>>
    BY <1>1, <2>3 DEF Push
  <2>5. q \in Seq(Nat) /\ Len(q) <= ChanCap /\ \A i \in DOMAIN q : q[i] <= Sent[o]
    BY <2>2, <2>3, <2>4
  <2> QED
    BY <2>4, <2>5
<1>2. CASE Take(o)
  <2>1. /\ Tail(msgChan[o]) \in Seq(Nat)
        /\ Len(Tail(msgChan[o])) <= Len(msgChan[o])
        /\ \A i \in DOMAIN Tail(msgChan[o]) : Tail(msgChan[o])[i] <= Sent[o]
    BY <1>2 DEF Take
  <2> QED
    BY <1>2, <2>1, SMTT(40) DEF Take
<1>3. CASE ReceiveFails(o) \/ GiveUp(o) \/ ReaderEnds(o)
  BY <1>3 DEF ReceiveFails, GiveUp, ReaderEnds
<1>4. CASE Receive(o)
  BY <1>4 DEF Receive
<1>6. CASE Lose(o) \/ Connect(o) \/ CancelAndClose(o)
  BY <1>6 DEF Lose, Connect, CancelAndClose
<1>5. CASE Recycle(o)
  BY <1>5 DEF Recycle
<1> QED
  BY <1>1, <1>2, <1>3, <1>4, <1>5, <1>6 DEF ReaderStep

\* What a command or a message of each kind carries.
LEMMA Carried ==
  ASSUME NEW x \in Commands \cup Messages
  PROVE  /\ "do" \in DOMAIN x =>
              /\ "msg" \notin DOMAIN x
              /\ x.do \in {"doLogin", "doRegister"} => x.nick \in Nicknames
              /\ x.do = "waitForMessage" =>
                   x.chat \in Opens /\ x = [do |-> "waitForMessage", chat |-> x.chat]
         /\ "msg" \in DOMAIN x =>
              /\ "do" \notin DOMAIN x
              /\ x.msg \in {"loginSuccess", "registerSuccess"} => x.nick \in Nicknames
              /\ x.msg = "loginSuccess" => x = [msg |-> "loginSuccess", nick |-> x.nick]
              /\ x.msg = "switchToAuth" => x.mode \in Forms
              /\ x.msg = "incoming" => x.chat \in Opens /\ x.n \in Nat
         /\ "chat" \in DOMAIN x =>
              \/ "do" \in DOMAIN x /\ x.do = "waitForMessage"
              \/ "msg" \in DOMAIN x /\ x.msg = "incoming"
<1>1. CASE x \in [do : {"doLogin", "doRegister"}, nick : Nicknames]
  BY <1>1
<1>2. CASE x \in [do : {"startChat"}]
  BY <1>2
<1>3. CASE x \in [do : {"waitForMessage"}, chat : Opens]
  BY <1>3
<1>4. CASE x \in [msg : {"loginSuccess", "registerSuccess"}, nick : Nicknames]
  BY <1>4
<1>5. CASE x \in [msg : {"switchToAuth"}, mode : Forms]
  BY <1>5
<1>6. CASE x \in [msg : {"switchToChat", "switchToApp"}]
  BY <1>6
<1>7. CASE x \in [msg : {"incoming"}, chat : Opens, n : Nat]
  BY <1>7
<1> QED
  BY <1>1, <1>2, <1>3, <1>4, <1>5, <1>6, <1>7 DEF Commands, Messages

LEMMA Kinds ==
  /\ \A n \in Nicknames : /\ [do |-> "doLogin", nick |-> n] \in Commands
                          /\ [do |-> "doRegister", nick |-> n] \in Commands
                          /\ [msg |-> "loginSuccess", nick |-> n] \in Messages
                          /\ [msg |-> "registerSuccess", nick |-> n] \in Messages
  /\ \A o \in Opens : /\ [do |-> "waitForMessage", chat |-> o] \in Commands
                      /\ \A n \in Nat : [msg |-> "incoming", chat |-> o, n |-> n] \in Messages
  /\ \A mode \in Forms : [msg |-> "switchToAuth", mode |-> mode] \in Messages
  /\ [do |-> "startChat"] \in Commands
  /\ [msg |-> "switchToApp"] \in Messages /\ [msg |-> "switchToChat"] \in Messages
  BY DEF Commands, Messages

InflightOK == IsABag(inflight) /\ BagToSet(inflight) \subseteq Commands \cup Messages

LEMMA InflightTyped ==
  ASSUME InflightOK, NEW x,
         \/ x \in Commands \cup Messages /\ Spawn(x)
         \/ x \in BagToSet(inflight) /\ Done(x)
         \/ x \in BagToSet(inflight) /\ \E y \in Commands \cup Messages : x # y /\ Become(x, y)
  PROVE  InflightOK'
<1>1. CASE x \in Commands \cup Messages /\ Spawn(x)
  BY <1>1, SpawnAdds DEF InflightOK
<1>2. CASE x \in BagToSet(inflight) /\ Done(x)
  BY <1>2, DoneTakes DEF InflightOK
<1>3. ASSUME x \in BagToSet(inflight), NEW y \in Commands \cup Messages, x # y, Become(x, y)
      PROVE  InflightOK'
  BY <1>3, BecomeTurns DEF InflightOK
<1> QED
  BY <1>1, <1>2, <1>3

LEMMA KeysTyped ==
  ASSUME ClientTypeOK, Keys
  PROVE  ClientTypeOK'
<1> USE DEF Key
<1>1. CASE Quit
  BY <1>1 DEF Quit, ClientTypeOK, ChatSessionTypeOK, sessionVars, Somebody
<1>2. CASE Submit \/ Esc
  <2>1. PICK x \in Commands \cup Messages : Spawn(x)
    BY <1>2, Kinds DEF Submit, Esc
  <2>2. InflightOK'
    BY <2>1, InflightTyped DEF ClientTypeOK, InflightOK
  <2> QED
    BY <1>2, <2>2
       DEF Submit, Esc, ClientTypeOK, ChatSessionTypeOK, sessionVars, InflightOK
<1>3. CASE SubmitForm
  <2>1. PICK x \in Commands \cup Messages : Spawn(x)
    BY <1>3, Kinds DEF SubmitForm
  <2>2. InflightOK'
    BY <2>1, InflightTyped DEF ClientTypeOK, InflightOK
  <2> QED
    BY <1>3, <2>2
       DEF SubmitForm, ClientTypeOK, ChatSessionTypeOK, sessionVars, InflightOK
<1> QED
  BY <1>1, <1>2, <1>3 DEF Keys

LEMMA CommandsTyped ==
  ASSUME ClientTypeOK, NEW c \in BagToSet(inflight), Command(c)
  PROVE  ClientTypeOK'
<1>1. /\ c \in Commands \cup Messages /\ "do" \in DOMAIN c
      /\ \A m \in Messages : c # m
  <2>1. c \in Commands \cup Messages /\ "do" \in DOMAIN c
    BY DEF ClientTypeOK, Command
  <2>2. \A m \in Messages : "msg" \in DOMAIN m
    BY DEF Messages
  <2>3. "msg" \notin DOMAIN c
    BY <2>1, Carried
  <2> QED
    BY <2>1, <2>2, <2>3
<1>2. ASSUME Done(c) \/ \E m \in Messages : Become(c, m)
      PROVE  InflightOK'
  BY <1>1, <1>2, InflightTyped DEF ClientTypeOK, InflightOK
<1> USE DEF CommandRest
<1>3. CASE DoLogin(c)
  <2>1. c.nick \in Nicknames
    BY <1>1, <1>3, Carried DEF DoLogin
  <2>2. InflightOK'
    BY <1>2, <1>3, <2>1, Kinds DEF DoLogin
  <2>3. adrift' \in BOOLEAN
    BY <1>3 DEF DoLogin, Crosses, ClientTypeOK
  <2> QED
    BY <1>3, <2>1, <2>2, <2>3
       DEF DoLogin, ClientTypeOK, ChatSessionTypeOK, sessionVars, InflightOK, Somebody
<1>4. CASE DoRegister(c)
  <2>1. c.nick \in Nicknames
    BY <1>1, <1>4, Carried DEF DoRegister
  <2>2. InflightOK'
    BY <1>2, <1>4, <2>1, Kinds DEF DoRegister
  <2> QED
    BY <1>4, <2>1, <2>2
       DEF DoRegister, CreateUser, ClientTypeOK, ChatSessionTypeOK, sessionVars, InflightOK
<1>5. CASE StartChat(c)
  <2>1. InflightOK'
    BY <1>2, <1>5, Kinds DEF StartChat
  <2> QED
    BY <1>5, <2>1
       DEF StartChat, ClientTypeOK, ChatSessionTypeOK, sessionVars, InflightOK
<1>6. CASE WaitForMessage(c)
  <2>1. c.chat \in Opens
    BY <1>1, <1>6, Carried DEF WaitForMessage
  <2>2. CASE Take(c.chat) /\ Become(c, [msg |-> "incoming", chat |-> c.chat,
                                         n |-> Head(msgChan[c.chat])])
    <3>1. Head(msgChan[c.chat]) \in Nat
      BY <2>1, <2>2 DEF Take, ClientTypeOK, ChatSessionTypeOK
    <3>2. InflightOK'
      BY <1>2, <2>1, <2>2, <3>1, Kinds
    <3>3. ChatSessionTypeOK'
      BY <2>1, <2>2, ReaderTyped DEF ClientTypeOK
    <3> QED
      BY <1>6, <3>2, <3>3 DEF WaitForMessage, ClientTypeOK, InflightOK
  <2>3. CASE Done(c) /\ UNCHANGED sessionVars
    <3>1. InflightOK'
      BY <1>2, <2>3
    <3> QED
      BY <1>6, <2>3, <3>1
         DEF WaitForMessage, ClientTypeOK, ChatSessionTypeOK, sessionVars, InflightOK
  <2> QED
    BY <1>6, <2>2, <2>3 DEF WaitForMessage
<1> QED
  BY <1>3, <1>4, <1>5, <1>6 DEF Command

\* What a chat screen is given.
Entries == [chat : Opens, n : Nat]

LEMMA ShownTyped ==
  ASSUME shown \in [Opens -> Seq(Entries)], NEW o \in Opens
  PROVE  /\ [shown EXCEPT ![o] = <<>>] \in [Opens -> Seq(Entries)]
         /\ \A v \in Entries :
              [shown EXCEPT ![o] = Append(@, v)] \in [Opens -> Seq(Entries)]
  OBVIOUS

LEMMA UpdatesTyped ==
  ASSUME ClientTypeOK, NEW m \in BagToSet(inflight), Update(m)
  PROVE  ClientTypeOK'
<1>1. /\ m \in Commands \cup Messages /\ "msg" \in DOMAIN m
      /\ \A c \in Commands : m # c
  <2>1. m \in Commands \cup Messages /\ "msg" \in DOMAIN m
    BY DEF ClientTypeOK, Update
  <2>2. \A c \in Commands : "do" \in DOMAIN c
    BY DEF Commands
  <2>3. "do" \notin DOMAIN m
    BY <2>1, Carried
  <2> QED
    BY <2>1, <2>2, <2>3
<1>2. ASSUME Done(m) \/ \E c \in Commands : Become(m, c)
      PROVE  InflightOK'
  BY <1>1, <1>2, InflightTyped DEF ClientTypeOK, InflightOK
<1>7. adrift' \in BOOLEAN
  BY DEF Update, LoginSuccess, ClientTypeOK
<1> USE DEF Update, ToApp
<1>3. CASE LoginSuccess(m) \/ RegisterSuccess(m) \/ SwitchToAuth(m)
  <2>1. InflightOK'
    BY <1>2, <1>3 DEF LoginSuccess, RegisterSuccess, SwitchToAuth
  <2>2. /\ m.msg = "loginSuccess" => m.nick \in Nicknames
        /\ m.msg = "switchToAuth" => m.mode \in Forms
    BY <1>1, Carried
  <2>3. user' \in Somebody /\ screen' \in {"app", "quit"} \cup Forms \cup Opens
    BY <1>3, <2>2
       DEF LoginSuccess, RegisterSuccess, SwitchToAuth, ClientTypeOK, Somebody
  <2>4. UNCHANGED <<sessionVars, accounts, session, shown>>
    BY <1>3 DEF LoginSuccess, RegisterSuccess, SwitchToAuth
  <2> QED
    BY <1>7, <2>1, <2>3, <2>4
       DEF ClientTypeOK, ChatSessionTypeOK, sessionVars, InflightOK
<1>4. CASE SwitchToChat(m)
  <2>1. CASE /\ Free # {} /\ Connect(NextChat) /\ screen' = NextChat
             /\ Become(m, [do |-> "waitForMessage", chat |-> NextChat])
    <3>1. NextChat \in Opens
      BY <2>1 DEF NextChat, Free
    <3>2. InflightOK'
      BY <1>2, <2>1, <3>1, Kinds
    <3>3. ChatSessionTypeOK'
      BY <2>1, <3>1, ReaderTyped DEF ClientTypeOK
    <3> QED
      BY <1>4, <1>7, <2>1, <3>1, <3>2, <3>3 DEF SwitchToChat, ClientTypeOK, InflightOK
  <2>2. CASE Done(m) /\ UNCHANGED <<sessionVars, screen>>
    <3>1. InflightOK'
      BY <1>2, <2>2
    <3> QED
      BY <1>4, <1>7, <2>2, <3>1
         DEF SwitchToChat, ClientTypeOK, ChatSessionTypeOK, sessionVars, InflightOK
  <2> QED
    BY <1>4, <2>1, <2>2 DEF SwitchToChat
<1>5. CASE SwitchToApp(m)
  <2>1. InflightOK'
    BY <1>2, <1>5 DEF SwitchToApp
  <2>2. ChatSessionTypeOK'
    BY <1>5, ReaderTyped DEF SwitchToApp, ClientTypeOK, ChatSessionTypeOK, sessionVars
  <2>3. shown' \in [Opens -> Seq([chat : Opens, n : Nat])]
    <3>1. shown \in [Opens -> Seq(Entries)]
      BY DEF ClientTypeOK, Entries
    <3>2. \/ screen \in Opens /\ shown' = [shown EXCEPT ![screen] = <<>>]
          \/ shown' = shown
      BY <1>5 DEF SwitchToApp
    <3>3. shown' \in [Opens -> Seq(Entries)]
      BY <3>1, <3>2, ShownTyped
    <3> QED
      BY <3>3 DEF Entries
  <2> QED
    BY <1>5, <1>7, <2>1, <2>2, <2>3 DEF SwitchToApp, ClientTypeOK, InflightOK
<1>6. CASE Incoming(m)
  <2>1. /\ m.chat \in Opens /\ m.n \in Nat
        /\ [chat |-> m.chat, n |-> m.n] \in [chat : Opens, n : Nat]
    BY <1>1, <1>6, Carried DEF Incoming
  <2>2. InflightOK'
    BY <1>2, <1>6, Kinds DEF Incoming
  <2>3. shown' \in [Opens -> Seq([chat : Opens, n : Nat])]
    <3>1. PICK v : v = [chat |-> m.chat, n |-> m.n]
      OBVIOUS
    <3>2. v \in Entries /\ shown \in [Opens -> Seq(Entries)]
      BY <2>1, <3>1 DEF ClientTypeOK, Entries
    <3>3. \/ screen \in Opens /\ shown' = [shown EXCEPT ![screen] = Append(@, v)]
          \/ shown' = shown
      BY <1>6, <3>1 DEF Incoming
    <3>4. shown' \in [Opens -> Seq(Entries)]
      BY <3>2, <3>3, ShownTyped
    <3> QED
      BY <3>4 DEF Entries
  <2> QED
    BY <1>6, <1>7, <2>2, <2>3
       DEF Incoming, ClientTypeOK, ChatSessionTypeOK, sessionVars, InflightOK
<1> QED
  BY <1>3, <1>4, <1>5, <1>6

LEMMA ClientTyped ==
  ASSUME ClientTypeOK, [ClientNext]_clientVars
  PROVE  ClientTypeOK'
<1>1. ASSUME NEW o \in Opens, Peer(o) \/ ChatStep(o) \/ Forget(o)
      PROVE  ClientTypeOK'
  <2>1. ChatSessionTypeOK'
    BY <1>1, ReaderTyped DEF Peer, ChatStep, Forget, ClientTypeOK
  <2> QED
    BY <1>1, <2>1 DEF Peer, ChatStep, Forget, ClientTypeOK, appVars
<1>2. CASE UNCHANGED clientVars
  BY <1>2 DEF clientVars, sessionVars, appVars, ClientTypeOK, ChatSessionTypeOK
<1> QED
  BY <1>1, <1>2, KeysTyped, CommandsTyped, UpdatesTyped DEF ClientNext

\* The screens, the chats and what is under way keep their types.
THEOREM ClientTypes == ClientSpec => []ClientTypeOK
<1>1. ClientInit => ClientTypeOK
  <2>1. ClientInit => ChatSessionTypeOK
    BY DEF ClientInit, ChatSessionInit, ChatSessionTypeOK
  <2>2. ClientInit => InflightOK
    BY DEF ClientInit, InflightOK, IsABag, BagToSet, EmptyBag, SetToBag
  <2>3. ClientInit => shown \in [Opens -> Seq([chat : Opens, n : Nat])]
    BY DEF ClientInit
  <2>4. ClientInit => adrift \in BOOLEAN
    BY DEF ClientInit
  <2> QED
    BY <2>1, <2>2, <2>3, <2>4 DEF ClientInit, ClientTypeOK, InflightOK, Somebody
<1> QED
  BY <1>1, ClientTyped, PTL DEF ClientSpec

(***************************************************************************)
(* Whose the screen is.                                                    *)
(***************************************************************************)

LEMMA ScreenKept ==
  ASSUME ClientTypeOK, ScreenOwnsChat, [ClientNext]_clientVars
  PROVE  ScreenOwnsChat'
<1> USE DEF ScreenOwnsChat
<1>1. CASE UNCHANGED clientVars \/ (On /\ Keys)
  BY <1>1 DEF clientVars, sessionVars, appVars, Keys, Submit, SubmitForm, Esc, Quit, Key
<1>2. ASSUME On, NEW c \in BagToSet(inflight), Command(c)
      PROVE  ScreenOwnsChat'
  BY <1>2 DEF Command, DoLogin, DoRegister, StartChat, WaitForMessage, CommandRest, Take,
              sessionVars
<1>3. ASSUME On, NEW m \in BagToSet(inflight), Update(m)
      PROVE  ScreenOwnsChat'
  <2>1. screen \in {"app"} \cup Forms => \A o \in Opens : conn[o] \notin {"up", "lost"}
    BY <1>3 DEF Forms
  <2>2. CASE LoginSuccess(m) \/ RegisterSuccess(m) \/ SwitchToAuth(m) \/ Incoming(m)
    BY <2>1, <2>2
       DEF LoginSuccess, RegisterSuccess, SwitchToAuth, Incoming, ToApp, sessionVars
  <2>3. CASE SwitchToChat(m)
    BY <2>1, <2>3 DEF SwitchToChat, Connect, sessionVars, ClientTypeOK, ChatSessionTypeOK
  <2>4. CASE SwitchToApp(m)
    <3>1. CASE screen \in Opens /\ CancelAndClose(screen)
      BY <1>3, <3>1 DEF CancelAndClose, On, ClientTypeOK, ChatSessionTypeOK
    <3>2. CASE screen \notin Opens /\ UNCHANGED sessionVars
      BY <1>3, <3>2 DEF On, sessionVars
    <3> QED
      BY <2>4, <3>1, <3>2 DEF SwitchToApp
  <2> QED
    BY <1>3, <2>2, <2>3, <2>4 DEF Update
<1>4. ASSUME NEW o \in Opens, Peer(o) \/ ChatStep(o) \/ Forget(o)
      PROVE  ScreenOwnsChat'
  BY <1>4 DEF Peer, Receive, Lose, ChatStep, ReaderStep, ReceiveFails, Push, GiveUp,
              ReaderEnds, Forget, Recycle, appVars, ClientTypeOK, ChatSessionTypeOK
<1> QED
  BY <1>1, <1>2, <1>3, <1>4 DEF ClientNext

\* A connection that this end has not closed is of the chat on the screen, for any
\* number of chats and whatever messages come late to clientModel.Update.
THEOREM ScreenIsOfTheChat == ClientSpec => []ScreenOwnsChat
<1>1. ClientInit => ScreenOwnsChat
  BY DEF ClientInit, ChatSessionInit, ScreenOwnsChat
<1> QED
  BY <1>1, ClientTypes, ScreenKept, PTL DEF ClientSpec

(***************************************************************************)
(* The steps that are not about any chat.                                  *)
(***************************************************************************)

Plain == {x \in Commands \cup Messages : "chat" \notin DOMAIN x}

LEMMA PlainKinds ==
  /\ \A n \in Nicknames : /\ [do |-> "doLogin", nick |-> n] \in Plain
                          /\ [do |-> "doRegister", nick |-> n] \in Plain
                          /\ [msg |-> "loginSuccess", nick |-> n] \in Plain
                          /\ [msg |-> "registerSuccess", nick |-> n] \in Plain
  /\ \A mode \in Forms : [msg |-> "switchToAuth", mode |-> mode] \in Plain
  /\ [do |-> "startChat"] \in Plain
  /\ [msg |-> "switchToApp"] \in Plain /\ [msg |-> "switchToChat"] \in Plain
  BY Kinds DEF Plain

LEMMA PlainStep ==
  ASSUME IsABag(inflight), NEW o \in Opens, NEW x \in Plain,
         \/ Spawn(x)
         \/ x \in BagToSet(inflight) /\ Done(x)
         \/ x \in BagToSet(inflight) /\ \E y \in Plain : x # y /\ Become(x, y)
  PROVE  FlowKept(o)
  BY Elsewhere DEF Plain, OfChat

LEMMA KeysPlain ==
  ASSUME ClientTypeOK, NEW o \in Opens, Submit \/ SubmitForm \/ Esc
  PROVE  FlowKept(o)
<1>1. PICK x \in Plain : Spawn(x)
  BY PlainKinds DEF Submit, SubmitForm, Esc
<1> QED
  BY <1>1, PlainStep DEF ClientTypeOK

LEMMA CommandsPlain ==
  ASSUME ClientTypeOK, NEW o \in Opens, NEW c \in BagToSet(inflight), "do" \in DOMAIN c,
         DoLogin(c) \/ DoRegister(c) \/ StartChat(c)
  PROVE  FlowKept(o)
<1>1. c \in Commands \cup Messages
  BY DEF ClientTypeOK
<1>2. c.do \in {"doLogin", "doRegister", "startChat"}
  BY DEF DoLogin, DoRegister, StartChat
<1>3. c \in Plain /\ (c.do # "startChat" => c.nick \in Nicknames)
  BY <1>1, <1>2, Carried DEF Plain
<1>4. \A y : "msg" \in DOMAIN y => c # y
  BY <1>1, Carried
<1>5. Done(c) \/ \E y \in Plain : "msg" \in DOMAIN y /\ Become(c, y)
  BY <1>3, PlainKinds DEF DoLogin, DoRegister, StartChat
<1> QED
  BY <1>3, <1>4, <1>5, PlainStep DEF ClientTypeOK

LEMMA UpdatesPlain ==
  ASSUME ClientTypeOK, NEW o \in Opens, NEW m \in BagToSet(inflight), "msg" \in DOMAIN m,
         Done(m), m.msg # "incoming"
  PROVE  FlowKept(o)
<1>1. m \in Plain
  BY Carried DEF ClientTypeOK, Plain
<1> QED
  BY <1>1, PlainStep DEF ClientTypeOK

LEMMA FreshKept ==
  ASSUME ClientTypeOK, Fresh, [ClientNext]_clientVars
  PROVE  Fresh'
<1>1. CASE UNCHANGED clientVars
  BY <1>1 DEF clientVars, sessionVars, appVars, Fresh, Flow, OfChat
<1>2. CASE On /\ Quit
  BY <1>2 DEF Quit, sessionVars, Fresh, Flow, OfChat, On
<1>3. CASE Submit \/ SubmitForm \/ Esc
  <2>1. \A o \in Opens : Flow(o)' = Flow(o)
    BY <1>3, KeysPlain DEF FlowKept
  <2> QED
    BY <1>3, <2>1 DEF Submit, SubmitForm, Esc, Key, sessionVars, Fresh
<1>4. ASSUME On, NEW c \in BagToSet(inflight), Command(c)
      PROVE  Fresh'
  <2>1. CASE DoLogin(c) \/ DoRegister(c) \/ StartChat(c)
    <3>1. \A o \in Opens : Flow(o)' = Flow(o)
      BY <1>4, <2>1, CommandsPlain DEF FlowKept, Command
    <3>2. UNCHANGED <<sessionVars, screen, shown>>
      BY <2>1 DEF DoLogin, DoRegister, StartChat, CommandRest
    <3> QED
      BY <3>1, <3>2 DEF sessionVars, Fresh
  <2>2. CASE WaitForMessage(c)
    <3>1. /\ c \in Commands \cup Messages /\ "do" \in DOMAIN c /\ c.chat \in Opens
          /\ "chat" \in DOMAIN c
      BY <1>4, <2>2, Carried DEF ClientTypeOK, Command, WaitForMessage
    <3>2. c \in Flow(c.chat)
      BY <3>1 DEF Flow, OfChat
    <3>3. conn[c.chat] # "none"
      BY <3>1, <3>2 DEF Fresh
    <3>4. ASSUME NEW o \in Opens, o # c.chat
          PROVE  Flow(o)' = Flow(o) /\ msgChan'[o] = msgChan[o]
      <4>1. ~OfChat(c, o)
        BY <3>4 DEF OfChat
      <4>2. Done(c) \/ \E y : "msg" \in DOMAIN y /\ ~OfChat(y, o) /\ Become(c, y)
        BY <2>2, <3>4 DEF WaitForMessage, OfChat
      <4>3. \A y : "msg" \in DOMAIN y => c # y
        BY <3>1, Carried
      <4>4. Flow(o)' = Flow(o)
        BY <4>1, <4>2, <4>3, Elsewhere DEF ClientTypeOK, FlowKept
      <4> QED
        BY <2>2, <3>1, <3>4, <4>4
           DEF WaitForMessage, Take, sessionVars, ClientTypeOK, ChatSessionTypeOK
    <3>5. UNCHANGED <<conn, reader, received, screen, shown>>
      BY <2>2 DEF WaitForMessage, Take, sessionVars
    <3> QED
      BY <3>1, <3>3, <3>4, <3>5 DEF Fresh
  <2> QED
    BY <1>4, <2>1, <2>2 DEF Command
<1>5. ASSUME On, NEW m \in BagToSet(inflight), Update(m)
      PROVE  Fresh'
  <2>1. m \in Commands \cup Messages /\ "msg" \in DOMAIN m
    BY <1>5 DEF ClientTypeOK, Update
  <2>2. ASSUME Done(m), m.msg # "incoming"
        PROVE  \A o \in Opens : Flow(o)' = Flow(o)
    BY <2>1, <2>2, UpdatesPlain DEF FlowKept
  <2>3. CASE LoginSuccess(m) \/ RegisterSuccess(m) \/ SwitchToAuth(m)
    <3>1. \A o \in Opens : Flow(o)' = Flow(o)
      BY <2>2, <2>3 DEF LoginSuccess, RegisterSuccess, SwitchToAuth
    <3>2. /\ UNCHANGED <<conn, reader, received, msgChan, cancelled, shown>>
          /\ \/ screen' = screen
             \/ screen \in {"app"} \cup Forms /\ screen' \in {"app"} \cup Forms
      BY <2>1, <2>3, Carried
         DEF LoginSuccess, RegisterSuccess, SwitchToAuth, ToApp, sessionVars
    <3> QED
      BY <3>1, <3>2 DEF Fresh, Forms
  <2>4. CASE SwitchToChat(m) /\ Done(m) /\ UNCHANGED <<sessionVars, screen>>
    <3>1. UNCHANGED shown /\ m.msg # "incoming"
      BY <2>4 DEF SwitchToChat
    <3> QED
      BY <2>2, <2>4, <3>1 DEF Fresh, sessionVars
  <2>5. CASE /\ SwitchToChat(m) /\ screen = "app" /\ Free # {}
             /\ Connect(NextChat) /\ screen' = NextChat
             /\ Become(m, [do |-> "waitForMessage", chat |-> NextChat])
    <3>1. NextChat \in Opens
      BY <2>5 DEF NextChat, Free
    <3>2. ASSUME NEW o \in Opens, o # NextChat
          PROVE  Flow(o)' = Flow(o)
      BY <2>1, <2>5, <3>2, Carried, Elsewhere
         DEF SwitchToChat, ClientTypeOK, FlowKept, OfChat
    <3>3. \A o \in Opens : shown[o] = <<>>
      BY <2>5 DEF Fresh
    <3> QED
      BY <2>5, <3>1, <3>2, <3>3
         DEF SwitchToChat, Connect, Fresh, ClientTypeOK, ChatSessionTypeOK
  <2>6. CASE SwitchToApp(m)
    <3>1. \A o \in Opens : Flow(o)' = Flow(o)
      BY <2>2, <2>6 DEF SwitchToApp
    <3>2. CASE screen \in Opens /\ CancelAndClose(screen)
      <4>1. \A o \in Opens : o # screen => shown[o] = <<>> /\ shown'[o] = <<>>
        BY <1>5, <2>6, <3>2 DEF SwitchToApp, Fresh, On, ClientTypeOK
      <4>2. \/ screen' = "app" /\ shown'[screen] = <<>>
            \/ screen' = screen /\ shown'[screen] = shown[screen]
        BY <2>6, <3>2 DEF SwitchToApp, ToApp, ClientTypeOK
      <4> QED
        BY <3>1, <3>2, <4>1, <4>2
           DEF CancelAndClose, Fresh, ClientTypeOK, ChatSessionTypeOK
    <3>3. CASE screen \notin Opens /\ ToApp /\ UNCHANGED <<sessionVars, shown>>
      BY <1>5, <3>1, <3>3 DEF ToApp, sessionVars, Fresh, On
    <3> QED
      BY <2>6, <3>2, <3>3 DEF SwitchToApp
  <2>7. CASE Incoming(m)
    <3>1. ASSUME NEW o \in Opens, o # screen
          PROVE  Flow(o)' \subseteq Flow(o) /\ shown'[o] = shown[o]
      <4>1. BagToSet(inflight') \subseteq
              BagToSet(inflight) \cup {[do |-> "waitForMessage", chat |-> screen]}
        BY <2>1, <2>7, Carried, BecomeTurns, DoneTakes DEF Incoming, ClientTypeOK
      <4>2. Flow(o)' \subseteq Flow(o)
        BY <3>1, <4>1 DEF Flow, OfChat
      <4> QED
        BY <2>7, <3>1, <4>2 DEF Incoming, ClientTypeOK
    <3>2. UNCHANGED <<conn, reader, received, msgChan, screen>>
      BY <2>7 DEF Incoming, sessionVars
    <3> QED
      BY <1>5, <3>1, <3>2 DEF Fresh, On
  <2> QED
    BY <1>5, <2>3, <2>4, <2>5, <2>6, <2>7 DEF Update, SwitchToChat
<1>6. ASSUME On, NEW o \in Opens, Peer(o) \/ ChatStep(o)
      PROVE  Fresh'
  <2>1. \A p \in Opens : Flow(p)' = Flow(p)
    BY <1>6 DEF Peer, ChatStep, appVars, Flow, OfChat
  <2>2. conn[o] # "none"
    BY <1>6 DEF Peer, ChatStep, Fresh, Receive, Lose, ReaderStep, ReceiveFails, Push,
                GiveUp, ReaderEnds, Reader
  <2>3. \A p \in Opens : p # o => /\ conn'[p] = conn[p] /\ reader'[p] = reader[p]
                                  /\ received'[p] = received[p] /\ msgChan'[p] = msgChan[p]
    BY <1>6 DEF Peer, ChatStep, Receive, Lose, ReaderStep, ReceiveFails, Push,
                GiveUp, ReaderEnds, Reader, ClientTypeOK, ChatSessionTypeOK
  <2>4. conn'[o] # "none" /\ UNCHANGED <<screen, shown>>
    BY <1>6, <2>2
       DEF Peer, ChatStep, appVars, Receive, Lose, ReaderStep, ReceiveFails, Push,
           GiveUp, ReaderEnds, ClientTypeOK, ChatSessionTypeOK
  <2> QED
    BY <2>1, <2>2, <2>3, <2>4 DEF Fresh
<1>7. ASSUME On, NEW o \in Opens, Forget(o)
      PROVE  Fresh'
  <2>1. \A p \in Opens : Flow(p)' = Flow(p)
    BY <1>7 DEF Forget, appVars, Flow, OfChat
  <2>2. Flow(o) = {}
    BY <1>7 DEF Forget, Flow, OfChat
  <2> QED
    BY <1>7, <2>1, <2>2
       DEF Forget, Recycle, appVars, Fresh, ClientTypeOK, ChatSessionTypeOK
<1> QED
  BY <1>1, <1>2, <1>3, <1>4, <1>5, <1>6, <1>7 DEF ClientNext, Keys

(***************************************************************************)
(* What a chat shows, step by step.                                        *)
(***************************************************************************)

LEMMA LineKept ==
  ASSUME NEW o \in Opens, OneWait(o), InLine(o), FlowKept(o),
         shown'[o] = shown[o], reader'[o] = reader[o],
         received'[o] = received[o], msgChan'[o] = msgChan[o]
  PROVE  OneWait(o)' /\ InLine(o)'
<1>1. Brought(o)' = Brought(o)
  BY DEF Brought, FlowKept
<1>2. Given(o)' = Given(o) /\ Buffered(o)' = Buffered(o) /\ Fed(o)' = Fed(o)
  BY <1>1 DEF Given, Buffered, Fed
<1>3. OneWait(o)'
  BY DEF OneWait, FlowKept
<1>4. InLine(o)'
  BY <1>1, <1>2 DEF InLine, Place
<1> QED
  BY <1>3, <1>4

LEMMA FedNatural ==
  ASSUME ClientTypeOK, NEW o \in Opens
  PROVE  /\ Fed(o) \in Nat /\ Given(o) \in Nat /\ Buffered(o) \in Nat
         /\ Brought(o) = {} => Fed(o) = Given(o) + Buffered(o)
         /\ Brought(o) # {} => Fed(o) = Given(o) + 1 + Buffered(o)
<1>1. Given(o) \in Nat /\ Buffered(o) \in Nat
  BY DEF ClientTypeOK, ChatSessionTypeOK, Given, Buffered
<1> QED
  BY <1>1 DEF Fed

LEMMA PushInLine ==
  ASSUME ClientTypeOK, NEW o \in Opens, OneWait(o), InLine(o), Push(o),
         UNCHANGED <<shown, inflight>>
  PROVE  OneWait(o)' /\ InLine(o)'
<1>1. /\ Flow(o)' = Flow(o) /\ Brought(o)' = Brought(o) /\ OneWait(o)'
      /\ shown' = shown /\ Given(o)' = Given(o) /\ received' = received
  BY DEF Flow, Brought, OneWait, OfChat, Push, Given
<1>2. PICK n : n = InHand(o)
  OBVIOUS
<1>3. /\ Buffered(o)' = Buffered(o) + 1
      /\ DOMAIN msgChan'[o] = DOMAIN msgChan[o] \cup {Buffered(o)'}
      /\ \A i \in DOMAIN msgChan[o] : i \in Nat /\ msgChan'[o][i] = msgChan[o][i]
      /\ msgChan'[o][Buffered(o)'] = n
  BY <1>2 DEF Push, ClientTypeOK, ChatSessionTypeOK, Buffered
<1>4. Fed(o)' = Fed(o) + 1 /\ Fed(o)' - Buffered(o)' = Fed(o) - Buffered(o)
  BY <1>1, <1>3, FedNatural DEF Fed
<1>5. /\ \A i \in DOMAIN shown[o] : shown[o][i].n = i
      /\ \A x \in Brought(o) : x.n = Given(o) + 1
      /\ \A i \in DOMAIN msgChan[o] : msgChan[o][i] = Fed(o) - Buffered(o) + i
  BY DEF InLine, Place, Push, Reader
<1>6. /\ reader[o] = "sending" => reader'[o] = "reading" /\ n = Fed(o)' /\ Fed(o)' = received[o]
      /\ reader[o] = "parting" => reader'[o] = "leaving" /\ n = Disconnected
      /\ reader[o] \in {"sending", "parting"}
  BY <1>2, <1>4 DEF Push, Reader, InHand, InLine, ClientTypeOK, ChatSessionTypeOK
<1>7. Fed(o)' = Fed(o)' - Buffered(o)' + Buffered(o)'
  BY <1>3, <1>4, FedNatural
<1>8. \A i \in DOMAIN msgChan'[o] :
        Place(o, msgChan[o][i], Fed(o) - Buffered(o) + i)'
  <2> SUFFICES ASSUME NEW i \in DOMAIN msgChan'[o]
               PROVE  Place(o, msgChan[o][i], Fed(o) - Buffered(o) + i)'
    OBVIOUS
  <2>1. CASE i \in DOMAIN msgChan[o]
    <3>1. msgChan'[o][i] = Fed(o)' - Buffered(o)' + i
      BY <1>3, <1>4, <1>5, <2>1
    <3> QED
      BY <3>1 DEF Place
  <2>2. CASE i = Buffered(o)'
    <3>1. msgChan'[o][i] = n /\ Fed(o)' - Buffered(o)' + i = Fed(o)'
      BY <1>3, <1>7, <2>2
    <3> QED
      BY <1>6, <3>1 DEF Place
  <2> QED
    BY <1>3, <2>1, <2>2
<1>9. InLine(o)'
  BY <1>1, <1>5, <1>6, <1>8 DEF InLine, Place
<1> QED
  BY <1>1, <1>9

LEMMA ReaderInLine ==
  ASSUME ClientTypeOK, NEW o \in Opens, OneWait(o), InLine(o), ReaderStep(o) \/ Receive(o),
         UNCHANGED <<shown, inflight>>
  PROVE  OneWait(o)' /\ InLine(o)'
<1>1. CASE Push(o)
  BY <1>1, PushInLine
<1>2. CASE ReceiveFails(o) \/ GiveUp(o) \/ ReaderEnds(o) \/ Receive(o)
  <2>1. /\ Flow(o)' = Flow(o) /\ Brought(o)' = Brought(o) /\ OneWait(o)'
        /\ shown' = shown /\ msgChan' = msgChan
        /\ Given(o)' = Given(o) /\ Buffered(o)' = Buffered(o) /\ Fed(o)' = Fed(o)
    BY <1>2 DEF Flow, Brought, OneWait, OfChat, Given, Buffered, Fed,
                ReceiveFails, GiveUp, ReaderEnds, Receive
  <2>2. \/ reader[o] = "reading" /\ reader'[o] = "parting" /\ received'[o] = received[o]
        \/ reader[o] \in {"sending", "parting"} /\ reader'[o] = "leaving"
        \/ reader[o] = "leaving" /\ reader'[o] = "ended"
        \/ reader[o] = "reading" /\ reader'[o] = "sending" /\ received'[o] = received[o] + 1
    BY <1>2
       DEF ReceiveFails, GiveUp, ReaderEnds, Receive, Reader, ClientTypeOK, ChatSessionTypeOK
  <2> QED
    BY <2>1, <2>2 DEF InLine, Place
<1> QED
  BY <1>1, <1>2 DEF ReaderStep

\* The wait of a chat ends: with the head of the channel, or with the context.
LEMMA WaitInLine ==
  ASSUME ClientTypeOK, NEW o \in Opens, OneWait(o), InLine(o),
         NEW c \in BagToSet(inflight), "do" \in DOMAIN c, WaitForMessage(c), c.chat = o
  PROVE  OneWait(o)' /\ InLine(o)'
<1> DEFINE n == Head(msgChan[o])
           y == [msg |-> "incoming", chat |-> o, n |-> n]
<1>1. c \in Flow(o) /\ inflight[c] = 1 /\ Flow(o) = {c} /\ Brought(o) = {}
  <2>1. c \in Commands \cup Messages /\ "chat" \in DOMAIN c /\ "msg" \notin DOMAIN c
    BY Carried DEF ClientTypeOK, WaitForMessage
  <2>2. c \in Flow(o)
    BY <2>1 DEF Flow, OfChat
  <2> QED
    BY <2>1, <2>2 DEF OneWait, Brought
<1>2. UNCHANGED <<shown, reader, received>> /\ Given(o)' = Given(o)
  BY DEF WaitForMessage, Take, sessionVars, Given
<1>3. CASE Take(o) /\ Become(c, y)
  <2>1. c # y /\ OfChat(y, o) /\ "msg" \in DOMAIN y /\ y.n = n
    BY DEF OfChat
  <2>2. y \notin BagToSet(inflight)
    BY <1>1, <2>1 DEF Flow
  <2> HIDE DEF y
  <2>3. Flow(o)' = {y} /\ inflight'[y] = 1
    BY <1>1, <1>3, <2>1, <2>2, BecomeTurns DEF Flow, ClientTypeOK
  <2>4. Brought(o)' = {y} /\ OneWait(o)'
    BY <2>1, <2>3 DEF Brought, OneWait
  <2>5. /\ Buffered(o) \in Nat \ {0} /\ Buffered(o)' = Buffered(o) - 1
        /\ n = msgChan[o][1] /\ 1 \in DOMAIN msgChan[o]
        /\ \A i \in DOMAIN msgChan'[o] :
             i \in Nat /\ i + 1 \in DOMAIN msgChan[o] /\ msgChan'[o][i] = msgChan[o][i + 1]
    BY <1>3 DEF Take, ClientTypeOK, ChatSessionTypeOK, Buffered
  <2> HIDE DEF n
  <2>6. Fed(o) = Given(o) + Buffered(o) /\ Fed(o)' = Given(o) + 1 + (Buffered(o) - 1)
    BY <1>1, <1>2, <2>4, <2>5, FedNatural DEF Fed
  <2>7. /\ Fed(o)' = Fed(o) /\ Fed(o) - Buffered(o) + 1 = Given(o) + 1
        /\ \A i \in Nat : Fed(o) - Buffered(o) + (i + 1) = Fed(o) - (Buffered(o) - 1) + i
    BY <2>5, <2>6, FedNatural
  <2>8. Place(o, y.n, Given(o) + 1)
    BY <2>1, <2>5, <2>7 DEF InLine
  <2>9. \A i \in DOMAIN msgChan'[o] :
          Place(o, msgChan[o][i + 1], Fed(o) - (Buffered(o) - 1) + i)
    BY <2>5, <2>7 DEF InLine
  <2>10. InLine(o)'
    BY <1>2, <2>4, <2>5, <2>7, <2>8, <2>9 DEF InLine, Place
  <2> QED
    BY <2>4, <2>10
<1>4. CASE Done(c) /\ UNCHANGED sessionVars
  <2>1. Flow(o)' = {}
    BY <1>1, <1>4, DoneTakes DEF Flow, ClientTypeOK
  <2>2. OneWait(o)' /\ Brought(o)' = {}
    BY <2>1 DEF OneWait, Brought
  <2>3. Buffered(o)' = Buffered(o) /\ Fed(o)' = Fed(o) /\ msgChan' = msgChan
    BY <1>1, <1>2, <1>4, <2>2 DEF sessionVars, Buffered, Fed
  <2> QED
    BY <1>1, <1>2, <2>2, <2>3 DEF InLine, Place
<1> QED
  BY <1>3, <1>4 DEF WaitForMessage

\* The chat on the screen is given a message of its own.
LEMMA ShowInLine ==
  ASSUME ClientTypeOK, NEW o \in Opens, OneWait(o), InLine(o), screen = o,
         NEW m \in BagToSet(inflight), "msg" \in DOMAIN m, Incoming(m), m.chat = o
  PROVE  OneWait(o)' /\ InLine(o)'
<1> DEFINE y == [do |-> "waitForMessage", chat |-> o]
<1>1. m \in Flow(o) /\ inflight[m] = 1 /\ Flow(o) = {m} /\ Brought(o) = {m} /\ m.n \in Nat
  <2>1. m \in Commands \cup Messages
    BY DEF ClientTypeOK
  <2>2. m.n \in Nat /\ "chat" \in DOMAIN m
    BY <2>1 DEF Incoming, Commands, Messages
  <2>3. m \in Flow(o)
    BY <2>2 DEF Flow, OfChat
  <2> QED
    BY <2>2, <2>3 DEF OneWait, Brought
<1>2. UNCHANGED <<reader, received, msgChan>> /\ Buffered(o)' = Buffered(o)
  BY DEF Incoming, sessionVars, Buffered
<1>3. Become(m, y)
  BY DEF Incoming
<1>4. m # y /\ OfChat(y, o) /\ "msg" \notin DOMAIN y
  BY DEF OfChat
<1>5. y \notin BagToSet(inflight)
  BY <1>1, <1>4 DEF Flow
<1> HIDE DEF y
<1>6. Flow(o)' = {y} /\ inflight'[y] = 1
  BY <1>1, <1>3, <1>4, <1>5, BecomeTurns DEF Flow, ClientTypeOK
<1>7. Brought(o)' = {} /\ OneWait(o)'
  BY <1>4, <1>6 DEF Brought, OneWait
<1>8. /\ Given(o)' = Given(o) + 1
      /\ DOMAIN shown'[o] = DOMAIN shown[o] \cup {Given(o) + 1}
      /\ \A i \in DOMAIN shown[o] : shown'[o][i] = shown[o][i]
      /\ shown'[o][Given(o) + 1].n = m.n
  <2>1. PICK v : v = [chat |-> m.chat, n |-> m.n]
    OBVIOUS
  <2>2. shown'[o] = Append(shown[o], v) /\ shown[o] \in Seq(Entries)
    BY <2>1 DEF Incoming, ClientTypeOK, Entries
  <2>3. v.n = m.n
    BY <2>1
  <2> QED
    BY <2>2, <2>3 DEF Given
<1>9. Fed(o)' = Fed(o)
  BY <1>1, <1>2, <1>7, <1>8, FedNatural DEF Fed
<1>10. InLine(o)'
  BY <1>1, <1>2, <1>7, <1>8, <1>9 DEF InLine, Place
<1> QED
  BY <1>7, <1>10

\* A chat that is dialled.
LEMMA DialInLine ==
  ASSUME ClientTypeOK, NEW o \in Opens, conn[o] = "none", Fresh, screen = "app", Connect(o),
         NEW m \in BagToSet(inflight), m.msg = "switchToChat", "msg" \in DOMAIN m,
         Become(m, [do |-> "waitForMessage", chat |-> o]), UNCHANGED shown
  PROVE  OneWait(o)' /\ InLine(o)'
<1> DEFINE y == [do |-> "waitForMessage", chat |-> o]
<1>1. /\ reader[o] = "none" /\ received[o] = 0 /\ msgChan[o] = <<>> /\ Flow(o) = {}
      /\ shown[o] = <<>>
  BY DEF Fresh
<1>2. /\ m # y /\ OfChat(y, o) /\ "msg" \notin DOMAIN y
  BY DEF OfChat
<1>3. y \notin BagToSet(inflight)
  BY <1>1, <1>2 DEF Flow
<1> HIDE DEF y
<1>4. Flow(o)' = {y} /\ inflight'[y] = 1
  BY <1>1, <1>2, <1>3, BecomeTurns DEF Flow, ClientTypeOK, y
<1>5. OneWait(o)' /\ Brought(o)' = {}
  BY <1>2, <1>4 DEF OneWait, Brought
<1>6. /\ reader'[o] = "reading" /\ received'[o] = 0 /\ msgChan'[o] = <<>> /\ shown'[o] = <<>>
  BY <1>1 DEF Connect, ClientTypeOK, ChatSessionTypeOK
<1>7. Fed(o)' = 0
  BY <1>5, <1>6 DEF Fed, Given, Buffered
<1> QED
  BY <1>5, <1>6, <1>7 DEF InLine

LEMMA LinedKept ==
  ASSUME ClientTypeOK, Fresh, Lined, [ClientNext]_clientVars, NEW o \in Opens, Watched(o)'
  PROVE  OneWait(o)' /\ InLine(o)'
\* A step that leaves the chat alone.
<1>1. ASSUME FlowKept(o), screen = o, shown'[o] = shown[o], reader'[o] = reader[o],
             received'[o] = received[o], msgChan'[o] = msgChan[o]
      PROVE  OneWait(o)' /\ InLine(o)'
  <2>1. OneWait(o) /\ InLine(o)
    BY <1>1 DEF Lined, Watched, Pure
  <2> QED
    BY <1>1, <2>1, LineKept
<1>2. UNCHANGED inflight => FlowKept(o)
  BY DEF FlowKept, Flow, OfChat
<1>3. screen' = o
  BY DEF Watched
<1>4. CASE UNCHANGED clientVars \/ Quit
  BY <1>1, <1>2, <1>3, <1>4 DEF clientVars, sessionVars, appVars, Quit
<1>5. CASE Submit \/ SubmitForm \/ Esc
  BY <1>1, <1>3, <1>5, KeysPlain DEF Submit, SubmitForm, Esc, Key, sessionVars
<1>6. ASSUME NEW c \in BagToSet(inflight), Command(c)
      PROVE  OneWait(o)' /\ InLine(o)'
  <2>1. CASE DoLogin(c) \/ DoRegister(c) \/ StartChat(c)
    <3>1. FlowKept(o) /\ UNCHANGED <<sessionVars, screen, shown>>
      BY <1>6, <2>1, CommandsPlain
         DEF Command, DoLogin, DoRegister, StartChat, CommandRest
    <3> QED
      BY <1>1, <1>3, <3>1 DEF sessionVars
  <2>2. CASE WaitForMessage(c) /\ c.chat = o
    <3>1. UNCHANGED <<screen, shown>>
      BY <2>2 DEF WaitForMessage
    <3>2. OneWait(o) /\ InLine(o)
      BY <1>3, <3>1 DEF Lined, Watched, Pure
    <3> QED
      BY <1>6, <2>2, <3>2, WaitInLine DEF Command
  <2>3. CASE WaitForMessage(c) /\ c.chat # o
    <3>1. c \in Commands \cup Messages /\ "do" \in DOMAIN c /\ ~OfChat(c, o) /\ c.chat \in Opens
      BY <1>6, <2>3, Carried DEF ClientTypeOK, Command, WaitForMessage, OfChat
    <3>2. Done(c) \/ \E y : "msg" \in DOMAIN y /\ ~OfChat(y, o) /\ Become(c, y)
      BY <2>3 DEF WaitForMessage, OfChat
    <3>3. \A y : "msg" \in DOMAIN y => c # y
      BY <3>1, Carried
    <3>4. FlowKept(o)
      BY <3>1, <3>2, <3>3, Elsewhere DEF ClientTypeOK
    <3>5. /\ UNCHANGED <<screen, shown, reader, received>> /\ msgChan'[o] = msgChan[o]
      BY <2>3, <3>1 DEF WaitForMessage, Take, sessionVars, ClientTypeOK, ChatSessionTypeOK
    <3> QED
      BY <1>1, <1>3, <3>4, <3>5
  <2> QED
    BY <1>6, <2>1, <2>2, <2>3 DEF Command
<1>7. ASSUME NEW m \in BagToSet(inflight), Update(m)
      PROVE  OneWait(o)' /\ InLine(o)'
  <2>1. m \in Commands \cup Messages /\ "msg" \in DOMAIN m
    BY <1>7 DEF ClientTypeOK, Update
  <2>2. CASE LoginSuccess(m) \/ RegisterSuccess(m) \/ SwitchToAuth(m)
    <3>1. FlowKept(o) /\ UNCHANGED <<sessionVars, shown>>
      BY <2>1, <2>2, UpdatesPlain DEF LoginSuccess, RegisterSuccess, SwitchToAuth
    <3>2. screen = o
      BY <1>3, <2>1, <2>2, Carried
         DEF LoginSuccess, RegisterSuccess, SwitchToAuth, ToApp, Forms
    <3> QED
      BY <1>1, <3>1, <3>2 DEF sessionVars
  <2>3. CASE SwitchToChat(m) /\ Done(m) /\ UNCHANGED <<sessionVars, screen>>
    <3>1. FlowKept(o) /\ UNCHANGED shown
      BY <2>1, <2>3, UpdatesPlain DEF SwitchToChat
    <3> QED
      BY <1>1, <1>3, <2>3, <3>1 DEF sessionVars
  <2>4. CASE /\ SwitchToChat(m) /\ screen = "app" /\ Free # {}
             /\ Connect(NextChat) /\ screen' = NextChat
             /\ Become(m, [do |-> "waitForMessage", chat |-> NextChat])
    <3>1. NextChat = o /\ conn[o] = "none"
      BY <1>3, <2>4 DEF Connect
    <3>2. m.msg = "switchToChat" /\ UNCHANGED shown
      BY <2>4 DEF SwitchToChat
    <3> QED
      BY <2>1, <2>4, <3>1, <3>2, DialInLine
  <2>5. CASE SwitchToApp(m)
    <3>1. FlowKept(o)
      BY <2>1, <2>5, UpdatesPlain DEF SwitchToApp
    <3>2. screen = o /\ UNCHANGED <<shown, reader, received, msgChan>>
      BY <1>3, <2>5 DEF SwitchToApp, ToApp, CancelAndClose, sessionVars
    <3> QED
      BY <1>1, <3>1, <3>2
  <2>6. CASE Incoming(m)
    <3>1. screen = o /\ UNCHANGED sessionVars
      BY <1>3, <2>6 DEF Incoming
    <3>2. PICK v : v = [chat |-> m.chat, n |-> m.n]
      OBVIOUS
    <3>3. v.chat = m.chat
      BY <3>2
    <3>4. shown'[o] = Append(shown[o], v) /\ shown[o] \in Seq(Entries)
      BY <2>6, <3>1, <3>2 DEF Incoming, ClientTypeOK, Entries
    <3>5. /\ shown'[o][Len(shown[o]) + 1] = v
          /\ DOMAIN shown'[o] = DOMAIN shown[o] \cup {Len(shown[o]) + 1}
          /\ \A i \in DOMAIN shown[o] : shown'[o][i] = shown[o][i]
      BY <3>4
    <3>6. v.chat = o /\ Pure(o)
      BY <3>5 DEF Watched, Pure
    <3>7. OneWait(o) /\ InLine(o)
      BY <3>1, <3>6 DEF Lined, Watched
    <3> QED
      BY <2>1, <2>6, <3>1, <3>3, <3>6, <3>7, ShowInLine
  <2> QED
    BY <1>7, <2>2, <2>3, <2>4, <2>5, <2>6 DEF Update, SwitchToChat
<1>8. ASSUME NEW p \in Opens, Peer(p) \/ ChatStep(p) \/ Forget(p)
      PROVE  OneWait(o)' /\ InLine(o)'
  <2>1. UNCHANGED <<screen, shown, inflight>>
    BY <1>8 DEF Peer, ChatStep, Forget, appVars
  <2>2. screen = o /\ OneWait(o) /\ InLine(o)
    BY <1>3, <2>1 DEF Lined, Watched, Pure
  <2>3. CASE p = o /\ (Receive(o) \/ ReaderStep(o))
    BY <2>1, <2>2, <2>3, ReaderInLine
  <2>4. CASE Lose(p) \/ (p # o /\ (Receive(p) \/ ReaderStep(p) \/ Recycle(p)))
    <3>1. /\ reader'[o] = reader[o] /\ received'[o] = received[o] /\ msgChan'[o] = msgChan[o]
      BY <2>4 DEF Lose, Receive, ReaderStep, ReceiveFails, Push, GiveUp, ReaderEnds, Reader,
                  Recycle, ClientTypeOK, ChatSessionTypeOK
    <3> QED
      BY <1>1, <1>2, <2>1, <2>2, <3>1
  <2> QED
    BY <1>8, <2>2, <2>3, <2>4 DEF Peer, ChatStep, Forget
<1> QED
  BY <1>4, <1>5, <1>6, <1>7, <1>8 DEF ClientNext, Keys

LEMMA InLineIsInOrder ==
  ASSUME ClientTypeOK, NEW o \in Opens, InLine(o)
  PROVE  InOrder([i \in DOMAIN shown[o] |-> shown[o][i].n])
<1> DEFINE s == [i \in DOMAIN shown[o] |-> shown[o][i].n]
           L == Given(o)
           Counted(k) == [i \in 1..k |-> i]
<1>1. L \in Nat /\ DOMAIN shown[o] = 1..L /\ Fed(o) \in Nat /\ Fed(o) >= L
  <2>1. shown[o] \in Seq(Entries)
    BY DEF ClientTypeOK, Entries
  <2>2. DOMAIN shown[o] = 1..L
    BY <2>1 DEF Given
  <2> QED
    BY <2>2, FedNatural
<1>2. DOMAIN s = 1..L /\ \A i \in 1..L : s[i] = i \/ (s[i] = 0 /\ i = Fed(o))
  BY <1>1 DEF InLine, Place, Disconnected
<1>3. s = [i \in 1..L |-> s[i]]
  BY <1>2
<1> HIDE DEF s, L
<1>4. \A i \in 1..L : i # L => s[i] = i
  BY <1>1, <1>2
<1>5. CASE L = 0 \/ s[L] = L
  <2>1. \A i \in 1..L : s[i] = i
    BY <1>1, <1>4, <1>5
  <2>2. s = Counted(L)
    BY <1>3, <2>1
  <2>3. Len(s) = L
    BY <1>1, <1>2
  <2> QED
    BY <1>1, <2>2, <2>3 DEF InOrder, s
<1>6. CASE L # 0 /\ s[L] = 0
  <2>1. L - 1 \in 0..L /\ L - 1 \in Nat /\ L - 1 + 1 = L
    BY <1>1, <1>6
  <2>2. /\ Counted(L - 1) \in Seq(Nat) /\ Len(Counted(L - 1)) = L - 1
    BY <2>1
  <2>3. Append(Counted(L - 1), 0) = [i \in 1..L |-> IF i = L THEN 0 ELSE Counted(L - 1)[i]]
    BY <2>1, <2>2
  <2>4. \A i \in 1..L : s[i] = IF i = L THEN 0 ELSE Counted(L - 1)[i]
    BY <1>1, <1>4, <1>6
  <2>5. s = Append(Counted(L - 1), 0)
    BY <1>3, <2>3, <2>4
  <2>6. Len(s) = L
    BY <1>1, <1>2
  <2> QED
    BY <2>1, <2>5, <2>6 DEF InOrder, s, Disconnected
<1>7. L # 0 => s[L] = L \/ s[L] = 0
  BY <1>1, <1>2
<1> QED
  BY <1>5, <1>6, <1>7

\* The chat on the screen is in order: of that, the sequence as a whole is the witness.
WatchedInOrder ==
  \A o \in Opens : Watched(o) => InOrder([i \in DOMAIN shown[o] |-> shown[o][i].n])

LEMMA ShownKept ==
  ASSUME ClientTypeOK, WatchedInOrder', ShownInOrder, [ClientNext]_clientVars
  PROVE  ShownInOrder'
<1> SUFFICES ASSUME NEW o \in Opens, Pure(o)'
             PROVE  InOrder([i \in DOMAIN shown[o] |-> shown[o][i].n])'
  BY DEF ShownInOrder, Pure
<1>1. CASE shown'[o] = shown[o]
  BY <1>1 DEF ShownInOrder, Pure
<1>2. CASE shown'[o] = <<>>
  <2>1. /\ DOMAIN shown'[o] = {} /\ 0 \in 0..Len([i \in DOMAIN shown'[o] |-> shown'[o][i].n])
        /\ [i \in DOMAIN shown'[o] |-> shown'[o][i].n] = [i \in 1..0 |-> i]
    BY <1>2
  <2> QED
    BY <2>1 DEF InOrder
<1>3. CASE screen' = o
  BY <1>3 DEF WatchedInOrder, Watched
<1>4. ASSUME NEW x \in BagToSet(inflight), Command(x) \/ Update(x)
      PROVE  shown'[o] = shown[o] \/ shown'[o] = <<>> \/ screen' = o
  BY <1>4 DEF Command, DoLogin, DoRegister, StartChat, CommandRest, WaitForMessage, Update,
              LoginSuccess, RegisterSuccess, SwitchToAuth, SwitchToChat, SwitchToApp,
              Incoming, ClientTypeOK
<1>5. shown'[o] = shown[o] \/ shown'[o] = <<>> \/ screen' = o
  BY <1>4 DEF ClientNext, clientVars, appVars, Keys, Submit, SubmitForm, Esc, Quit, Key,
              Peer, ChatStep, Forget
<1> QED
  BY <1>1, <1>2, <1>3, <1>5

\* A chat shows its messages in the order its reader read them, each once and none
\* left out, for any capacity of msgChan and any number of messages (connectToChat's
\* reader, waitForMessage and the incomingMsg case of chatModel.Update).
THEOREM ChatsInOrder == ClientSpec => []ShownInOrder
<1>1. ClientInit => Fresh /\ Lined /\ ShownInOrder
  <2>1. ClientInit => Fresh
    BY DEF ClientInit, ChatSessionInit, Fresh, Flow, EmptyBag, SetToBag, BagToSet
  <2>2. ClientInit => Lined
    BY DEF ClientInit, Lined, Watched
  <2>3. ClientInit => \A o \in Opens : shown[o] = <<>>
    BY DEF ClientInit
  <2>4. ASSUME NEW o \in Opens, shown[o] = <<>>
        PROVE  InOrder([i \in DOMAIN shown[o] |-> shown[o][i].n])
    <3>1. /\ DOMAIN shown[o] = {} /\ 0 \in 0..Len([i \in DOMAIN shown[o] |-> shown[o][i].n])
          /\ [i \in DOMAIN shown[o] |-> shown[o][i].n] = [i \in 1..0 |-> i]
      BY <2>4
    <3> QED
      BY <3>1 DEF InOrder
  <2> QED
    BY <2>1, <2>2, <2>3, <2>4 DEF ShownInOrder
<1>2. ASSUME ClientTypeOK, Fresh, Lined, [ClientNext]_clientVars PROVE Lined'
  BY <1>2, LinedKept DEF Lined
<1>3. ClientTypeOK /\ Lined => WatchedInOrder
  BY InLineIsInOrder DEF Lined, WatchedInOrder
<1> QED
  BY <1>1, <1>2, <1>3, ClientTypes, FreshKept, ShownKept, PTL DEF ClientSpec

(***************************************************************************)
(* Whose session is up.                                                    *)
(***************************************************************************)

\* The commands and messages that are no success of a login come and go unnoticed.
LEMMA SuccessesStay ==
  ASSUME InflightOK,
         \/ UNCHANGED inflight
         \/ \E x : ~IsSuccess(x) /\ Spawn(x)
         \/ \E x \in BagToSet(inflight) :
              ~IsSuccess(x) /\ (Done(x) \/ \E y : x # y /\ ~IsSuccess(y) /\ Become(x, y))
  PROVE  Waiting("loginSuccess")' = Waiting("loginSuccess")
<1> USE DEF InflightOK, Waiting, IsSuccess
<1>1. CASE UNCHANGED inflight
  BY <1>1
<1>2. ASSUME NEW x, ~IsSuccess(x), Spawn(x)
      PROVE  Waiting("loginSuccess")' = Waiting("loginSuccess")
  BY <1>2, SpawnAdds
<1>3. ASSUME NEW x \in BagToSet(inflight), ~IsSuccess(x), Done(x)
      PROVE  Waiting("loginSuccess")' = Waiting("loginSuccess")
  BY <1>3, DoneTakes
<1>4. ASSUME NEW x \in BagToSet(inflight), NEW y, ~IsSuccess(x), x # y, ~IsSuccess(y), Become(x, y)
      PROVE  Waiting("loginSuccess")' = Waiting("loginSuccess")
  BY <1>4, BecomeTurns
<1> QED
  BY <1>1, <1>2, <1>3, <1>4

\* What is waiting with the session's nickname is what ScreenIsUsers speaks of.
LEMMA SuccessesAre ==
  ASSUME InflightOK
  PROVE  /\ \A n \in Nicknames :
              [msg |-> "loginSuccess", nick |-> n] \in BagToSet(inflight)
                <=> \E m \in Waiting("loginSuccess") : m.nick = n
         /\ \A m \in Waiting("loginSuccess") :
              m.nick \in Nicknames /\ m = [msg |-> "loginSuccess", nick |-> m.nick]
<1>1. \A m \in Waiting("loginSuccess") :
        m.nick \in Nicknames /\ m = [msg |-> "loginSuccess", nick |-> m.nick]
  BY Carried DEF InflightOK, Waiting
<1>2. ASSUME NEW n \in Nicknames
      PROVE  [msg |-> "loginSuccess", nick |-> n] \in BagToSet(inflight)
               <=> \E m \in Waiting("loginSuccess") : m.nick = n
  <2>1. PICK x : x = [msg |-> "loginSuccess", nick |-> n]
    OBVIOUS
  <2>2. "msg" \in DOMAIN x /\ x.msg = "loginSuccess" /\ x.nick = n
    BY <2>1
  <2>3. x \in BagToSet(inflight) <=> x \in Waiting("loginSuccess")
    BY <2>2 DEF Waiting
  <2>4. \A m \in Waiting("loginSuccess") : m.nick = n => m = x
    BY <1>1, <2>1
  <2> QED
    BY <2>1, <2>2, <2>3, <2>4
<1> QED
  BY <1>1, <1>2

\* Expected and ScreenIsUsers, by what is waiting.
Awaited == \E m \in Waiting("loginSuccess") : m.nick = session
SInv == Expected /\ (session \in {user, Nobody} \/ Awaited \/ adrift)

LEMMA SessionIs == ClientTypeOK => (SInv <=> Expected /\ ScreenIsUsers)
<1> SUFFICES ASSUME ClientTypeOK
             PROVE  \/ session \in {user, Nobody}
                    \/ Awaited <=> [msg |-> "loginSuccess", nick |-> session] \in BagToSet(inflight)
  BY DEF SInv, ScreenIsUsers
<1> QED
  BY SuccessesAre DEF ClientTypeOK, InflightOK, Somebody, Awaited

LEMMA SessionStays ==
  ASSUME SInv, UNCHANGED <<user, session, adrift>>,
         Waiting("loginSuccess")' = Waiting("loginSuccess")
  PROVE  SInv'
BY DEF SInv, Expected, Awaited

LEMMA LoginKeeps ==
  ASSUME ClientTypeOK, SInv, NEW c \in BagToSet(inflight), "do" \in DOMAIN c,
         DoLogin(c), UNCHANGED user
  PROVE  SInv'
<1>0. InflightOK /\ ~IsSuccess(c) /\ c.nick \in Nicknames /\ "msg" \notin DOMAIN c
  BY Carried DEF ClientTypeOK, InflightOK, IsSuccess, DoLogin
<1>1. CASE Done(c) /\ UNCHANGED <<session, adrift>>
  BY <1>0, <1>1, SuccessesStay, SessionStays
<1>2. CASE Done(c) /\ session' = Nobody
  BY <1>2 DEF SInv, Expected
<1>3. CASE /\ session' = c.nick /\ adrift' = Crosses(c)
           /\ Become(c, [msg |-> "loginSuccess", nick |-> c.nick])
  <2>1. PICK y : y = [msg |-> "loginSuccess", nick |-> c.nick]
    OBVIOUS
  <2>2. "msg" \in DOMAIN y /\ y.msg = "loginSuccess" /\ y.nick = c.nick /\ y # c
    BY <1>0, <2>1
  <2>3. y \in BagToSet(inflight') /\ BagToSet(inflight') \subseteq BagToSet(inflight) \cup {y}
    BY <1>0, <1>3, <2>1, <2>2, BecomeTurns DEF InflightOK
  <2>4. y \in Waiting("loginSuccess")'
        /\ \A m \in Waiting("loginSuccess")' : m = y \/ m \in Waiting("loginSuccess")
    BY <2>2, <2>3 DEF Waiting
  <2>5. adrift' \/ \A m \in Waiting("loginSuccess") : m.nick = c.nick
    BY <1>3 DEF Crosses
  <2> QED
    BY <1>3, <2>2, <2>4, <2>5 DEF SInv, Expected, Awaited
<1> QED
  BY <1>1, <1>2, <1>3 DEF DoLogin

LEMMA SuccessKeeps ==
  ASSUME ClientTypeOK, SInv, NEW m \in BagToSet(inflight), "msg" \in DOMAIN m,
         LoginSuccess(m), UNCHANGED session
  PROVE  SInv'
<1>1. m \in Waiting("loginSuccess") /\ Done(m)
  BY DEF LoginSuccess, Waiting
<1>2. /\ Waiting("loginSuccess")' \subseteq Waiting("loginSuccess")
      /\ \A x \in Waiting("loginSuccess") : x # m => x \in Waiting("loginSuccess")'
  BY <1>1, DoneTakes DEF ClientTypeOK, Waiting
<1>3. CASE adrift'
  BY <1>3 DEF SInv, Expected
<1>4. CASE ~adrift'
  <2>1. ~adrift /\ user' = m.nick
    <3>1. CASE user' = m.nick /\ UNCHANGED adrift
      BY <1>4, <3>1
    <3>2. CASE adrift' = (adrift \/ m.nick # user) /\ UNCHANGED user
      <4>1. ~(adrift \/ m.nick # user)
        BY <1>4, <3>2, Zenon
      <4> QED
        BY <3>2, <4>1
    <3> QED
      BY <3>1, <3>2 DEF LoginSuccess
  <2>2. session \in {m.nick, Nobody}
    BY <1>1, <2>1 DEF SInv, Expected
  <2> QED
    BY <1>2, <2>1, <2>2 DEF SInv, Expected
<1> QED
  BY <1>3, <1>4

LEMMA SessionKept ==
  ASSUME ClientTypeOK, SInv, [ClientNext]_clientVars
  PROVE  SInv'
<1>0. InflightOK
  BY DEF ClientTypeOK, InflightOK
<1>1. CASE UNCHANGED clientVars
  BY <1>0, <1>1, SuccessesStay, SessionStays DEF clientVars, appVars
<1>2. CASE Quit
  BY <1>0, <1>2, SuccessesStay DEF Quit, SInv, Expected
<1>3. CASE Submit \/ SubmitForm \/ Esc
  <2>1. \E x : ~IsSuccess(x) /\ Spawn(x)
    BY <1>3 DEF Submit, SubmitForm, Esc, IsSuccess
  <2>2. UNCHANGED <<user, session, adrift>>
    BY <1>3 DEF Submit, SubmitForm, Esc, Key
  <2> QED
    BY <1>0, <2>1, <2>2, SuccessesStay, SessionStays
<1>4. ASSUME NEW c \in BagToSet(inflight), Command(c)
      PROVE  SInv'
  <2>1. "do" \in DOMAIN c /\ ~IsSuccess(c) /\ \A y : "msg" \in DOMAIN y => c # y
    BY <1>0, <1>4, Carried DEF Command, IsSuccess, InflightOK
  <2>2. UNCHANGED user
    BY <1>4 DEF Command, DoLogin, DoRegister, StartChat, WaitForMessage, CommandRest
  <2>3. CASE DoRegister(c) \/ StartChat(c) \/ WaitForMessage(c)
    <3>1. UNCHANGED <<user, session, adrift>>
      BY <2>3 DEF DoRegister, StartChat, WaitForMessage, CommandRest
    <3>2. Done(c) \/ \E y : "msg" \in DOMAIN y /\ ~IsSuccess(y) /\ Become(c, y)
      BY <2>3 DEF DoRegister, StartChat, WaitForMessage, IsSuccess
    <3> QED
      BY <1>0, <2>1, <3>1, <3>2, SuccessesStay, SessionStays
  <2> QED
    BY <1>4, <2>1, <2>2, <2>3, LoginKeeps DEF Command
<1>5. ASSUME NEW m \in BagToSet(inflight), Update(m)
      PROVE  SInv'
  <2>1. "msg" \in DOMAIN m /\ UNCHANGED session
    BY <1>5 DEF Update
  <2>2. CASE LoginSuccess(m)
    BY <2>1, <2>2, SuccessKeeps
  <2>3. CASE /\ UNCHANGED adrift
             /\ \/ RegisterSuccess(m) \/ SwitchToAuth(m) \/ SwitchToChat(m)
                \/ SwitchToApp(m) \/ Incoming(m)
    <3>1. ~IsSuccess(m) /\ UNCHANGED user /\ \A y : "do" \in DOMAIN y => m # y
      BY <1>0, <2>1, <2>3, Carried
         DEF RegisterSuccess, SwitchToAuth, SwitchToChat, SwitchToApp, Incoming, IsSuccess,
             InflightOK
    <3>2. Done(m) \/ \E y : "do" \in DOMAIN y /\ ~IsSuccess(y) /\ Become(m, y)
      BY <2>3
         DEF RegisterSuccess, SwitchToAuth, SwitchToChat, SwitchToApp, Incoming, IsSuccess
    <3> QED
      BY <1>0, <2>1, <2>3, <3>1, <3>2, SuccessesStay, SessionStays
  <2> QED
    BY <1>5, <2>2, <2>3 DEF Update
<1>6. ASSUME NEW o \in Opens, Peer(o) \/ ChatStep(o) \/ Forget(o)
      PROVE  SInv'
  BY <1>0, <1>6, SuccessesStay, SessionStays DEF Peer, ChatStep, Forget, appVars
<1> QED
  BY <1>1, <1>2, <1>3, <1>4, <1>5, <1>6 DEF ClientNext, Keys

\* The session that is up is that of the user whose token the screens use, or the
\* screen is about to be told, however many logins run and whichever of them are
\* refused or fail half way (doLogin and the loginSuccessMsg case); but for a session
\* that is adrift.
THEOREM SessionIsTheUsers == ClientSpec => []ScreenIsUsers
<1>1. ClientInit => SInv
  BY DEF ClientInit, SInv, Expected, Waiting, BagToSet, EmptyBag, SetToBag
<1>2. ClientTypeOK /\ SInv /\ [ClientNext]_clientVars => SInv'
  BY SessionKept
<1>3. ClientTypeOK /\ SInv => ScreenIsUsers
  BY SessionIs
<1> QED
  BY <1>1, <1>2, <1>3, ClientTypes, PTL DEF ClientSpec
================================================================================
