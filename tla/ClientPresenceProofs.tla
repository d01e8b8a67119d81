------------------------- MODULE ClientPresenceProofs -------------------------
(***************************************************************************)
(* The presence session, for any number of logins, of stops and of failed  *)
(* dials: a Stop returns after the goodbye whatever the user does; and for *)
(* a user who waits for a login to be answered no loop is lost, and the    *)
(* sessions follow one another as OneSession promises.                     *)
(*                                                                         *)
(* LoopsOwned is not inductive: Install writes over whatever the struct    *)
(* holds.  What makes it so is InTurn, that a Start finds the struct empty *)
(* from its own Take to its Install.                                       *)
(***************************************************************************)
EXTENDS ClientPresence, TLAPS

\* Where a call is, and what that says of the session it took.
Calling ==
  \A k \in Calls :
    /\ at[k] \in {"dialling", "installing", "launching"} => k \in Starts
    /\ at[k] \in {"idle", "taking"} => took[k] = NoSession
    /\ at[k] \in {"cancelling", "waiting"} => took[k] \in Starts
    /\ at[k] = "waiting" => took[k] \in cancelled
    /\ HasStopped(k) /\ took[k] # NoSession => loop[took[k]] = "ended"

\* Where a session is, and what that says of its connection.
LifeCycle ==
  \A s \in Starts :
    /\ at[s] # "done" => loop[s] = "none"
    /\ loop[s] = "none" => watcher[s] = "off" /\ s \notin goodbye
    /\ loop[s] \in {"pausing", "dialling", "ended"} => conn[s] \in {"lost", "closed"}
    /\ loop[s] = "dialling" => watcher[s] = "off"
    /\ loop[s] \in {"pausing", "dialling"} => s \notin goodbye
    /\ watcher[s] = "closing" /\ conn[s] = "up" => s \in goodbye
    /\ conn[s] = "closed" => s \in goodbye
    /\ s \in goodbye => s \in cancelled

PInv == SessionsTypeOK /\ Calling /\ LifeCycle

\* Logins one at a time, of which each has the struct to itself until Install.
InTurn ==
  /\ \A s, t \in Starts : Underway(s) /\ Underway(t) => s = t
  /\ \A s \in Starts :
       at[s] \in {"cancelling", "waiting", "dialling", "installing"} => held = NoSession

\* A session that runs, or is about to, can be stopped.
Owned ==
  \A s \in Starts :
    at[s] = "launching" \/ loop[s] \in Alive => held = s \/ s \in cancelled \cup Doomed

OInv == PInv /\ InTurn /\ Owned

LEMMA InitSessions == SessionsInit => PInv /\ InTurn /\ Owned
  BY PresenceConstants
     DEF SessionsInit, PInv, SessionsTypeOK, Calling, LifeCycle, InTurn, Owned, Calls,
         CallSteps, Alive, Underway, HasStopped, Doomed

(***************************************************************************)
(* The goodbye, action by action.                                          *)
(***************************************************************************)
USE PresenceConstants
    DEF PInv, SessionsTypeOK, Calling, LifeCycle, Calls, CallSteps, Alive, HasStopped,
        AfterStop, Step, Loop

LEMMA CallKeeps ==
  ASSUME PInv, NEW k \in Calls, Call(k) \/ Kill(k)
  PROVE  PInv'
  BY DEF Call, Kill

LEMMA TakeKeeps ==
  ASSUME PInv, NEW k \in Calls, Take(k)
  PROVE  PInv'
  BY DEF Take

LEMMA CancelKeeps ==
  ASSUME PInv, NEW k \in Calls, Cancel(k)
  PROVE  PInv'
  BY DEF Cancel

LEMMA StoppedKeeps ==
  ASSUME PInv, NEW k \in Calls, Stopped(k)
  PROVE  PInv'
  BY DEF Stopped

LEMMA DialKeeps ==
  ASSUME PInv, NEW s \in Starts, Dial(s)
  PROVE  PInv'
  BY DEF Dial

LEMMA InstallKeeps ==
  ASSUME PInv, NEW s \in Starts, Install(s)
  PROVE  PInv'
  BY DEF Install

LEMMA LaunchKeeps ==
  ASSUME PInv, NEW s \in Starts, Launch(s)
  PROVE  PInv'
  BY DEF Launch

LEMMA LoopKeeps ==
  ASSUME PInv, NEW s \in Starts, LoopStep(s)
  PROVE  PInv'
<1>1. CASE ReadFails(s)
  BY <1>1 DEF ReadFails
<1>2. CASE Pause(s)
  BY <1>2 DEF Pause
<1>3. CASE Reconnect(s)
  BY <1>3 DEF Reconnect
<1>4. CASE RedialFails(s)
  BY <1>4 DEF RedialFails
<1> QED
  BY <1>1, <1>2, <1>3, <1>4 DEF LoopStep

LEMMA WatcherKeeps ==
  ASSUME PInv, NEW s \in Starts, WatcherStep(s)
  PROVE  PInv'
<1>1. CASE SayGoodbye(s)
  BY <1>1 DEF SayGoodbye
<1>2. CASE HoldDone(s)
  BY <1>2 DEF HoldDone
<1>3. CASE HangUpConn(s)
  BY <1>3 DEF HangUpConn
<1> QED
  BY <1>1, <1>2, <1>3 DEF WatcherStep

LEMMA WorldKeeps ==
  ASSUME PInv, NEW s \in Starts, LoseConn(s) \/ Expire(s)
  PROVE  PInv'
  BY DEF LoseConn, Expire

LEMMA StepKeeps == PInv /\ [PresenceNext]_presenceVars => PInv'
<1> SUFFICES ASSUME PInv, [PresenceNext]_presenceVars PROVE PInv'
  OBVIOUS
<1>1. CASE World
  <2>1. ASSUME NEW k \in Calls, Call(k) \/ Kill(k)
        PROVE  PInv'
    BY <2>1, CallKeeps
  <2>2. ASSUME NEW s \in Starts, LoseConn(s) \/ Expire(s)
        PROVE  PInv'
    BY <2>2, WorldKeeps
  <2> QED
    BY <1>1, <2>1, <2>2 DEF World
<1>2. ASSUME NEW k \in Calls, CallStep(k)
      PROVE  PInv'
  BY <1>2, TakeKeeps, CancelKeeps, StoppedKeeps, DialKeeps, InstallKeeps, LaunchKeeps
     DEF CallStep
<1>3. ASSUME NEW s \in Starts, LoopStep(s) \/ WatcherStep(s)
      PROVE  PInv'
  BY <1>3, LoopKeeps, WatcherKeeps
<1>4. CASE UNCHANGED presenceVars
  BY <1>4 DEF presenceVars
<1> QED
  BY <1>1, <1>2, <1>3, <1>4 DEF PresenceNext

LEMMA PlacesKept == PresenceSpec => []PInv
  BY InitSessions, StepKeeps, PTL DEF PresenceSpec

\* Every variable of the presence session keeps its type; so a Stop only cancels a
\* context there is (the nil check in Stop).
THEOREM SessionsTyped == PresenceSpec => []SessionsTypeOK
<1>1. PInv => SessionsTypeOK
  BY DEF PInv
<1> QED
  BY <1>1, PlacesKept, PTL

\* When a Stop has returned, the session it took has said goodbye on its connection,
\* unless that was lost first: for any number of logins and stops, one at a time or
\* not (hold writes the close frame before it closes the connection).
THEOREM StopSaysGoodbye == PresenceSpec => []GoodbyeBeforeEnd
<1>1. PInv => GoodbyeBeforeEnd
  BY DEF GoodbyeBeforeEnd
<1> QED
  BY <1>1, PlacesKept, PTL

(***************************************************************************)
(* One session at a time, for a user who waits for a login to be answered. *)
(***************************************************************************)
USE DEF InTurn, Owned, OInv, Underway, Doomed

LEMMA WorldOwned ==
  ASSUME Patient, OInv, World
  PROVE  InTurn' /\ Owned'
<1>1. ASSUME NEW k \in Calls, Call(k)
      PROVE  InTurn' /\ Owned'
  BY <1>1 DEF Call
<1>2. ASSUME NEW k \in Calls, Kill(k)
      PROVE  InTurn' /\ Owned'
  BY <1>2 DEF Kill
<1>3. ASSUME NEW s \in Starts, LoseConn(s) \/ Expire(s)
      PROVE  InTurn' /\ Owned'
  BY <1>3 DEF LoseConn, Expire
<1> QED
  BY <1>1, <1>2, <1>3 DEF World

LEMMA CallOwned ==
  ASSUME Patient, OInv, NEW k \in Calls, CallStep(k)
  PROVE  InTurn' /\ Owned'
<1>1. CASE Take(k)
  BY <1>1 DEF Take
<1>2. CASE Cancel(k)
  BY <1>2 DEF Cancel
<1>3. CASE Stopped(k)
  BY <1>3 DEF Stopped
<1>4. CASE k \in Starts /\ Dial(k)
  BY <1>4 DEF Dial
<1>5. CASE k \in Starts /\ Install(k)
  BY <1>5 DEF Install
<1>6. CASE k \in Starts /\ Launch(k)
  BY <1>6 DEF Launch
<1> QED
  BY <1>1, <1>2, <1>3, <1>4, <1>5, <1>6 DEF CallStep

LEMMA SessionOwned ==
  ASSUME OInv, NEW s \in Starts, LoopStep(s) \/ WatcherStep(s)
  PROVE  InTurn' /\ Owned'
<1>1. CASE LoopStep(s)
  BY <1>1 DEF LoopStep, ReadFails, Pause, Reconnect, RedialFails
<1>2. CASE WatcherStep(s)
  BY <1>2 DEF WatcherStep, SayGoodbye, HoldDone, HangUpConn
<1> QED
  BY <1>1, <1>2

LEMMA StepOwned ==
  ASSUME Patient
  PROVE  OInv /\ [PresenceNext]_presenceVars => OInv'
<1> SUFFICES ASSUME OInv, [PresenceNext]_presenceVars PROVE InTurn' /\ Owned'
  BY StepKeeps
<1>1. CASE UNCHANGED presenceVars
  BY <1>1 DEF presenceVars
<1> QED
  BY <1>1, WorldOwned, CallOwned, SessionOwned DEF PresenceNext

LEMMA OwnedKept ==
  ASSUME Patient
  PROVE  PresenceSpec => []OInv
<1>1. SessionsInit => OInv
  BY InitSessions
<1>2. OInv /\ [PresenceNext]_presenceVars => OInv'
  BY StepOwned
<1> QED
  BY <1>1, <1>2, PTL DEF PresenceSpec

\* If a user waits for a login to be answered, every loop that runs can be stopped,
\* whatever stops come in between (the comment in Start, "Logging in again while
\* already connected replaces the old session").
THEOREM NoLoopIsLost ==
  ASSUME Patient
  PROVE  PresenceSpec => []LoopsOwned
<1>1. OInv => LoopsOwned
  BY DEF LoopsOwned
<1> QED
  BY <1>1, OwnedKept, PTL

(***************************************************************************)
(* The refinement of OneSession.                                           *)
(***************************************************************************)

LEMMA LiveIsHeld == ASSUME OInv PROVE Live \subseteq {held}
  BY DEF Live

\* The calls that make a session live or end one: Take, out of the struct, and Launch.
LEMMA CallMaps ==
  ASSUME Patient, OInv, NEW k \in Calls, CallStep(k)
  PROVE  Session!SessionNext \/ Live' = Live
<1> USE DEF Live
<1>1. CASE Take(k)
  <2>1. Live' = Live \/ Live' = {}
    BY <1>1, LiveIsHeld DEF Take
  <2> QED
    BY <2>1 DEF Session!SessionNext, Session!End
<1>2. CASE Cancel(k)
  BY <1>2 DEF Cancel
<1>3. CASE Stopped(k)
  BY <1>3 DEF Stopped
<1>4. CASE k \in Starts /\ Dial(k)
  BY <1>4 DEF Dial
<1>5. CASE k \in Starts /\ Install(k)
  BY <1>5 DEF Install
<1>6. CASE k \in Starts /\ Launch(k)
  <2>1. CASE k \in cancelled \cup Doomed
    BY <1>6, <2>1 DEF Launch
  <2>2. CASE k \notin cancelled \cup Doomed
    <3>1. Live = {} /\ Live' = {k}
      BY <1>6, <2>2 DEF Launch
    <3> QED
      BY <1>6, <3>1 DEF Session!SessionNext, Session!Open
  <2> QED
    BY <2>1, <2>2
<1> QED
  BY <1>1, <1>2, <1>3, <1>4, <1>5, <1>6 DEF CallStep

LEMMA OthersMap ==
  ASSUME OInv, [PresenceNext]_presenceVars, \A k \in Calls : ~CallStep(k)
  PROVE  Live' = Live
<1> USE DEF Live
<1>1. CASE World
  <2>1. ASSUME NEW k \in Calls, Call(k) \/ Kill(k)
        PROVE  Live' = Live
    BY <2>1 DEF Call, Kill
  <2>2. ASSUME NEW s \in Starts, LoseConn(s) \/ Expire(s)
        PROVE  Live' = Live
    BY <2>2 DEF LoseConn, Expire
  <2> QED
    BY <1>1, <2>1, <2>2 DEF World
<1>2. ASSUME NEW s \in Starts, LoopStep(s)
      PROVE  Live' = Live
  BY <1>2 DEF LoopStep, ReadFails, Pause, Reconnect, RedialFails
<1>3. ASSUME NEW s \in Starts, WatcherStep(s)
      PROVE  Live' = Live
  BY <1>3 DEF WatcherStep, SayGoodbye, HoldDone, HangUpConn
<1>4. CASE UNCHANGED presenceVars
  BY <1>4 DEF presenceVars
<1> QED
  BY <1>1, <1>2, <1>3, <1>4 DEF PresenceNext

\* Start, Stop, run and hold are one session after another, if a user waits for a
\* login to be answered: Launch opens a session, Take ends it, and nothing else shows.
THEOREM SessionsInSuccession ==
  ASSUME Patient
  PROVE  PresenceSpec => ImplementsOneSession
<1>1. SessionsInit => Session!SessionInit
  BY DEF SessionsInit, Session!SessionInit, Live
<1>2. OInv /\ [PresenceNext]_presenceVars => [Session!SessionNext]_Live
  BY CallMaps, OthersMap
<1> QED
  BY <1>1, <1>2, OwnedKept, PTL DEF PresenceSpec, ImplementsOneSession, Session!SessionSpec
=============================================================================
