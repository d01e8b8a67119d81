---------------------------- MODULE ClientPresence ----------------------------
(***************************************************************************)
(* The client's presence session: Start and Stop, called from the commands *)
(* of the TUI, from the signal handler and from Run, next to the loop and  *)
(* the watcher that keep the connection of a session.                      *)
(*                                                                         *)
(* A call of Start makes one session, and the session has its name: the    *)
(* context, the channel stopped, the connection and the token are the      *)
(* session's.                                                              *)
(***************************************************************************)
EXTENDS Naturals

CONSTANTS
  Starts,        \* calls of Start, one per login
  Stops,         \* calls of Stop: SIGTERM and the end of Run
  Kills,         \* those of them that end the process without a Stop
  NoSession,     \* nil
  MaxFailures,   \* bound: dials that fail while the token is good
  Patient        \* whether the user waits for a login to be answered

ASSUME PresenceConstants ==
  /\ Starts \cap Stops = {}
  /\ Kills \subseteq Stops
  /\ NoSession \notin Starts
  /\ MaxFailures \in Nat
  /\ Patient \in BOOLEAN

Calls == Starts \cup Stops

VARIABLES
  at,         \* at[k]: the step of the call k to come
  took,       \* took[k]: the session a call of Stop took out of the struct
  held,       \* presence.cancel and presence.stopped: whose they are
  cancelled,  \* the sessions whose context was cancelled
  loop,       \* loop[s]: where run is; "ended" is stopped closed
  watcher,    \* watcher[s]: the helper goroutine of hold
  conn,       \* conn[s]: the connection: "lost" by the network, "closed" by us
  goodbye,    \* the sessions that have sent a close frame on their connection
  stale,      \* the sessions whose token has expired: JWTExp after the login
  failures    \* dials that have failed

presenceVars ==
  <<at, took, held, cancelled, loop, watcher, conn, goodbye, stale, failures>>

CallSteps == {"idle", "taking", "cancelling", "waiting", "dialling", "installing",
              "launching", "done"}
Alive == {"holding", "pausing", "dialling"}

\* Only contexts there are can be cancelled: a nil cancel would panic.
SessionsTypeOK ==
  /\ at \in [Calls -> CallSteps]
  /\ took \in [Calls -> Starts \cup {NoSession}]
  /\ held \in Starts \cup {NoSession}
  /\ cancelled \in SUBSET Starts
  /\ loop \in [Starts -> {"none", "ended"} \cup Alive]
  /\ watcher \in [Starts -> {"off", "armed", "closing"}]
  /\ conn \in [Starts -> {"none", "up", "lost", "closed"}]
  /\ goodbye \in SUBSET Starts
  /\ stale \in SUBSET Starts
  /\ failures \in 0..MaxFailures

SessionsInit ==
  /\ at = [k \in Calls |-> "idle"]
  /\ took = [k \in Calls |-> NoSession]
  /\ held = NoSession
  /\ cancelled = {}
  /\ loop = [s \in Starts |-> "none"]
  /\ watcher = [s \in Starts |-> "off"]
  /\ conn = [s \in Starts |-> "none"]
  /\ goodbye = {}
  /\ stale = {}
  /\ failures = 0

Step(k, from, to) == at[k] = from /\ at' = [at EXCEPT ![k] = to]
Loop(s, from, to) == loop[s] = from /\ loop' = [loop EXCEPT ![s] = to]

Underway(k) == at[k] \notin {"idle", "done"}

\* The process ends as soon as a Stop has returned: os.Exit in the signal
\* handler, the return of main at the end of Run.
Exited == \E k \in Stops : at[k] = "done"

\* Where a call goes on once its Stop has returned: Start dials.
AfterStop(k) == IF k \in Starts THEN "dialling" ELSE "done"
-----------------------------------------------------------------------------
(***************************************************************************)
(* Fault variants.                                                         *)
(***************************************************************************)

\* Start does not stop the session before it.
CallSkipsStop(k) ==
  /\ \/ k \in Starts /\ Step(k, "idle", "dialling")
     \/ k \notin Starts /\ Step(k, "idle", "taking")
  /\ (Patient /\ k \in Starts) => \A j \in Starts : ~Underway(j)
  /\ UNCHANGED <<took, held, cancelled, loop, watcher, conn, goodbye, stale, failures>>

\* Only a hold that returned on its own has its connection closed.
CloseLate(s) ==
  /\ watcher[s] = "closing"
  /\ loop[s] # "holding"
  /\ watcher' = [watcher EXCEPT ![s] = "off"]
  /\ conn' = [conn EXCEPT ![s] = IF @ = "up" THEN "closed" ELSE @]
  /\ UNCHANGED <<at, took, held, cancelled, loop, goodbye, stale, failures>>

\* One failed attempt to reconnect ends the session.
RedialOnce(s) ==
  /\ Loop(s, "dialling", "ended")
  /\ \/ failures < MaxFailures /\ failures' = failures + 1
     \/ s \in cancelled \cup stale /\ UNCHANGED failures
  /\ UNCHANGED <<at, took, held, cancelled, watcher, conn, goodbye, stale>>

\* Stop does not wait for the loop.
StoppedEarly(k) ==
  /\ Step(k, "waiting", AfterStop(k))
  /\ UNCHANGED <<took, held, cancelled, loop, watcher, conn, goodbye, stale, failures>>

\* Stop calls cancel without a look whether there is one.
TakeUnchecked(k) ==
  /\ Step(k, "taking", "cancelling")
  /\ took' = [took EXCEPT ![k] = held]
  /\ held' = NoSession
  /\ UNCHANGED <<cancelled, loop, watcher, conn, goodbye, stale, failures>>
-----------------------------------------------------------------------------
(***************************************************************************)
(* Stop, and Start which begins with it.                                   *)
(***************************************************************************)

\* authModel answers every Enter with a doLogin, whether one is under way or not.
Call(k) ==
  /\ k \notin Kills
  /\ Step(k, "idle", "taking")
  /\ (Patient /\ k \in Starts) => \A j \in Starts : ~Underway(j)
  /\ UNCHANGED <<took, held, cancelled, loop, watcher, conn, goodbye, stale, failures>>

\* SIGKILL, a crash, or the os.Exit(1) of Run.
Kill(k) ==
  /\ k \in Kills
  /\ Step(k, "idle", "done")
  /\ UNCHANGED <<took, held, cancelled, loop, watcher, conn, goodbye, stale, failures>>

\* Under the lock: cancel and stopped are taken out of the struct.
Take(k) ==
  /\ Step(k, "taking", IF held = NoSession THEN AfterStop(k) ELSE "cancelling")
  /\ took' = [took EXCEPT ![k] = held]
  /\ held' = NoSession
  /\ UNCHANGED <<cancelled, loop, watcher, conn, goodbye, stale, failures>>

\* cancel()
Cancel(k) ==
  /\ Step(k, "cancelling", "waiting")
  /\ cancelled' = cancelled \cup {took[k]}
  /\ UNCHANGED <<took, held, loop, watcher, conn, goodbye, stale, failures>>

\* <-stopped
Stopped(k) ==
  /\ Step(k, "waiting", AfterStop(k))
  /\ loop[took[k]] = "ended"
  /\ UNCHANGED <<took, held, cancelled, loop, watcher, conn, goodbye, stale, failures>>

\* The first dial of a session; no session if it fails.
Dial(s) ==
  /\ \/ /\ Step(s, "dialling", "installing")
        /\ conn' = [conn EXCEPT ![s] = "up"]
        /\ UNCHANGED <<cancelled, failures>>
     \/ /\ Step(s, "dialling", "done")
        /\ failures < MaxFailures
        /\ failures' = failures + 1
        /\ cancelled' = cancelled \cup {s}
        /\ UNCHANGED conn
  /\ UNCHANGED <<took, held, loop, watcher, goodbye, stale>>

\* Under the lock: the session is the struct's, whatever it held before.
Install(s) ==
  /\ Step(s, "installing", "launching")
  /\ held' = s
  /\ UNCHANGED <<took, cancelled, loop, watcher, conn, goodbye, stale, failures>>

\* go run, which holds the connection
Launch(s) ==
  /\ Step(s, "launching", "done")
  /\ loop' = [loop EXCEPT ![s] = "holding"]
  /\ watcher' = [watcher EXCEPT ![s] = "armed"]
  /\ UNCHANGED <<took, held, cancelled, conn, goodbye, stale, failures>>
-----------------------------------------------------------------------------
(***************************************************************************)
(* run and hold                                                            *)
(***************************************************************************)

\* ReadMessage fails, hold returns, and run looks at the context.
ReadFails(s) ==
  /\ Loop(s, "holding", IF s \in cancelled THEN "ended" ELSE "pausing")
  /\ conn[s] \in {"lost", "closed"}
  /\ UNCHANGED <<at, took, held, cancelled, watcher, conn, goodbye, stale, failures>>

\* The select of run: the session is over, or presenceRetryDelay is, in which
\* the watcher has long closed the connection before.  A cancelled context is
\* ready at once and wins against a new timer.
Pause(s) ==
  /\ \/ Loop(s, "pausing", "ended") /\ s \in cancelled
     \/ Loop(s, "pausing", "dialling") /\ s \notin cancelled /\ watcher[s] = "off"
  /\ UNCHANGED <<at, took, held, cancelled, watcher, conn, goodbye, stale, failures>>

\* dialPresence succeeds, while the token of the login, the only one the session
\* has, is good.  The context cuts a dial short only until the handshake: cancelled
\* then, the dial may still succeed, and hold says goodbye at once.
Reconnect(s) ==
  /\ Loop(s, "dialling", "holding")
  /\ s \notin stale
  /\ conn' = [conn EXCEPT ![s] = "up"]
  /\ watcher' = [watcher EXCEPT ![s] = "armed"]
  /\ UNCHANGED <<at, took, held, cancelled, goodbye, stale, failures>>

RedialFails(s) ==
  /\ Loop(s, "dialling", "pausing")
  /\ \/ failures < MaxFailures /\ failures' = failures + 1
     \/ s \in cancelled \cup stale /\ UNCHANGED failures
  /\ UNCHANGED <<at, took, held, cancelled, watcher, conn, goodbye, stale>>

\* The watcher's case ctx.Done: the close frame.
SayGoodbye(s) ==
  /\ watcher[s] = "armed"
  /\ s \in cancelled
  /\ watcher' = [watcher EXCEPT ![s] = "closing"]
  /\ goodbye' = IF conn[s] = "up" THEN goodbye \cup {s} ELSE goodbye
  /\ UNCHANGED <<at, took, held, cancelled, loop, conn, stale, failures>>

\* The watcher's case done: hold has returned.
HoldDone(s) ==
  /\ watcher[s] = "armed"
  /\ loop[s] # "holding"
  /\ watcher' = [watcher EXCEPT ![s] = "closing"]
  /\ UNCHANGED <<at, took, held, cancelled, loop, conn, goodbye, stale, failures>>

\* conn.Close(), after either
HangUpConn(s) ==
  /\ watcher[s] = "closing"
  /\ watcher' = [watcher EXCEPT ![s] = "off"]
  /\ conn' = [conn EXCEPT ![s] = IF @ = "up" THEN "closed" ELSE @]
  /\ UNCHANGED <<at, took, held, cancelled, loop, goodbye, stale, failures>>

\* The network or the server drops the connection.
LoseConn(s) ==
  /\ conn[s] = "up"
  /\ conn' = [conn EXCEPT ![s] = "lost"]
  /\ UNCHANGED <<at, took, held, cancelled, loop, watcher, goodbye, stale, failures>>

\* An hour has passed since the login; the server refuses the token from now on.
Expire(s) ==
  /\ loop[s] \in Alive
  /\ s \notin stale
  /\ stale' = stale \cup {s}
  /\ UNCHANGED <<at, took, held, cancelled, loop, watcher, conn, goodbye, failures>>

CallStep(k) ==
  /\ ~Exited
  /\ Take(k) \/ Cancel(k) \/ Stopped(k) \/ (k \in Starts /\ (Dial(k) \/ Install(k) \/ Launch(k)))

LoopStep(s) == ~Exited /\ (ReadFails(s) \/ Pause(s) \/ Reconnect(s) \/ RedialFails(s))

WatcherStep(s) == ~Exited /\ (SayGoodbye(s) \/ HoldDone(s) \/ HangUpConn(s))

\* Users, signals, the network and the clock.
World ==
  /\ ~Exited
  /\ \/ \E k \in Calls : Call(k) \/ Kill(k)
     \/ \E s \in Starts : LoseConn(s) \/ Expire(s)

PresenceNext ==
  \/ World
  \/ \E k \in Calls : CallStep(k)
  \/ \E s \in Starts : LoopStep(s) \/ WatcherStep(s)

(***************************************************************************)
(* Go schedules every goroutine that can run, dials and writes time out,   *)
(* and the bound on failing dials is the server coming back.               *)
(***************************************************************************)
PresenceSpec ==
  /\ SessionsInit /\ [][PresenceNext]_presenceVars
  /\ \A k \in Calls : WF_presenceVars(CallStep(k))
  /\ \A s \in Starts : WF_presenceVars(LoopStep(s)) /\ WF_presenceVars(WatcherStep(s))
-----------------------------------------------------------------------------
(***************************************************************************)
(* Properties.                                                             *)
(***************************************************************************)

\* The sessions a Stop is about to cancel.
Doomed == {took[k] : k \in {j \in Calls : at[j] = "cancelling"}}

\* Every loop that runs can be stopped: the struct holds its session, or a call
\* of Stop has taken it out and is about to end it.  A login while another is
\* under way would leave a loop nobody knows (the comment in Start, "Logging in
\* again while already connected replaces the old session").
LoopsOwned ==
  \A s \in Starts :
    loop[s] \in Alive =>
      \/ held = s
      \/ s \in cancelled \cup Doomed

\* A call of Stop has returned.
HasStopped(k) == at[k] \notin {"idle", "taking", "cancelling", "waiting"}

\* When a Stop returns, the session it took is over and has told the server so on
\* its connection, unless the connection was lost first (the comment of Stop, "so
\* the user shows up as offline immediately").
GoodbyeBeforeEnd ==
  \A k \in Calls :
    HasStopped(k) /\ took[k] # NoSession =>
      \/ conn[took[k]] = "lost"
      \/ conn[took[k]] = "closed" /\ took[k] \in goodbye

\* The sessions that stay connected by themselves: those nobody has set out to end.
Live == {s \in Starts : loop[s] \in Alive} \ (cancelled \cup Doomed)

\* Start, Stop, run and hold together are one session after another.
Session == INSTANCE OneSession WITH Logins <- Starts, live <- Live

ImplementsOneSession == Session!SessionSpec

\* Start and Stop return, whatever the network does (presence_test.go,
\* requirePrompt).
CallsReturn == \A k \in Calls : at[k] = "taking" ~> at[k] = "done" \/ Exited

\* A session whose connection drops is connected again, until somebody ends it
\* (the comment of presence) or its token has expired.
ComesBack ==
  \A s \in Starts :
    loop[s] \in Alive /\ conn[s] = "lost"
      ~> conn[s] = "up" \/ s \in cancelled \cup stale \/ Exited

\* README.md, "keeps it for the whole session", and the comment of presence, "so
\* this reconnects by itself after a network drop": whatever the time.
AlwaysComesBack ==
  \A s \in Starts :
    loop[s] \in Alive /\ conn[s] = "lost"
      ~> conn[s] = "up" \/ s \in cancelled \/ Exited
=============================================================================
