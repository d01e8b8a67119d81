--------------------------- MODULE PresenceSockets ---------------------------
(***************************************************************************)
(* The goroutines of a presence socket: handlerPresenceWS up to the        *)
(* registration, then the read loop with its deferred calls.  The ping     *)
(* loop changes nothing the server looks at: it is what makes a lost peer  *)
(* show up as a failed read, and so the reason that PresenceReadError is   *)
(* fair.                                                                   *)
(***************************************************************************)
EXTENDS Hub, FiniteSets

ASSUME PresConnsFinite == IsFiniteSet(PresConns)

VARIABLE
  ppc   \* ppc[p]: the step of handlerPresenceWS / presenceClient.read to come

\* The connections the hub counts: between SetOnline and SetOffline.
Counted == {"counted", "reading", "leaving", "unregistered"}

PresenceTypeOK ==
  ppc \in [PresConns -> {"idle", "refused", "hijacked", "offline", "done"} \cup Counted]

PresenceInit == ppc = [p \in PresConns |-> "idle"]

PGoto(p, from, to) == ppc[p] = from /\ ppc' = [ppc EXCEPT ![p] = to]

\* The connections of u that are counted.
CountedConns(u) == {p \in PresConns : UserOf[p] = u /\ ppc[p] \in Counted}
-----------------------------------------------------------------------------
(***************************************************************************)
(* Fault variants.                                                         *)
(***************************************************************************)

\* No read deadline, so that only a socket closed here is noticed.
PresenceReadErrorNoDeadline(p) ==
  /\ PGoto(p, "reading", "leaving")
  /\ sock[p] = "closed"
  /\ UNCHANGED <<sockVars, hubVars, chanVars>>

\* Pongs do not extend the read deadline, and the read fails on a live peer.
PresenceReadErrorUnponged(p) ==
  /\ PGoto(p, "reading", "leaving")
  /\ UNCHANGED <<sockVars, hubVars, chanVars>>
-----------------------------------------------------------------------------
\* upgrader.Upgrade; middlewareAuth has admitted the user before.
PresenceUpgrade(p) ==
  /\ PGoto(p, "idle", "hijacked")
  /\ Hijack(p)
  /\ UNCHANGED <<hubVars, chanVars>>

\* The upgrade fails, and has answered with an error itself.
PresenceRefuse(p) ==
  /\ PGoto(p, "idle", "refused")
  /\ UNCHANGED <<sockVars, hubVars, chanVars>>

\* cfg.hub.SetOnline(currentUserID)
SetOnline(p) ==
  /\ PGoto(p, "hijacked", "counted")
  /\ HubSetOnline(UserOf[p])

\* cfg.hub.registerPresence <- client, then the loops are started.
RegisterPresence(p) ==
  /\ PGoto(p, "counted", "reading")
  /\ HubRegisterPresence(p)

\* ReadMessage fails: closed here, or the peer is lost.
PresenceReadError(p) ==
  /\ PGoto(p, "reading", "leaving")
  /\ ReadsFail(p)
  /\ UNCHANGED <<sockVars, hubVars, chanVars>>

\* The peer sends more than maxMessageSize, although nothing is expected of it.
PresenceReadTooBig(p) ==
  /\ PGoto(p, "reading", "leaving")
  /\ ~ReadsFail(p)
  /\ WriteCloseFrame(p, "toobig")
  /\ UNCHANGED <<hubVars, chanVars>>

\* The deferred calls, in order: unregisterPresence, SetOffline, closeSocket.
UnregisterPresence(p) ==
  /\ PGoto(p, "leaving", "unregistered")
  /\ HubUnregisterPresence(p)

SetOffline(p) ==
  /\ PGoto(p, "unregistered", "offline")
  /\ HubSetOffline(UserOf[p])

PresenceClose(p) ==
  /\ PGoto(p, "offline", "done")
  /\ CloseSocket(p)
  /\ UNCHANGED <<hubVars, chanVars>>
=============================================================================
