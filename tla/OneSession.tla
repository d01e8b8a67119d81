------------------------------ MODULE OneSession ------------------------------
(***************************************************************************)
(* What the presence session promises the rest of the client: a login      *)
(* opens one, the next login or the end of the program ends it, and there  *)
(* are never two.                                                          *)
(***************************************************************************)
CONSTANT Logins

VARIABLE live   \* the sessions that stay connected by themselves: one or none

SessionInit == live = {}

Open(s) == live = {} /\ live' = {s}

End == live # {} /\ live' = {}

SessionNext == End \/ \E s \in Logins : Open(s)

SessionSpec == SessionInit /\ [][SessionNext]_live
=============================================================================
