--------------------------- MODULE ClientLifecycle ---------------------------
(***************************************************************************)
(* What the client promises to whoever runs it (docs/ARCHITECTURE.md,      *)
(* "Session lifecycle"): it has at most one connection, is waiting for the *)
(* next one when it has none, and ends only when told to or after a fatal  *)
(* login, which alone makes the exit status 1.  TwitchIrcClient            *)
(* implements it.                                                          *)
(***************************************************************************)
VARIABLES
  phase,           \* what the client is doing
  exit_code        \* what main will return

vars == <<phase, exit_code>>

Alive == {"waiting", "connecting", "ready"}

Init == phase = "waiting" /\ exit_code = 0

Move(from, to) == phase \in from /\ phase' = to /\ UNCHANGED exit_code

Connect == Move({"waiting"}, "connecting")

Ready == Move({"connecting"}, "ready")

\* The connection is lost or the server asks for another one.
Lose == Move({"connecting", "ready"}, "waiting")

Stop == Move(Alive, "stopping")

End == Move({"stopping"}, "done")

Fatal ==
  /\ phase \in {"connecting", "ready"}
  /\ phase' = "done"
  /\ exit_code' = 1

Next == Connect \/ Ready \/ Lose \/ Stop \/ End \/ Fatal

Spec == Init /\ [][Next]_vars
=============================================================================
