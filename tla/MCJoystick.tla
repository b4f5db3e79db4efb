----------------------------- MODULE MCJoystick -----------------------------
(***************************************************************************)
(* Two WebSockets on one mower: a stick that is driven, and another tab,   *)
(* or the same phone before it roamed.                                     *)
(***************************************************************************)
EXTENDS Joystick, TLC

CONSTANTS s1, s2

MCSockets == {s1, s2}
MCControl == {Sender(w) : w \in Sockets}
MCTasks == MCControl \cup {Handler(w) : w \in Sockets} \cup {Probe}

MCFrames == (s1 :> 3) @@ (s2 :> 1)
MCFewFrames == (s1 :> 2) @@ (s2 :> 0)
=============================================================================
