----------------------------- MODULE MCTcpProxy -----------------------------
(***************************************************************************)
(* The HC33 proxy with two clients, one after the other or one waiting in  *)
(* the backlog for the other.  Times are in units of about five seconds:   *)
(* a scan takes 15 s, a GATT connect 10 s, the task watchdog 30 s.         *)
(***************************************************************************)
EXTENDS TcpProxy

\* The forward direction: an empty frame, a frame of one and one of two bytes,
\* and one over the limit of two.
MCFrames == {<<>>, <<7>>, <<8, 9>>, <<1, 1, 1>>}

\* The return direction and the timers need no more than one kind of frame.
MCOneFrame == {<<7>>}

MCSymmetry == Permutations(Conns)
=============================================================================
