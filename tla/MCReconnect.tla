---------------------------- MODULE MCReconnect -----------------------------
(***************************************************************************)
(* One mower's transport with every task that may connect or disconnect it *)
(* once: two sockets, so that the reader task of the first can outlive it. *)
(*                                                                         *)
(* A second retry sequence starts only beside one whose flag was cleared   *)
(* by a task left over from the roster before.  So a behaviour has either  *)
(* /api/reconnect and a command on it, or such a task and two sequences.   *)
(***************************************************************************)
EXTENDS Reconnect

CONSTANTS Retry1, Retry2

MCCallers == Retriers \cup {Manual, Command, Teardown}

VARIABLE part

recVars == <<part, vars>>

MCInit ==
  /\ part \in {"requests", "left over"} /\ Init
  /\ part = "requests" <=> survivors = {}

MCNext ==
  /\ Next /\ UNCHANGED part
  /\ part = "requests" => at'[Retry2] = "off"
  /\ part = "left over" => manuals' = 0 /\ commands' = 0

MCSpec == MCInit /\ [][MCNext]_recVars /\ Fairness
=============================================================================
