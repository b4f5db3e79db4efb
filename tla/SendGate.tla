------------------------------ MODULE SendGate ------------------------------
(***************************************************************************)
(* How the web server's tasks share a mower's one socket:                  *)
(* _PriorityHC33Transport.send() (web-server/app.py) in front of           *)
(* HC33ProxyTransport.send() and its _send_lock (web-server/hc33_proxy.py).*)
(*                                                                         *)
(* A task whose send is control (a joystick's sender) goes straight to the *)
(* lock, another one first waits, for a bounded time, until no control     *)
(* send is in flight.  `phase` is where a task's call of send() is.        *)
(***************************************************************************)
EXTENDS Integers, SequencesExt

CONSTANTS
  Tasks,     \* the tasks that send
  Control    \* those of them with _CONTROL_SEND set

ASSUME GateAssumption == Control \subseteq Tasks

VARIABLES
  phase,             \* per task: "none", "yield" at the gate, "connect",
                     \* "queued" for the lock, "writing" (in drain(), with it)
  lockq,             \* _send_lock: its holder, then those that wait, in order
  control_inflight,
  control_idle       \* the event of that name

gateVars == <<phase, lockq, control_inflight, control_idle>>

GateTypeOK ==
  /\ phase \in [Tasks -> {"none", "yield", "connect", "queued", "writing"}]
  /\ lockq \in Seq(Tasks)
  /\ control_inflight \in Nat
  /\ control_idle \in BOOLEAN

GateInit ==
  /\ phase = [t \in Tasks |-> "none"]
  /\ lockq = <<>>
  /\ control_inflight = 0
  /\ control_idle = TRUE

\* A lock nobody holds or waits for is taken without a wait, and the frame written
\* in the same step.
Acquire(t) ==
  /\ phase' = [phase EXCEPT ![t] = IF lockq = <<>> THEN "writing" ELSE "queued"]
  /\ lockq' = Append(lockq, t)

\* The inherited send(): to the lock at once, or connect() first.
Enter(t) ==
  \/ Acquire(t)
  \/ /\ phase' = [phase EXCEPT ![t] = "connect"]
     /\ UNCHANGED lockq

send(t) ==
  /\ phase[t] = "none"
  /\ IF t \in Control
       THEN /\ control_inflight' = control_inflight + 1
            /\ control_idle' = FALSE
            /\ Enter(t)
       ELSE /\ UNCHANGED <<control_inflight, control_idle>>
            /\ IF control_idle
                 THEN Enter(t)
                 ELSE phase' = [phase EXCEPT ![t] = "yield"] /\ UNCHANGED lockq

\* No control send is in flight any more, or _CONTROL_YIELD_S has passed.
Yielded(t) ==
  /\ phase[t] = "yield"
  /\ Enter(t)
  /\ UNCHANGED <<control_inflight, control_idle>>

Connected(t) ==
  /\ phase[t] = "connect"
  /\ Acquire(t)
  /\ UNCHANGED <<control_inflight, control_idle>>

\* The lock has been handed over: the frame is in the socket's buffer, and drain() waits for as
\* long as the HC33 does not read.
_send_frame(t) ==
  /\ phase[t] = "queued" /\ Head(lockq) = t
  /\ phase' = [phase EXCEPT ![t] = "writing"]
  /\ UNCHANGED <<lockq, control_inflight, control_idle>>

\* Bugs: the event is set whoever is still in flight; the lock is not released.
Unwind_SetsIdle(t) ==
  /\ phase' = [phase EXCEPT ![t] = "none"]
  /\ lockq' = RemoveFirst(lockq, t)
  /\ control_inflight' = control_inflight - (IF t \in Control THEN 1 ELSE 0)
  /\ control_idle' = (t \in Control \/ control_idle)
Unwind_KeepsLock(t) ==
  /\ phase' = [phase EXCEPT ![t] = "none"]
  /\ lockq' = IF phase[t] = "writing" THEN RemoveFirst(lockq, t) ELSE lockq
  /\ control_inflight' = control_inflight - (IF t \in Control THEN 1 ELSE 0)
  /\ control_idle' = (control_idle \/ (t \in Control /\ control_inflight' <= 0))

\* However the call ends, by a return, an exception or a cancellation, it lets go
\* of the lock, or of its place in the queue, and of the gate.
Unwind(t) ==
  /\ phase' = [phase EXCEPT ![t] = "none"]
  /\ lockq' = RemoveFirst(lockq, t)
  /\ control_inflight' = control_inflight - (IF t \in Control THEN 1 ELSE 0)
  /\ control_idle' = (control_idle \/ (t \in Control /\ control_inflight' <= 0))

Advances(t) == Yielded(t) \/ Connected(t) \/ _send_frame(t)

Returns(t) == phase[t] = "writing" /\ Unwind(t)

\* connect() raises, the socket turns out closed, or drain() finds it broken.
Raises(t) ==
  /\ phase[t] \in {"connect", "writing"} \/ (phase[t] = "queued" /\ Head(lockq) = t)
  /\ Unwind(t)

-----------------------------------------------------------------------------
\* The gate is shut exactly while a control send is in flight: one that failed
\* or was cancelled does not leave it shut, and one of two that ends does not
\* open it.  (send()'s `finally` and the counter behind the event.)
GateTellsTruth ==
  LET flying == {t \in Control : phase[t] # "none"}
  IN  /\ control_inflight = Cardinality(flying)
      /\ control_idle <=> flying = {}
=============================================================================
