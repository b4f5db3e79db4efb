------------------------------ MODULE Joystick ------------------------------
(***************************************************************************)
(* The joystick of the web server: joystick_ws() of web-server/app.py with *)
(* its receive loop, its sender task and the single-slot mailbox between   *)
(* them, and the watchdog's telemetry probes, all on one mower's transport.*)
(* A WebSocket is one browser's stick (static/app.js); several may be open *)
(* on the same mower, the last one not yet known to be dead among them.    *)
(*                                                                         *)
(* asyncio runs one task at a time, from one await to the next: that is an *)
(* action.  Stick frames are numbered, so that a command can be told to be *)
(* older than the newest frame received.                                   *)
(***************************************************************************)
EXTENDS SendGate

CONSTANTS
  Sockets,     \* the joystick WebSockets
  Probe,       \* the watchdog's task
  MaxFrames,   \* bound: the frames each browser sends
  MaxProbes    \* bound: the rounds of telemetry probes

Sender(w) == <<"sender", w>>
Handler(w) == <<"handler", w>>

ASSUME JoystickAssumption ==
  /\ Control = {Sender(w) : w \in Sockets}
  /\ Tasks = Control \cup {Handler(w) : w \in Sockets} \cup {Probe}
  /\ Probe \notin Control \cup {Handler(w) : w \in Sockets}

VARIABLES
  open,       \* per WebSocket: the browser has not closed it or vanished
  inbox,      \* stick frames sent and not yet received
  pending,    \* the mailbox: <<>> or the frame in it
  have_new,
  handler,    \* "receive", "cancel" (the sender), "stopping", "sending", "gone"
  sender,     \* "wait", "send", "backoff", "cancelled"
  cmd,        \* the frame the sender is sending
  stopped,
  driving,    \* now < _DRIVING_UNTIL
  probing,    \* probes of this round still to be sent
  newest,     \* history: the last frame received
  last,       \* history: the kind of the last command written to the socket
  late,       \* history: commands written since then that are older
  failed,     \* history: the last send for this WebSocket failed
  rounds      \* rounds of probes so far

stickVars == <<open, inbox, newest>>
mailVars == <<pending, have_new>>
senderVars == <<sender, cmd, stopped>>
probeVars == <<probing, rounds>>
sentVars == <<last, late, failed>>
vars == <<gateVars, stickVars, mailVars, handler, senderVars, driving, probeVars, sentVars>>

Frame == [n : Nat, kind : {"move", "stop"}]
NoFrame == [n |-> 0, kind |-> "stop"]

TypeOK ==
  /\ GateTypeOK
  /\ open \in [Sockets -> BOOLEAN]
  /\ inbox \in [Sockets -> Seq(Frame)]
  /\ pending \in [Sockets -> Seq(Frame)]
  /\ \A w \in Sockets : Len(pending[w]) <= 1
  /\ have_new \in [Sockets -> BOOLEAN]
  /\ handler \in [Sockets -> {"receive", "cancel", "stopping", "sending", "gone"}]
  /\ sender \in [Sockets -> {"wait", "send", "backoff", "cancelled"}]
  /\ cmd \in [Sockets -> Frame]
  /\ stopped \in [Sockets -> BOOLEAN]
  /\ driving \in BOOLEAN
  /\ probing \in 0 .. 4
  /\ newest \in [Sockets -> Frame]
  /\ last \in [Sockets -> {"move", "stop"}]
  /\ late \in [Sockets -> Nat]
  /\ failed \in [Sockets -> BOOLEAN]
  /\ rounds \in Nat

Init ==
  /\ GateInit
  /\ open = [w \in Sockets |-> TRUE]
  /\ inbox = [w \in Sockets |-> <<>>]
  /\ pending = [w \in Sockets |-> <<>>]
  /\ have_new = [w \in Sockets |-> FALSE]
  /\ handler = [w \in Sockets |-> "receive"]
  /\ sender = [w \in Sockets |-> "wait"]
  /\ cmd = [w \in Sockets |-> NoFrame]
  /\ stopped = [w \in Sockets |-> TRUE]
  /\ driving = FALSE
  /\ probing = 0
  /\ newest = [w \in Sockets |-> NoFrame]
  /\ last = [w \in Sockets |-> "stop"]
  /\ late = [w \in Sockets |-> 0]
  /\ failed = [w \in Sockets |-> FALSE]
  /\ rounds = 0

\* Task t has got as far as the socket with a command of w.
Written(w, t, command) ==
  IF phase[t] # "writing" /\ phase'[t] = "writing"
    THEN /\ last' = [last EXCEPT ![w] = command.kind]
         /\ late' = [late EXCEPT ![w] = IF command.n < newest[w].n THEN @ + 1 ELSE @]
    ELSE UNCHANGED <<last, late>>

-----------------------------------------------------------------------------
(* The browser: a frame every 150 ms while the stick is held, one of force  *)
(* zero when it is released.                                                *)

sendJoystick(w) ==
  /\ open[w]
  /\ LET n == newest[w].n + Len(inbox[w]) + 1
     IN  /\ n <= MaxFrames[w]
         /\ \E kind \in {"move", "stop"} :
              inbox' = [inbox EXCEPT ![w] = Append(@, [n |-> n, kind |-> kind])]
  /\ UNCHANGED <<gateVars, open, newest, mailVars, handler, senderVars, driving, probeVars,
                 sentVars>>

\* It closes, or it is gone and what was under way is lost.
Leave(w) ==
  /\ open[w]
  /\ open' = [open EXCEPT ![w] = FALSE]
  /\ \E left \in {inbox[w], <<>>} : inbox' = [inbox EXCEPT ![w] = left]
  /\ UNCHANGED <<gateVars, newest, mailVars, handler, senderVars, driving, probeVars, sentVars>>

-----------------------------------------------------------------------------
(* joystick_ws(): the receive loop, and what follows it.                    *)

\* Bug: a frame that finds the mailbox full is dropped.
Receive_KeepsOldest(w) ==
  /\ handler[w] = "receive"
  /\ inbox[w] # <<>>
  /\ LET frame == Head(inbox[w])
     IN  /\ newest' = [newest EXCEPT ![w] = frame]
         /\ pending' = [pending EXCEPT ![w] = IF have_new[w] THEN @ ELSE <<frame>>]
         /\ driving' = (frame.kind = "move")
  /\ inbox' = [inbox EXCEPT ![w] = Tail(@)]
  /\ have_new' = [have_new EXCEPT ![w] = TRUE]
  /\ late' = [late EXCEPT ![w] = 0]
  /\ UNCHANGED <<gateVars, open, handler, senderVars, probeVars, last, failed>>

Receive(w) ==
  /\ handler[w] = "receive"
  /\ inbox[w] # <<>>
  /\ LET frame == Head(inbox[w])
     IN  /\ newest' = [newest EXCEPT ![w] = frame]
         /\ pending' = [pending EXCEPT ![w] = <<frame>>]
         /\ driving' = (frame.kind = "move")
  /\ inbox' = [inbox EXCEPT ![w] = Tail(@)]
  /\ have_new' = [have_new EXCEPT ![w] = TRUE]
  /\ late' = [late EXCEPT ![w] = 0]
  /\ UNCHANGED <<gateVars, open, handler, senderVars, probeVars, last, failed>>

\* Bug: the sender is left running.
Disconnect_NoCancel(w) ==
  /\ handler[w] = "receive"
  /\ inbox[w] = <<>> /\ ~open[w]
  /\ handler' = [handler EXCEPT ![w] = "stopping"]
  /\ UNCHANGED <<gateVars, stickVars, mailVars, senderVars, driving, probeVars, sentVars>>

\* WebSocketDisconnect: sender.cancel(), which the sender finds at its next step.
Disconnect(w) ==
  /\ handler[w] = "receive"
  /\ inbox[w] = <<>> /\ ~open[w]
  /\ handler' = [handler EXCEPT ![w] = "cancel"]
  /\ UNCHANGED <<gateVars, stickVars, mailVars, senderVars, driving, probeVars, sentVars>>

SenderCancelled(w) ==
  /\ handler[w] = "cancel"
  /\ handler' = [handler EXCEPT ![w] = "stopping"]
  /\ sender' = [sender EXCEPT ![w] = "cancelled"]
  /\ IF phase[Sender(w)] # "none" THEN Unwind(Sender(w)) ELSE UNCHANGED gateVars
  /\ cmd' = [cmd EXCEPT ![w] = NoFrame]
  /\ UNCHANGED <<stickVars, mailVars, stopped, driving, probeVars, sentVars>>

StopCommand(w) == [n |-> newest[w].n, kind |-> "stop"]

\* The unconditional stop, sent by the handler itself and so not as control.
FinalStop(w) ==
  /\ handler[w] = "stopping"
  /\ handler' = [handler EXCEPT ![w] = "sending"]
  /\ driving' = FALSE
  /\ send(Handler(w))
  /\ Written(w, Handler(w), StopCommand(w))
  /\ UNCHANGED <<stickVars, mailVars, senderVars, probeVars, failed>>

FinalStopAdvances(w) ==
  /\ Advances(Handler(w))
  /\ Written(w, Handler(w), StopCommand(w))
  /\ UNCHANGED <<stickVars, mailVars, handler, senderVars, driving, probeVars, failed>>

Gone(w) ==
  /\ handler[w] = "sending"
  /\ \/ Returns(Handler(w)) /\ failed' = [failed EXCEPT ![w] = FALSE]
     \/ Raises(Handler(w)) /\ failed' = [failed EXCEPT ![w] = TRUE]
  /\ handler' = [handler EXCEPT ![w] = "gone"]
  /\ UNCHANGED <<stickVars, mailVars, senderVars, driving, probeVars, last, late>>

-----------------------------------------------------------------------------
(* The sender task.                                                         *)

Running(w) == sender[w] # "cancelled" /\ handler[w] # "cancel"

\* What the sender does first: the slot is emptied in the step that reads it, so
\* that have_new is never set over an empty slot.
Take(w) ==
  /\ Running(w)
  /\ sender[w] = "wait"
  /\ have_new[w] /\ pending[w] # <<>>
  /\ have_new' = [have_new EXCEPT ![w] = FALSE]
  /\ pending' = [pending EXCEPT ![w] = <<>>]

\* Bug: `stopped` is cleared only when the move has been sent.
TakeMove_StoppedLater(w) ==
  /\ Take(w)
  /\ Head(pending[w]).kind = "move"
  /\ cmd' = [cmd EXCEPT ![w] = Head(pending[w])]
  /\ sender' = [sender EXCEPT ![w] = "send"]
  /\ send(Sender(w))
  /\ Written(w, Sender(w), cmd'[w])
  /\ UNCHANGED <<stickVars, handler, stopped, driving, probeVars, failed>>

TakeMove(w) ==
  /\ Take(w)
  /\ Head(pending[w]).kind = "move"
  /\ cmd' = [cmd EXCEPT ![w] = Head(pending[w])]
  /\ stopped' = [stopped EXCEPT ![w] = FALSE]
  /\ sender' = [sender EXCEPT ![w] = "send"]
  /\ send(Sender(w))
  /\ Written(w, Sender(w), cmd'[w])
  /\ UNCHANGED <<stickVars, handler, driving, probeVars, failed>>

\* A move the transform makes no vector of, or a stop when nothing moves.
TakeNothing(w) ==
  /\ Take(w)
  /\ Head(pending[w]).kind = "move" \/ stopped[w]
  /\ UNCHANGED <<gateVars, stickVars, handler, senderVars, driving, probeVars, sentVars>>

TakeStop(w) ==
  /\ Take(w)
  /\ Head(pending[w]).kind = "stop" /\ ~stopped[w]
  /\ cmd' = [cmd EXCEPT ![w] = Head(pending[w])]
  /\ sender' = [sender EXCEPT ![w] = "send"]
  /\ send(Sender(w))
  /\ Written(w, Sender(w), cmd'[w])
  /\ UNCHANGED <<stickVars, handler, stopped, driving, probeVars, failed>>

SendAdvances(w) ==
  /\ Running(w)
  /\ Advances(Sender(w))
  /\ Written(w, Sender(w), cmd[w])
  /\ UNCHANGED <<stickVars, mailVars, handler, senderVars, driving, probeVars, failed>>

\* Bug: the slot is emptied after the send.
Sent_Empties(w) ==
  /\ Running(w)
  /\ Returns(Sender(w))
  /\ sender' = [sender EXCEPT ![w] = "wait"]
  /\ stopped' = [stopped EXCEPT ![w] = (cmd[w].kind = "stop")]
  /\ failed' = [failed EXCEPT ![w] = FALSE]
  /\ pending' = [pending EXCEPT ![w] = <<>>]
  /\ cmd' = [cmd EXCEPT ![w] = NoFrame]
  /\ UNCHANGED <<stickVars, have_new, handler, driving, probeVars, last, late>>

Sent(w) ==
  /\ Running(w)
  /\ Returns(Sender(w))
  /\ sender' = [sender EXCEPT ![w] = "wait"]
  /\ stopped' = [stopped EXCEPT ![w] = (cmd[w].kind = "stop")]
  /\ failed' = [failed EXCEPT ![w] = FALSE]
  /\ cmd' = [cmd EXCEPT ![w] = NoFrame]
  /\ UNCHANGED <<stickVars, mailVars, handler, driving, probeVars, last, late>>

SendFailed(w) ==
  /\ Running(w)
  /\ Raises(Sender(w))
  /\ sender' = [sender EXCEPT ![w] = "backoff"]
  /\ failed' = [failed EXCEPT ![w] = TRUE]
  /\ cmd' = [cmd EXCEPT ![w] = NoFrame]
  /\ UNCHANGED <<stickVars, mailVars, handler, stopped, driving, probeVars, last, late>>

BackedOff(w) ==
  /\ Running(w)
  /\ sender[w] = "backoff"
  /\ sender' = [sender EXCEPT ![w] = "wait"]
  /\ UNCHANGED <<gateVars, stickVars, mailVars, handler, cmd, stopped, driving, probeVars, sentVars>>

-----------------------------------------------------------------------------
(* The watchdog's probes, two by two, and _DRIVE_HOLD_S running out.        *)

\* The light's probes, the fault log's, or all four.
StartProbes ==
  /\ probing = 0
  /\ ~driving
  /\ rounds < MaxProbes
  /\ rounds' = rounds + 1
  /\ probing' \in {2, 4}
  /\ send(Probe)
  /\ UNCHANGED <<stickVars, mailVars, handler, senderVars, driving, sentVars>>

\* Whether the stick is held is not looked at again.
NextProbe ==
  /\ probing > 0
  /\ send(Probe)
  /\ UNCHANGED <<stickVars, mailVars, handler, senderVars, driving, probeVars, sentVars>>

ProbeAdvances ==
  /\ Advances(Probe)
  /\ UNCHANGED <<stickVars, mailVars, handler, senderVars, driving, probeVars, sentVars>>

\* The exception of the first of two takes the second one with it.
ProbeOver ==
  /\ \/ Returns(Probe) /\ probing' = probing - 1
     \/ Raises(Probe) /\ probing' = IF probing > 2 THEN 2 ELSE 0
  /\ UNCHANGED <<stickVars, mailVars, handler, senderVars, driving, rounds, sentVars>>

HoldExpires ==
  /\ driving
  /\ driving' = FALSE
  /\ UNCHANGED <<gateVars, stickVars, mailVars, handler, senderVars, probeVars, sentVars>>

-----------------------------------------------------------------------------
HandlerTask(w) ==
  \/ Receive(w)
  \/ Disconnect(w)
  \/ FinalStop(w)
  \/ FinalStopAdvances(w)
  \/ Gone(w)

SenderTask(w) ==
  \/ SenderCancelled(w)
  \/ TakeMove(w)
  \/ TakeNothing(w)
  \/ TakeStop(w)
  \/ SendAdvances(w)
  \/ Sent(w)
  \/ SendFailed(w)
  \/ BackedOff(w)

ProbeTask == NextProbe \/ ProbeAdvances \/ ProbeOver

Next ==
  \/ \E w \in Sockets : sendJoystick(w) \/ Leave(w) \/ HandlerTask(w) \/ SenderTask(w)
  \/ StartProbes
  \/ ProbeTask
  \/ HoldExpires

Spec == Init /\ [][Next]_vars

\* The event loop runs every task that can run; a yield, a connect() and a drain()
\* end, by a timeout if not otherwise.  Nothing is assumed of the browsers.
Fairness ==
  /\ \A w \in Sockets : WF_vars(HandlerTask(w)) /\ WF_vars(SenderTask(w))
  /\ WF_vars(ProbeTask)

FairSpec == Spec /\ Fairness

-----------------------------------------------------------------------------
(* Properties.                                                              *)

\* Once a newer stick frame has been received at most one older command, the one
\* the sender had already taken, is still written: frames that were superseded are
\* dropped, not queued.
OneStale == \A w \in Sockets : late[w] <= 1

\* When the sender believes that nothing moves, the last command written is no
\* move, whatever sends failed on the way: a release is never skipped as needless.
StoppedMeansStopped == \A w \in Sockets : stopped[w] => last[w] = "stop"

\* What a WebSocket that is gone has written last is the stop: no move of the
\* cancelled sender comes after it.
StopIsLast ==
  \A w \in Sockets : handler[w] = "gone" /\ ~failed[w] => last[w] = "stop"

\* The dead man's switch: a browser that closes or vanishes gets the mower stopped,
\* whatever waits for the link and whatever the sender was doing.
DeadMan == \A w \in Sockets : ~open[w] ~> handler[w] = "gone"

\* A stick that is released, and stays so, stops the mower, unless the send fails.
ReleaseStops ==
  \A w \in Sockets :
    newest[w].kind = "stop" ~>
      last[w] = "stop" \/ newest[w].kind = "move" \/ failed[w]

=============================================================================
