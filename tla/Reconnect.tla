----------------------------- MODULE Reconnect ------------------------------
(***************************************************************************)
(* Who connects a mower's transport, and when (web-server/app.py): the     *)
(* first connect, the watchdog with its retry sequence, /api/reconnect, a  *)
(* command that finds the link down, and the teardown of the whole roster. *)
(* They are asyncio tasks on one Hc33Transport, and only some of them know *)
(* of each other.                                                          *)
(*                                                                         *)
(* The flags they know each other by belong to the mower's name, not to    *)
(* the transport.  A roster that is rebuilt has them in common with the    *)
(* retry sequences and requests of the roster before it (Survivors), which *)
(* its teardown did not end.                                               *)
(***************************************************************************)
EXTENDS Hc33Transport

CONSTANTS
  Retriers,     \* _auto_reconnect(); bound: sequences at once
  Manual,       \* /api/reconnect
  Command,      \* a task that sends
  Teardown,     \* _teardown_all(), or _build_and_connect() before it
  Survivors,    \* the tasks of the roster before
  Attempts,     \* the length of AUTO_RECONNECT_DELAYS
  MaxManual,    \* bound: calls of /api/reconnect
  MaxCommands   \* bound: commands sent

ASSUME ReconnectAssumption ==
  /\ Callers = Retriers \cup {Manual, Command, Teardown}
  /\ Retriers \cap {Manual, Command, Teardown} = {}
  /\ Manual \notin {Command, Teardown} /\ Command # Teardown
  /\ Attempts \in Nat \ {0} /\ MaxManual \in Nat /\ MaxCommands \in Nat

VARIABLES
  at,             \* per caller: what it does next, or "off"
  attempt,
  auto_retrying,
  auto_gave_up,
  manual_op,
  last,           \* the watchdog's
  watching,       \* the watchdog runs
  survivors,      \* those that still run
  cleared,        \* history: one of them cleared the flag of a sequence that runs
  manuals,
  commands,
  drains          \* the socket the command's frame was written to

appVars == <<at, attempt, auto_retrying, auto_gave_up, manual_op, last, watching,
             survivors, cleared, manuals, commands, drains>>
flagVars == <<auto_retrying, auto_gave_up, manual_op>>
watchVars == <<last, watching>>
beforeVars == <<survivors, cleared>>
countVars == <<manuals, commands, drains>>
vars == <<transportVars, appVars>>

TypeOK ==
  /\ TransportTypeOK
  /\ at \in [Callers -> {"off", "begin", "sleep", "disconnecting", "connecting", "starting",
                         "sending"}]
  /\ attempt \in [Retriers -> 0 .. Attempts]
  /\ auto_retrying \in BOOLEAN /\ auto_gave_up \in BOOLEAN /\ manual_op \in BOOLEAN
  /\ last \in {"DISCONNECTED", "CONNECTING", "CONNECTED"}
  /\ watching \in {"not yet", "yes", "no"}
  /\ survivors \subseteq Survivors /\ cleared \in BOOLEAN
  /\ manuals \in 0 .. MaxManual /\ commands \in 0 .. MaxCommands
  /\ drains \in Ids \cup {NoSocket}

Init ==
  /\ TransportInit
  /\ at = [t \in Callers |-> IF t = Teardown THEN "begin" ELSE "off"]
  /\ attempt = [r \in Retriers |-> 0]
  /\ auto_retrying = FALSE /\ auto_gave_up = FALSE /\ manual_op = FALSE
  /\ last = "DISCONNECTED"
  /\ watching = "not yet"
  /\ survivors \in SUBSET Survivors /\ cleared = FALSE
  /\ manuals = 0 /\ commands = 0 /\ drains = NoSocket

\* In state.transports, from before the first connect to the end of the teardown.
Registered ==
  /\ at[Teardown] # "begin"
  /\ watching = "no" => at[Teardown] # "off"

\* The retry sequences that are not over.
Running == {r \in Retriers : at[r] # "off"}

Goes(t, where) == at' = [at EXCEPT ![t] = where]
Back(t) == call[t] = "none"

\* A connect() that has come back did so with a connection, or raised.  Both calls
\* end in an await of the availability listeners, so others may run before the
\* caller's next line.
ReturnsOk(t) == Opened(t) \/ (LockGranted(t) /\ call'[t] = "none")

-----------------------------------------------------------------------------
(* _build_and_connect(): the connect may fail, the watchdog is armed anyway. *)

Build ==
  /\ at[Teardown] = "begin"
  /\ connect(Teardown)
  /\ Goes(Teardown, "connecting")
  /\ UNCHANGED <<attempt, flagVars, watchVars, beforeVars, countVars>>

BuildConnected ==
  /\ at[Teardown] = "connecting"
  /\ Opened(Teardown)
  /\ Goes(Teardown, "starting")
  /\ UNCHANGED <<attempt, flagVars, watchVars, beforeVars, countVars>>

\* handle.start() is over, or there was no connection to start on.
Built ==
  /\ \/ at[Teardown] = "connecting" /\ OpenFails(Teardown)
     \/ at[Teardown] = "starting" /\ UNCHANGED transportVars
  /\ Goes(Teardown, "off")
  /\ watching' = "yes"
  /\ last' = _availability'
  /\ UNCHANGED <<attempt, flagVars, beforeVars, countVars>>

-----------------------------------------------------------------------------
(* _watchdog(): a tick, every two seconds.                                  *)

Drop == _availability = "DISCONNECTED" /\ last = "CONNECTED" /\ ~manual_op

\* A task that was created has had its first step long before the next tick.
TickWith(drop) ==
  /\ watching = "yes"
  /\ \A r \in Retriers : at[r] # "begin"
  /\ last' = _availability
  /\ \/ drop /\ \E r \in Retriers \ Running : Goes(r, "begin")
     \/ ~drop /\ UNCHANGED at
  /\ UNCHANGED <<transportVars, attempt, flagVars, watching, beforeVars, countVars>>

\* Bug: a sequence under way is not looked for.
Tick_Blind == TickWith(Drop)

Tick == TickWith(Drop /\ ~auto_retrying)

-----------------------------------------------------------------------------
(* _auto_reconnect()                                                        *)

AutoBegins(r) ==
  /\ at[r] = "begin"
  /\ auto_retrying' = TRUE
  /\ auto_gave_up' = FALSE
  /\ attempt' = [attempt EXCEPT ![r] = 0]
  /\ Goes(r, "sleep")
  /\ UNCHANGED <<transportVars, manual_op, watchVars, beforeVars, countVars>>

\* The delay is over: the next attempt begins with a disconnect().
AutoAttempts(r) ==
  /\ at[r] = "sleep"
  /\ attempt' = [attempt EXCEPT ![r] = @ + 1]
  /\ disconnect(r)
  /\ Goes(r, "disconnecting")
  /\ UNCHANGED <<flagVars, watchVars, beforeVars, countVars>>

AutoConnects(r) ==
  /\ at[r] = "disconnecting" /\ Back(r)
  /\ connect(r)
  /\ Goes(r, IF call'[r] = "none" THEN "starting" ELSE "connecting")
  /\ UNCHANGED <<attempt, flagVars, watchVars, beforeVars, countVars>>

AutoConnected(r) ==
  /\ at[r] = "connecting"
  /\ ReturnsOk(r)
  /\ Goes(r, "starting")
  /\ UNCHANGED <<attempt, flagVars, watchVars, beforeVars, countVars>>

\* `finally`: the flag of the name, whoever set it.
AutoEnds(r) ==
  /\ auto_retrying' = FALSE
  /\ cleared' = (cleared /\ Running # {r})
  /\ Goes(r, "off")

\* handle.start() and the snapshot are awaited; then the sequence is over.
AutoSucceeds(r) ==
  /\ at[r] = "starting"
  /\ AutoEnds(r)
  /\ UNCHANGED <<transportVars, attempt, auto_gave_up, manual_op, watchVars, survivors,
                 countVars>>

\* connect() or start() raised: the next delay, or no more of them.
AutoFails(r) ==
  /\ \/ at[r] = "connecting" /\ OpenFails(r)
     \/ at[r] = "starting" /\ UNCHANGED transportVars
  /\ \/ attempt[r] < Attempts /\ Goes(r, "sleep")
        /\ UNCHANGED <<auto_retrying, auto_gave_up, cleared>>
     \/ attempt[r] = Attempts /\ AutoEnds(r) /\ auto_gave_up' = TRUE
  /\ UNCHANGED <<attempt, manual_op, watchVars, survivors, countVars>>

\* The same two ends in a task of the roster before: a retry sequence, or a
\* /api/reconnect.  What it connects is another transport; the flags are these.
SurvivorEnds(s) ==
  /\ s \in survivors
  /\ survivors' = survivors \ {s}
  /\ \/ /\ auto_retrying' = FALSE /\ auto_gave_up' \in {auto_gave_up, TRUE}
        /\ cleared' = (cleared \/ auto_retrying)
        /\ UNCHANGED manual_op
     \/ /\ manual_op' = FALSE /\ auto_gave_up' \in {auto_gave_up, FALSE}
        /\ UNCHANGED <<auto_retrying, cleared>>
  /\ UNCHANGED <<transportVars, at, attempt, watchVars, countVars>>

-----------------------------------------------------------------------------
(* /api/reconnect                                                           *)

reconnect ==
  /\ Registered
  /\ at[Manual] = "off" /\ manuals < MaxManual
  /\ manuals' = manuals + 1
  /\ manual_op' = TRUE
  /\ disconnect(Manual)
  /\ Goes(Manual, "disconnecting")
  /\ UNCHANGED <<attempt, auto_retrying, auto_gave_up, watchVars, beforeVars, commands,
                 drains>>

ManualConnects ==
  /\ at[Manual] = "disconnecting" /\ Back(Manual)
  /\ connect(Manual)
  /\ Goes(Manual, IF call'[Manual] = "none" THEN "starting" ELSE "connecting")
  /\ UNCHANGED <<attempt, flagVars, watchVars, beforeVars, countVars>>

ManualConnected ==
  /\ at[Manual] = "connecting"
  /\ ReturnsOk(Manual)
  /\ Goes(Manual, "starting")
  /\ UNCHANGED <<attempt, flagVars, watchVars, beforeVars, countVars>>

ManualEnds ==
  /\ \/ at[Manual] = "connecting" /\ OpenFails(Manual) /\ UNCHANGED auto_gave_up
     \/ at[Manual] = "starting" /\ UNCHANGED transportVars /\ auto_gave_up' \in {auto_gave_up, FALSE}
  /\ manual_op' = FALSE
  /\ Goes(Manual, "off")
  /\ UNCHANGED <<attempt, auto_retrying, watchVars, beforeVars, countVars>>

-----------------------------------------------------------------------------
(* A command: HC33ProxyTransport.send() (see SendGate for the lock).  Whoever *)
(* sends has had the handle from state.handles, at any time before: commands *)
(* and the joystick's last stop go on during a teardown and after it.        *)

send ==
  /\ at[Teardown] # "begin"
  /\ at[Command] = "off" /\ commands < MaxCommands
  /\ commands' = commands + 1
  /\ IF is_connected
       THEN /\ drains' = _writer
            /\ Goes(Command, "sending")
            /\ UNCHANGED transportVars
       ELSE /\ connect(Command)
            /\ Goes(Command, "connecting")
            /\ UNCHANGED drains
  /\ UNCHANGED <<attempt, flagVars, watchVars, beforeVars, manuals>>

CommandConnected ==
  /\ at[Command] = "connecting"
  /\ ReturnsOk(Command)
  /\ drains' = _writer'
  /\ Goes(Command, "sending")
  /\ UNCHANGED <<attempt, flagVars, watchVars, beforeVars, manuals, commands>>

\* drain() returns, or finds its socket broken, whichever is the writer by then.
Sent ==
  /\ at[Command] = "sending"
  /\ \/ sock[drains] # "lost" /\ UNCHANGED _availability
     \/ sock[drains] = "lost" /\ _availability' = "DISCONNECTED"
  /\ drains' = NoSocket
  /\ Goes(Command, "off")
  /\ UNCHANGED <<sock, readerVars, refVars, connectq, call, awaited, attempt, flagVars,
                 watchVars, beforeVars, manuals, commands>>

CommandFails ==
  /\ at[Command] = "connecting"
  /\ OpenFails(Command)
  /\ Goes(Command, "off")
  /\ UNCHANGED <<attempt, flagVars, watchVars, beforeVars, countVars>>

-----------------------------------------------------------------------------
(* _teardown_all()                                                          *)

\* Everything cancelled or stopped, up to the transport's disconnect().  The
\* retry sequence and the request in progress are not among it.  What others do
\* between the two they can do before, when the watchdog need not tick again.
TeardownAll ==
  /\ at[Teardown] = "off" /\ watching = "yes"
  /\ \A r \in Retriers : at[r] # "begin"
  /\ watching' = "no"
  /\ disconnect(Teardown)
  /\ Goes(Teardown, "disconnecting")
  /\ UNCHANGED <<attempt, flagVars, last, beforeVars, countVars>>

\* The dictionaries are cleared, the flags with them: from here on they are those
\* of the roster that follows.
TornDown ==
  /\ at[Teardown] = "disconnecting" /\ Back(Teardown)
  /\ Goes(Teardown, "off")
  /\ auto_retrying' = FALSE /\ auto_gave_up' = FALSE /\ manual_op' = FALSE
  /\ UNCHANGED <<transportVars, attempt, watchVars, beforeVars, countVars>>

-----------------------------------------------------------------------------
\* connect() and disconnect() on their way, for whoever called them.  A grant of
\* the lock that returns at once is the caller's own action.
InTransport(t) ==
  /\ TransportStep(t)
  /\ call'[t] = "none" => call[t] # "lock"
  /\ UNCHANGED appVars

AutoTask(r) ==
  \/ AutoBegins(r) \/ AutoAttempts(r) \/ AutoConnects(r) \/ AutoConnected(r)
  \/ AutoSucceeds(r) \/ AutoFails(r)
  \/ InTransport(r)

ManualTask ==
  ManualConnects \/ ManualConnected \/ ManualEnds \/ InTransport(Manual)

CommandTask == CommandConnected \/ Sent \/ CommandFails \/ InTransport(Command)

RosterTask == Build \/ BuildConnected \/ Built \/ TornDown \/ InTransport(Teardown)

Readers == \E r \in Ids : ReaderStep(r) /\ UNCHANGED appVars

Network == \E s \in Ids : (PeerCloses(s) \/ connection_lost(s)) /\ UNCHANGED appVars

Next ==
  \/ \E r \in Retriers : AutoTask(r)
  \/ ManualTask \/ CommandTask \/ RosterTask
  \/ \E s \in Survivors : SurvivorEnds(s)
  \/ Tick
  \/ reconnect \/ send \/ TeardownAll
  \/ Readers
  \/ Network

Spec == Init /\ [][Next]_vars

\* The event loop runs what can run; an open_connection(), a start() and an
\* on_message() end; a socket being closed, or half open, is lost in the end, by a
\* timeout of the TCP stack if not otherwise.
Fairness ==
  /\ \A r \in Retriers : WF_vars(AutoTask(r))
  /\ WF_vars(ManualTask) /\ WF_vars(CommandTask) /\ WF_vars(RosterTask)
  /\ WF_vars(Tick)
  /\ \A r \in Ids :
       /\ WF_vars((ReaderTurns(r) \/ ReaderEof(r) \/ ReaderCancelled(r)) /\ UNCHANGED appVars)
       /\ WF_vars(sock[r] = "closing" /\ connection_lost(r) /\ UNCHANGED appVars)

FairSpec == Spec /\ Fairness

-----------------------------------------------------------------------------
(* Properties.                                                              *)

\* The status page's "connected" is never shown without a socket behind it, however
\* the tasks that connect and disconnect overlap.
ConnectedHasWriter == _availability = "CONNECTED" => _writer # NoSocket

AtMostOne == \A r, q \in Running : r = q

\* The watchdog never starts a retry sequence while another one runs, unless a task
\* of the roster before cleared the flag of the one that runs.
OneSequence == cleared \/ AtMostOne

\* A connection that is over is reported, whichever reader task was reading it.
DropIsReported ==
  (_availability = "CONNECTED" /\ sock[_writer] \in {"eof", "lost"})
    ~> (_availability # "CONNECTED" \/ sock[_writer] = "open")

\* A retry sequence ends, and so does every other caller of the transport: no lock,
\* reader or half-closed socket keeps one for ever.
CallersReturn == \A t \in Callers : call[t] # "none" ~> call[t] = "none"

-----------------------------------------------------------------------------
\* "Tear down every handle/transport/watchdog" (_teardown_all).
TornDownStaysDown == watching = "no" /\ at[Teardown] = "off" => ~is_connected
=============================================================================
