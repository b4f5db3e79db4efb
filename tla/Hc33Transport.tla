--------------------------- MODULE Hc33Transport ---------------------------
(***************************************************************************)
(* The web server's end of the socket: HC33ProxyTransport of               *)
(* web-server/hc33_proxy.py, its connect() under _connect_lock, its        *)
(* disconnect() under no lock, and its reader tasks.                       *)
(*                                                                         *)
(* Every connect() that succeeds makes a socket and a reader task, and the *)
(* two have the same number.  `call` is where a caller's connect() or      *)
(* disconnect() awaits.  asyncio: a FIN leaves a socket half open ("eof"), *)
(* and close() is complete only when what is buffered has been flushed.    *)
(***************************************************************************)
EXTENDS Integers, SequencesExt

CONSTANTS
  Callers,      \* the tasks that call connect() and disconnect()
  MaxSockets    \* bound: the sockets ever opened

ASSUME TransportAssumption == MaxSockets \in Nat

NoSocket == 0
Ids == 1 .. MaxSockets

VARIABLES
  sock,           \* per socket: "none", "open", "eof", "closing", "lost"
  reader,         \* per reader task: "none", "new", "wait", "deliver", "done"
  reads,          \* the socket a reader task waits on
  cancelled,      \* reader tasks that are to be cancelled at their next step
  _writer,
  _reader,
  _reader_task,
  _availability,
  connectq,       \* _connect_lock: its holder, then those that wait, in order
  call,           \* "none", "reader" or "closing" in disconnect(),
                  \* "lock" or "opening" in connect()
  awaited         \* the reader task or the writer disconnect() awaits

readerVars == <<reader, reads, cancelled>>
refVars == <<_writer, _reader, _reader_task>>
transportVars == <<sock, readerVars, refVars, _availability, connectq, call, awaited>>

TransportTypeOK ==
  /\ sock \in [Ids -> {"none", "open", "eof", "closing", "lost"}]
  /\ reader \in [Ids -> {"none", "new", "wait", "deliver", "done"}]
  /\ reads \in [Ids -> Ids \cup {NoSocket}]
  /\ cancelled \subseteq Ids
  /\ {_writer, _reader, _reader_task} \subseteq Ids \cup {NoSocket}
  /\ _availability \in {"DISCONNECTED", "CONNECTING", "CONNECTED"}
  /\ connectq \in Seq(Callers)
  /\ call \in [Callers -> {"none", "reader", "closing", "lock", "opening"}]
  /\ awaited \in [Callers -> Ids \cup {NoSocket}]

TransportInit ==
  /\ sock = [s \in Ids |-> "none"]
  /\ reader = [s \in Ids |-> "none"]
  /\ reads = [s \in Ids |-> NoSocket]
  /\ cancelled = {}
  /\ _writer = NoSocket /\ _reader = NoSocket /\ _reader_task = NoSocket
  /\ _availability = "DISCONNECTED"
  /\ connectq = <<>>
  /\ call = [t \in Callers |-> "none"]
  /\ awaited = [t \in Callers |-> NoSocket]

\* A half-open socket still counts as connected.
is_connected == _writer # NoSocket /\ sock[_writer] \in {"open", "eof"}

-----------------------------------------------------------------------------
(* connect()                                                                *)

\* async with self._connect_lock, and the early return.
LockHeld(t) ==
  IF is_connected
    THEN /\ call' = [call EXCEPT ![t] = "none"]
         /\ connectq' = RemoveFirst(connectq, t)
         /\ UNCHANGED _availability
    ELSE /\ call' = [call EXCEPT ![t] = "opening"]
         /\ connectq' = IF Contains(connectq, t) THEN connectq ELSE Append(connectq, t)
         /\ _availability' = "CONNECTING"

connect(t) ==
  /\ IF connectq = <<>>
       THEN LockHeld(t)
       ELSE /\ call' = [call EXCEPT ![t] = "lock"]
            /\ connectq' = Append(connectq, t)
            /\ UNCHANGED _availability
  /\ UNCHANGED <<sock, readerVars, refVars, awaited>>

LockGranted(t) ==
  /\ call[t] = "lock" /\ Head(connectq) = t
  /\ LockHeld(t)
  /\ UNCHANGED <<sock, readerVars, refVars, awaited>>

Opened(t) ==
  /\ call[t] = "opening"
  /\ \E s \in Ids :
       /\ sock[s] = "none" /\ \A r \in Ids : r < s => sock[r] # "none"
       /\ sock' = [sock EXCEPT ![s] = "open"]
       /\ reader' = [reader EXCEPT ![s] = "new"]
       /\ _writer' = s /\ _reader' = s /\ _reader_task' = s
  /\ _availability' = "CONNECTED"
  /\ call' = [call EXCEPT ![t] = "none"]
  /\ connectq' = Tail(connectq)
  /\ UNCHANGED <<reads, cancelled, awaited>>

\* Bug: a failure does not release the lock.
OpenFails_KeepsLock(t) ==
  /\ call[t] = "opening"
  /\ _availability' = "DISCONNECTED"
  /\ call' = [call EXCEPT ![t] = "none"]
  /\ UNCHANGED <<sock, readerVars, refVars, connectq, awaited>>

OpenFails(t) ==
  /\ call[t] = "opening"
  /\ _availability' = "DISCONNECTED"
  /\ call' = [call EXCEPT ![t] = "none"]
  /\ connectq' = Tail(connectq)
  /\ UNCHANGED <<sock, readerVars, refVars, awaited>>

-----------------------------------------------------------------------------
(* disconnect()                                                             *)

\* close() and the wait for it, or no writer and the end at once.
CloseWriter(t) ==
  IF _writer # NoSocket
    THEN /\ sock' = [sock EXCEPT ![_writer] = IF @ \in {"open", "eof"} THEN "closing" ELSE @]
         /\ call' = [call EXCEPT ![t] = "closing"]
         /\ awaited' = [awaited EXCEPT ![t] = _writer]
         /\ _reader_task' = NoSocket
         /\ UNCHANGED <<_writer, _reader, _availability>>
    ELSE /\ call' = [call EXCEPT ![t] = "none"]
         /\ awaited' = [awaited EXCEPT ![t] = NoSocket]
         /\ _reader' = NoSocket /\ _reader_task' = NoSocket
         /\ _availability' = "DISCONNECTED"
         /\ UNCHANGED <<sock, _writer>>

disconnect(t) ==
  /\ IF _reader_task # NoSocket /\ reader[_reader_task] # "done"
       THEN /\ cancelled' = cancelled \cup {_reader_task}
            /\ call' = [call EXCEPT ![t] = "reader"]
            /\ awaited' = [awaited EXCEPT ![t] = _reader_task]
            /\ UNCHANGED <<sock, refVars, _availability>>
       ELSE CloseWriter(t) /\ UNCHANGED cancelled
  /\ UNCHANGED <<reader, reads, connectq>>

ReaderAwaited(t) ==
  /\ call[t] = "reader" /\ reader[awaited[t]] = "done"
  /\ CloseWriter(t)
  /\ UNCHANGED <<readerVars, connectq>>

\* Bug: what is new by then is left standing, but reported as connected.
WriterClosed_Silent(t) ==
  /\ call[t] = "closing" /\ sock[awaited[t]] = "lost"
  /\ call' = [call EXCEPT ![t] = "none"]
  /\ awaited' = [awaited EXCEPT ![t] = NoSocket]
  /\ _writer' = NoSocket /\ _reader' = NoSocket
  /\ UNCHANGED <<sock, readerVars, _reader_task, _availability, connectq>>

\* wait_closed() is over: the references are cleared, whatever they are by now.
WriterClosed(t) ==
  /\ call[t] = "closing" /\ sock[awaited[t]] = "lost"
  /\ call' = [call EXCEPT ![t] = "none"]
  /\ awaited' = [awaited EXCEPT ![t] = NoSocket]
  /\ _writer' = NoSocket /\ _reader' = NoSocket
  /\ _availability' = "DISCONNECTED"
  /\ UNCHANGED <<sock, readerVars, _reader_task, connectq>>

-----------------------------------------------------------------------------
(* _reader_loop()                                                           *)

ReaderEnds(r) ==
  /\ reader' = [reader EXCEPT ![r] = "done"]
  /\ reads' = [reads EXCEPT ![r] = NoSocket]
  /\ cancelled' = cancelled \ {r}

\* The loop comes back to self._reader, which is not always the stream it began
\* with; a stream that is gone, or that another task waits on, is an exception.
ReaderTurns(r) ==
  /\ reader[r] \in {"new", "deliver"} /\ r \notin cancelled
  /\ LET ok == _reader # NoSocket /\ \A q \in Ids : reads[q] # _reader
     IN  IF ok
           THEN /\ reader' = [reader EXCEPT ![r] = "wait"]
                /\ reads' = [reads EXCEPT ![r] = _reader]
                /\ UNCHANGED <<cancelled, _availability>>
           ELSE /\ ReaderEnds(r)
                /\ _availability' = IF reader[r] = "new" /\ _reader = NoSocket
                                      THEN _availability ELSE "DISCONNECTED"
  /\ UNCHANGED <<sock, refVars, connectq, call, awaited>>

\* A message for on_message(), which is awaited.
ReaderDelivers(r) ==
  /\ reader[r] = "wait" /\ sock[reads[r]] = "open"
  /\ reader' = [reader EXCEPT ![r] = "deliver"]
  /\ reads' = [reads EXCEPT ![r] = NoSocket]
  /\ UNCHANGED <<sock, cancelled, refVars, _availability, connectq, call, awaited>>

\* Bug: the end of the stream is not reported.
ReaderEof_Silent(r) ==
  /\ reader[r] = "wait" /\ sock[reads[r]] \in {"eof", "lost"}
  /\ ReaderEnds(r)
  /\ UNCHANGED <<sock, refVars, _availability, connectq, call, awaited>>

ReaderEof(r) ==
  /\ reader[r] = "wait" /\ sock[reads[r]] \in {"eof", "lost"}
  /\ ReaderEnds(r)
  /\ _availability' = "DISCONNECTED"
  /\ UNCHANGED <<sock, refVars, connectq, call, awaited>>

\* A task cancelled before its first step never reaches its `finally`.
ReaderCancelled(r) ==
  /\ r \in cancelled /\ reader[r] # "done"
  /\ ReaderEnds(r)
  /\ _availability' = IF reader[r] = "new" THEN _availability ELSE "DISCONNECTED"
  /\ UNCHANGED <<sock, refVars, connectq, call, awaited>>

-----------------------------------------------------------------------------
(* The network and the HC33: a FIN or the connection's loss at any time, and *)
(* for a socket that is being closed the loss in the end.                    *)

PeerCloses(s) ==
  /\ sock[s] = "open"
  /\ sock' = [sock EXCEPT ![s] = "eof"]
  /\ UNCHANGED <<readerVars, refVars, _availability, connectq, call, awaited>>

connection_lost(s) ==
  /\ sock[s] \in {"open", "eof", "closing"}
  /\ sock' = [sock EXCEPT ![s] = "lost"]
  /\ UNCHANGED <<readerVars, refVars, _availability, connectq, call, awaited>>

TransportStep(t) == LockGranted(t) \/ ReaderAwaited(t) \/ WriterClosed(t)
ReaderStep(r) ==
  ReaderTurns(r) \/ ReaderDelivers(r) \/ ReaderEof(r) \/ ReaderCancelled(r)
=============================================================================
