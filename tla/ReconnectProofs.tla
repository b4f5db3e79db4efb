--------------------------- MODULE ReconnectProofs ---------------------------
(***************************************************************************)
(* A mower's transport and the tasks that connect and disconnect it, for   *)
(* any number of sockets, attempts, reconnects and commands: who holds     *)
(* _connect_lock, what a caller awaits, that there is a writer behind      *)
(* every "connected", and one sequence of retries for as long as no task   *)
(* of another roster meddles with its flag.                                *)
(***************************************************************************)
EXTENDS Reconnect, SequenceTheorems, TLAPS

-----------------------------------------------------------------------------
(* The inductive invariant.                                                *)

\* The lock's queue holds each caller that is in connect(), once, and the one that
\* opens a connection is its head.
ConnectLock ==
  /\ \A i, j \in DOMAIN connectq : connectq[i] = connectq[j] => i = j
  /\ \A t \in Callers :
       call[t] \in {"lock", "opening"} <=> \E i \in DOMAIN connectq : connectq[i] = t
  /\ \A t \in Callers : call[t] = "opening" => connectq[1] = t

\* Two open_connection() never run at once.
OneOpens ==
  \A t, u \in Callers : call[t] = "opening" /\ call[u] = "opening" => t = u

\* connect() never opens a second connection over one that stands.
NeverOver == \A t \in Callers : call[t] = "opening" => ~is_connected

\* A disconnect() that awaits has a reader task or a writer to await.
Awaiting == \A t \in Callers : call[t] \in {"reader", "closing"} => awaited[t] \in Ids

TransportInv ==
  /\ TransportTypeOK
  /\ ConnectLock
  /\ NeverOver
  /\ Awaiting
  /\ ConnectedHasWriter

\* What a caller does and what its call of the transport does are in step.
InStep ==
  \A t \in Callers :
    /\ at[t] = "connecting" <=> call[t] \in {"lock", "opening"}
    /\ call[t] \in {"reader", "closing"} => at[t] = "disconnecting"

\* How far the roster is, and that nobody but the task that builds it runs before it
\* is registered.
Building ==
  /\ at[Teardown] \in {"begin", "connecting", "starting"} => watching = "not yet"
  /\ at[Teardown] = "disconnecting" => watching = "no"
  /\ at[Teardown] = "begin" =>
       _writer = NoSocket /\ \A t \in Callers \ {Teardown} : at[t] = "off"

\* While the watchdog looks at it, and unless it was cleared from outside,
\* auto_retrying is set for as long as a sequence has begun and is not over.
Retrying ==
  /\ watching = "not yet" => Running = {} /\ ~auto_retrying
  /\ watching = "yes" /\ ~cleared => (auto_retrying <=> \E r \in Running : at[r] # "begin")
  /\ \A r \in Retriers : at[r] = "sleep" => attempt[r] < Attempts
  /\ OneSequence

\* A command drains a socket that there is.
Draining == at[Command] = "sending" => drains \in Ids

ReconnectInv ==
  /\ TypeOK
  /\ TransportInv
  /\ InStep
  /\ Building
  /\ Retrying
  /\ Draining

-----------------------------------------------------------------------------
(* Sequences.                                                              *)

LEMMA RemoveHead ==
  ASSUME NEW S, NEW q \in Seq(S), NEW e, q # <<>>, q[1] = e
  PROVE  RemoveFirst(q, e) = Tail(q)
<1> DEFINE I == {i \in 1 .. Len(q) : q[i] = e}
<1>1. Len(q) \in Nat /\ Len(q) >= 1
  BY EmptySeq, LenProperties
<1>2. 1 \in I /\ \A i \in I : 1 <= i
  BY <1>1
<1>3. Min(I) = 1
  BY <1>2 DEF Min
<1>4. RemoveFirst(q, e) = RemoveAt(q, 1)
  BY <1>1, <1>2, <1>3 DEF RemoveFirst, SelectInSeq
<1>5. RemoveAt(q, 1) = SubSeq(q, 1, 0) \o SubSeq(q, 2, Len(q))
  BY DEF RemoveAt
<1>6. SubSeq(q, 1, 0) = <<>> /\ SubSeq(q, 2, Len(q)) = Tail(q)
  BY SubSeqEmpty, TailIsSubSeq
<1>7. Tail(q) \in Seq(S)
  BY HeadTailProperties
<1> QED
  BY <1>4, <1>5, <1>6, <1>7, ConcatEmptySeq

LEMMA RemoveNone == \A e : RemoveFirst(<<>>, e) = <<>>
BY DEF RemoveFirst

-----------------------------------------------------------------------------
(* The lock.                                                               *)

\* Its holder leaves it.
LEMMA Releases ==
  ASSUME TransportTypeOK, ConnectLock, NEW t \in Callers,
         connectq # <<>>, connectq[1] = t,
         call' = [call EXCEPT ![t] = "none"], connectq' = Tail(connectq)
  PROVE  connectq' \in Seq(Callers) /\ ConnectLock' /\ \A u \in Callers : call'[u] # "opening"
<1>1. /\ connectq \in Seq(Callers) /\ Len(connectq) \in Nat /\ Len(connectq) >= 1
      /\ DOMAIN connectq = 1 .. Len(connectq)
  BY EmptySeq, LenProperties DEF TransportTypeOK
<1>2. /\ connectq' \in Seq(Callers) /\ Len(connectq') = Len(connectq) - 1
      /\ \A i \in 1 .. Len(connectq') : connectq'[i] = connectq[i + 1]
  BY <1>1, HeadTailProperties
<1>3. DOMAIN connectq' = 1 .. Len(connectq) - 1
  BY <1>2, LenProperties
<1>4. call'[t] = "none" /\ \A u \in Callers \ {t} : call'[u] = call[u]
  BY DEF TransportTypeOK
<1>5. \A u \in Callers : call'[u] # "opening"
  BY <1>4 DEF ConnectLock
<1>6. ASSUME NEW i \in DOMAIN connectq', NEW j \in DOMAIN connectq', connectq'[i] = connectq'[j]
      PROVE  i = j
  <2>1. connectq[i + 1] = connectq[j + 1] /\ i + 1 \in DOMAIN connectq /\ j + 1 \in DOMAIN connectq
    BY <1>1, <1>2, <1>3, <1>6
  <2>2. i + 1 = j + 1
    BY <2>1 DEF ConnectLock
  <2> QED
    BY <1>3, <2>2
<1>7. ASSUME NEW u \in Callers
      PROVE  call'[u] \in {"lock", "opening"} <=> \E i \in DOMAIN connectq' : connectq'[i] = u
  <2>1. CASE u = t
    <3>1. ASSUME NEW i \in DOMAIN connectq', connectq'[i] = t PROVE FALSE
      <4>1. i + 1 \in DOMAIN connectq /\ connectq[i + 1] = t /\ 1 \in DOMAIN connectq /\ i + 1 # 1
        BY <1>1, <1>2, <1>3, <3>1
      <4> QED
        BY <4>1 DEF ConnectLock
    <3> QED
      BY <1>4, <2>1, <3>1
  <2>2. CASE u # t
    <3>1. ASSUME NEW i \in DOMAIN connectq, connectq[i] = u
          PROVE  \E j \in DOMAIN connectq' : connectq'[j] = u
      <4>1. i # 1 /\ i - 1 \in DOMAIN connectq'
        BY <1>1, <1>3, <2>2, <3>1
      <4>2. connectq'[i - 1] = u
        BY <1>1, <1>2, <1>3, <3>1, <4>1
      <4> QED
        BY <4>1, <4>2
    <3>2. ASSUME NEW j \in DOMAIN connectq', connectq'[j] = u
          PROVE  \E i \in DOMAIN connectq : connectq[i] = u
      BY <1>1, <1>2, <1>3, <3>2
    <3> QED
      BY <1>4, <2>2, <3>1, <3>2 DEF ConnectLock
  <2> QED
    BY <2>1, <2>2
<1> QED
  BY <1>2, <1>5, <1>6, <1>7 DEF ConnectLock

\* A caller joins it, at its end.
LEMMA Joins ==
  ASSUME TransportTypeOK, ConnectLock, NEW t \in Callers, call[t] \notin {"lock", "opening"},
         NEW c \in {"lock", "opening"}, c = "opening" => connectq = <<>>,
         call' = [call EXCEPT ![t] = c], connectq' = Append(connectq, t)
  PROVE  connectq' \in Seq(Callers) /\ ConnectLock'
<1>1. /\ connectq' \in Seq(Callers) /\ Len(connectq) \in Nat
      /\ Len(connectq') = Len(connectq) + 1
      /\ \A i \in 1 .. Len(connectq) : connectq'[i] = connectq[i] /\ connectq[i] \in Callers
      /\ connectq'[Len(connectq) + 1] = t
  BY AppendProperties, ElementOfSeq, LenProperties DEF TransportTypeOK
<1>2. DOMAIN connectq = 1 .. Len(connectq) /\ DOMAIN connectq' = 1 .. Len(connectq) + 1
  BY <1>1, LenProperties DEF TransportTypeOK
<1>3. \A i \in 1 .. Len(connectq) : connectq[i] # t
  BY <1>2 DEF ConnectLock
<1>4. call'[t] = c /\ \A u \in Callers \ {t} : call'[u] = call[u]
  BY DEF TransportTypeOK
<1>5. (\A i, j \in DOMAIN connectq : connectq[i] = connectq[j] => i = j)'
  BY <1>1, <1>2, <1>3 DEF ConnectLock
<1>6. ASSUME NEW u \in Callers
      PROVE  call'[u] \in {"lock", "opening"} <=> \E i \in DOMAIN connectq' : connectq'[i] = u
  <2>1. CASE u = t
    BY <1>1, <1>2, <1>4, <2>1
  <2>2. CASE u # t
    <3>1. call'[u] = call[u]
      BY <1>4, <2>2
    <3> QED
      BY <1>1, <1>2, <2>2, <3>1 DEF ConnectLock
  <2> QED
    BY <2>1, <2>2
<1>7. ASSUME NEW u \in Callers, call'[u] = "opening"
      PROVE  connectq'[1] = u
  <2>1. CASE u = t
    <3>1. connectq = <<>>
      BY <1>4, <1>7, <2>1
    <3> QED
      BY <1>1, <2>1, <3>1
  <2>2. CASE u # t
    <3>1. call[u] = "opening"
      BY <1>4, <1>7, <2>2
    <3>2. connectq[1] = u /\ 1 \in DOMAIN connectq
      BY <1>1, <1>2, <3>1 DEF ConnectLock
    <3> QED
      BY <1>1, <1>2, <3>2
  <2> QED
    BY <2>1, <2>2
<1> QED
  BY <1>1, <1>5, <1>6, <1>7 DEF ConnectLock

-----------------------------------------------------------------------------
(* The transport: one lemma per operation.                                 *)

\* Who is not t does not notice that t's call moves on to c.
MovesTo(t, c) == call' = [call EXCEPT ![t] = c]

LEMMA LockHeldStep ==
  ASSUME TransportInv, NEW t \in Callers, LockHeld(t),
         UNCHANGED <<sock, readerVars, refVars, awaited>>,
         \/ connectq = <<>> /\ call[t] = "none"
         \/ connectq # <<>> /\ connectq[1] = t /\ call[t] = "lock"
  PROVE  /\ TransportInv'
         /\ (MovesTo(t, "none") /\ is_connected) \/ MovesTo(t, "opening")
<1> USE DEF TransportInv, MovesTo
<1>1. /\ UNCHANGED <<sock, reader, reads, cancelled, _writer, _reader, _reader_task, awaited>>
      /\ is_connected' = is_connected
  BY DEF readerVars, refVars, is_connected
<1>2. CASE is_connected
  <2>1. MovesTo(t, "none") /\ connectq' = RemoveFirst(connectq, t) /\ _availability' = _availability
    BY <1>2 DEF LockHeld
  <2>2. CASE connectq = <<>> /\ call[t] = "none"
    <3>1. connectq' = connectq /\ call' = call
      BY <2>1, <2>2, RemoveNone DEF TransportTypeOK
    <3>2. TransportTypeOK' /\ ConnectLock'
      BY <1>1, <2>1, <3>1 DEF TransportTypeOK, ConnectLock
    <3>3. NeverOver' /\ Awaiting' /\ ConnectedHasWriter'
      BY <1>1, <2>1, <3>1 DEF NeverOver, Awaiting, ConnectedHasWriter
    <3> QED
      BY <1>2, <2>1, <3>2, <3>3
  <2>3. CASE connectq # <<>> /\ connectq[1] = t /\ call[t] = "lock"
    <3>1. connectq' = Tail(connectq)
      BY <2>1, <2>3, RemoveHead DEF TransportTypeOK
    <3>2. connectq' \in Seq(Callers) /\ ConnectLock' /\ \A u \in Callers : call'[u] # "opening"
      BY <2>1, <2>3, <3>1, Releases
    <3>3. TransportTypeOK'
      BY <1>1, <2>1, <3>2 DEF TransportTypeOK
    <3>4. NeverOver' /\ Awaiting' /\ ConnectedHasWriter'
      BY <1>1, <2>1, <3>2 DEF NeverOver, Awaiting, ConnectedHasWriter, TransportTypeOK
    <3> QED
      BY <1>2, <2>1, <3>2, <3>3, <3>4
  <2> QED
    BY <2>2, <2>3
<1>3. CASE ~is_connected
  <2>1. /\ MovesTo(t, "opening") /\ _availability' = "CONNECTING"
        /\ connectq' = IF Contains(connectq, t) THEN connectq ELSE Append(connectq, t)
    BY <1>3 DEF LockHeld
  <2>2. call' \in [Callers -> {"none", "reader", "closing", "lock", "opening"}]
        /\ call'[t] = "opening" /\ \A u \in Callers \ {t} : call'[u] = call[u]
    BY <2>1 DEF TransportTypeOK
  <2>3. connectq' \in Seq(Callers) /\ ConnectLock'
    <3>1. CASE connectq = <<>> /\ call[t] = "none"
      <4>1. connectq' = Append(connectq, t)
        BY <2>1, <3>1 DEF Contains
      <4> QED
        BY <2>1, <3>1, <4>1, Joins
    <3>2. CASE connectq # <<>> /\ connectq[1] = t /\ call[t] = "lock"
      <4>1. connectq \in Seq(Callers) /\ Len(connectq) >= 1 /\ DOMAIN connectq = 1 .. Len(connectq)
        BY <3>2, EmptySeq, LenProperties DEF TransportTypeOK
      <4>2. Contains(connectq, t)
        BY <3>2, <4>1 DEF Contains
      <4>3. connectq' = connectq
        BY <2>1, <4>2
      <4> QED
        BY <2>2, <3>2, <4>1, <4>3 DEF ConnectLock
    <3> QED
      BY <3>1, <3>2
  <2>4. TransportTypeOK'
    BY <1>1, <2>1, <2>2, <2>3 DEF TransportTypeOK
  <2>5. NeverOver' /\ Awaiting' /\ ConnectedHasWriter'
    BY <1>1, <1>3, <2>1, <2>2 DEF NeverOver, Awaiting, ConnectedHasWriter
  <2> QED
    BY <2>1, <2>3, <2>4, <2>5
<1> QED
  BY <1>2, <1>3

LEMMA ConnectStep ==
  ASSUME TransportInv, NEW t \in Callers, call[t] = "none", connect(t)
  PROVE  /\ TransportInv'
         /\ (MovesTo(t, "none") /\ is_connected) \/ MovesTo(t, "opening") \/ MovesTo(t, "lock")
         /\ _writer' = _writer
<1>1. UNCHANGED <<sock, readerVars, refVars, awaited>>
  BY DEF connect
<1>2. CASE connectq = <<>>
  BY <1>1, <1>2, LockHeldStep DEF connect, refVars
<1>3. CASE connectq # <<>>
  <2> USE DEF TransportInv, MovesTo
  <2>1. MovesTo(t, "lock") /\ connectq' = Append(connectq, t) /\ _availability' = _availability
    BY <1>3 DEF connect
  <2>2. connectq' \in Seq(Callers) /\ ConnectLock'
    BY <2>1, Joins
  <2>3. /\ UNCHANGED <<sock, reader, reads, cancelled, _writer, _reader, _reader_task, awaited>>
        /\ is_connected' = is_connected
    BY <1>1 DEF readerVars, refVars, is_connected
  <2>4. TransportTypeOK'
    BY <2>1, <2>2, <2>3 DEF TransportTypeOK
  <2>5. NeverOver' /\ Awaiting' /\ ConnectedHasWriter'
    BY <2>1, <2>3 DEF NeverOver, Awaiting, ConnectedHasWriter, TransportTypeOK
  <2> QED
    BY <2>1, <2>2, <2>3, <2>4, <2>5
<1> QED
  BY <1>2, <1>3

\* A caller that waits for the lock, or holds it, has somebody at the head.
LEMMA HeadOfQueue ==
  ASSUME TransportInv, NEW t \in Callers, call[t] \in {"lock", "opening"}
  PROVE  connectq # <<>> /\ connectq \in Seq(Callers) /\ Head(connectq) = connectq[1]
BY EmptySeq, LenProperties DEF TransportInv, TransportTypeOK, ConnectLock

LEMMA LockGrantedStep ==
  ASSUME TransportInv, NEW t \in Callers, LockGranted(t)
  PROVE  /\ TransportInv' /\ call[t] = "lock"
         /\ (MovesTo(t, "none") /\ is_connected) \/ MovesTo(t, "opening")
         /\ _writer' = _writer
<1>1. call[t] = "lock" /\ UNCHANGED <<sock, readerVars, refVars, awaited>> /\ LockHeld(t)
  BY DEF LockGranted
<1>2. connectq # <<>> /\ connectq[1] = t
  BY <1>1, HeadOfQueue DEF LockGranted
<1> QED
  BY <1>1, <1>2, LockHeldStep DEF refVars

LEMMA OpenedStep ==
  ASSUME TransportInv, NEW t \in Callers, Opened(t)
  PROVE  /\ TransportInv' /\ call[t] = "opening"
         /\ MovesTo(t, "none")
         /\ _writer' \in Ids
<1> USE DEF TransportInv, MovesTo
<1>1. connectq # <<>> /\ connectq[1] = t
  BY HeadOfQueue DEF Opened, ConnectLock
<1>2. /\ MovesTo(t, "none") /\ connectq' = Tail(connectq) /\ _availability' = "CONNECTED"
      /\ UNCHANGED <<reads, cancelled, awaited>>
  BY DEF Opened
<1>3. PICK s \in Ids :
        /\ sock' = [sock EXCEPT ![s] = "open"]
        /\ reader' = [reader EXCEPT ![s] = "new"]
        /\ _writer' = s /\ _reader' = s /\ _reader_task' = s
  BY DEF Opened
<1>4. connectq' \in Seq(Callers) /\ ConnectLock' /\ \A u \in Callers : call'[u] # "opening"
  BY <1>1, <1>2, Releases
<1>5. TransportTypeOK'
  BY <1>2, <1>3, <1>4 DEF TransportTypeOK
<1>6. s # NoSocket
  BY TransportAssumption DEF Ids, NoSocket
<1>7. NeverOver' /\ Awaiting' /\ ConnectedHasWriter'
  BY <1>2, <1>3, <1>4, <1>6 DEF NeverOver, Awaiting, ConnectedHasWriter, TransportTypeOK
<1> QED
  BY <1>2, <1>3, <1>4, <1>5, <1>7 DEF Opened

LEMMA OpenFailsStep ==
  ASSUME TransportInv, NEW t \in Callers, OpenFails(t)
  PROVE  /\ TransportInv' /\ call[t] = "opening"
         /\ MovesTo(t, "none")
         /\ _writer' = _writer
<1> USE DEF TransportInv, MovesTo
<1>1. connectq # <<>> /\ connectq[1] = t
  BY HeadOfQueue DEF OpenFails, ConnectLock
<1>2. /\ MovesTo(t, "none") /\ connectq' = Tail(connectq) /\ _availability' = "DISCONNECTED"
      /\ UNCHANGED <<sock, reader, reads, cancelled, _writer, _reader, _reader_task, awaited>>
  BY DEF OpenFails, readerVars, refVars
<1>3. connectq' \in Seq(Callers) /\ ConnectLock' /\ \A u \in Callers : call'[u] # "opening"
  BY <1>1, <1>2, Releases
<1>4. TransportTypeOK'
  BY <1>2, <1>3 DEF TransportTypeOK
<1>5. NeverOver' /\ Awaiting' /\ ConnectedHasWriter'
  BY <1>2, <1>3 DEF NeverOver, Awaiting, ConnectedHasWriter, TransportTypeOK
<1> QED
  BY <1>2, <1>3, <1>4, <1>5 DEF OpenFails

\* A caller's call moves between the states that are outside the lock.
LEMMA OutsideLock ==
  ASSUME TransportInv, NEW t \in Callers, call[t] \notin {"lock", "opening"},
         NEW c \in {"none", "reader", "closing"}, MovesTo(t, c), connectq' = connectq
  PROVE  /\ ConnectLock'
         /\ call' \in [Callers -> {"none", "reader", "closing", "lock", "opening"}]
         /\ call'[t] = c /\ \A u \in Callers \ {t} : call'[u] = call[u]
         /\ \A u \in Callers : call'[u] = "opening" <=> call[u] = "opening"
<1> USE DEF TransportInv, MovesTo
<1>1. /\ call' \in [Callers -> {"none", "reader", "closing", "lock", "opening"}]
      /\ call'[t] = c /\ \A u \in Callers \ {t} : call'[u] = call[u]
  BY DEF TransportTypeOK
<1>2. \A u \in Callers :
        /\ call'[u] \in {"lock", "opening"} <=> call[u] \in {"lock", "opening"}
        /\ call'[u] = "opening" <=> call[u] = "opening"
  BY <1>1
<1> QED
  BY <1>1, <1>2 DEF ConnectLock

LEMMA CloseWriterStep ==
  ASSUME TransportInv, NEW t \in Callers, call[t] \in {"none", "reader"}, CloseWriter(t),
         UNCHANGED <<reader, reads, connectq>>, cancelled' \subseteq Ids
  PROVE  /\ TransportInv'
         /\ MovesTo(t, "none") \/ MovesTo(t, "closing")
         /\ _writer' = _writer
<1> USE DEF TransportInv
<1>1. CASE _writer # NoSocket
  <2>1. /\ sock' = [sock EXCEPT ![_writer] = IF @ \in {"open", "eof"} THEN "closing" ELSE @]
        /\ MovesTo(t, "closing")
        /\ awaited' = [awaited EXCEPT ![t] = _writer]
        /\ _reader_task' = NoSocket
        /\ UNCHANGED <<_writer, _reader, _availability>>
    BY <1>1 DEF CloseWriter, MovesTo
  <2>2. _writer \in Ids
    BY <1>1 DEF TransportTypeOK
  <2>3. /\ ConnectLock'
        /\ call' \in [Callers -> {"none", "reader", "closing", "lock", "opening"}]
        /\ call'[t] = "closing" /\ \A u \in Callers \ {t} : call'[u] = call[u]
        /\ \A u \in Callers : call'[u] = "opening" <=> call[u] = "opening"
    BY <2>1, OutsideLock
  <2>4. sock' \in [Ids -> {"none", "open", "eof", "closing", "lost"}]
        /\ sock'[_writer] \notin {"open", "eof"}
    BY <2>1, <2>2 DEF TransportTypeOK
  <2>5. awaited' \in [Callers -> Ids \cup {NoSocket}] /\ awaited'[t] \in Ids
        /\ \A u \in Callers \ {t} : awaited'[u] = awaited[u]
    BY <2>1, <2>2 DEF TransportTypeOK
  <2>6. TransportTypeOK'
    BY <2>1, <2>3, <2>4, <2>5 DEF TransportTypeOK
  <2>7. NeverOver' /\ Awaiting' /\ ConnectedHasWriter'
    BY <2>1, <2>3, <2>4, <2>5 DEF NeverOver, Awaiting, ConnectedHasWriter, is_connected
  <2> QED
    BY <2>1, <2>3, <2>6, <2>7
<1>2. CASE _writer = NoSocket
  <2>1. /\ MovesTo(t, "none")
        /\ awaited' = [awaited EXCEPT ![t] = NoSocket]
        /\ _reader' = NoSocket /\ _reader_task' = NoSocket
        /\ _availability' = "DISCONNECTED"
        /\ UNCHANGED <<sock, _writer>>
    BY <1>2 DEF CloseWriter, MovesTo
  <2>3. /\ ConnectLock'
        /\ call' \in [Callers -> {"none", "reader", "closing", "lock", "opening"}]
        /\ call'[t] = "none" /\ \A u \in Callers \ {t} : call'[u] = call[u]
        /\ \A u \in Callers : call'[u] = "opening" <=> call[u] = "opening"
    BY <2>1, OutsideLock
  <2>4. TransportTypeOK'
    BY <2>1, <2>3 DEF TransportTypeOK
  <2>5. \A u \in Callers \ {t} : awaited'[u] = awaited[u]
    BY <2>1 DEF TransportTypeOK
  <2>6. NeverOver' /\ Awaiting' /\ ConnectedHasWriter'
    BY <1>2, <2>1, <2>3, <2>5 DEF NeverOver, Awaiting, ConnectedHasWriter, is_connected
  <2> QED
    BY <2>1, <2>3, <2>4, <2>6
<1> QED
  BY <1>1, <1>2

LEMMA DisconnectStep ==
  ASSUME TransportInv, NEW t \in Callers, call[t] = "none", disconnect(t)
  PROVE  /\ TransportInv'
         /\ MovesTo(t, "none") \/ MovesTo(t, "reader") \/ MovesTo(t, "closing")
         /\ _writer' = _writer
<1>1. CASE _reader_task # NoSocket /\ reader[_reader_task] # "done"
  <2> USE DEF TransportInv
  <2>1. /\ cancelled' = cancelled \cup {_reader_task}
        /\ MovesTo(t, "reader")
        /\ awaited' = [awaited EXCEPT ![t] = _reader_task]
        /\ UNCHANGED <<sock, _writer, _reader, _reader_task, _availability, reader, reads, connectq>>
    BY <1>1 DEF disconnect, MovesTo, refVars
  <2>2. _reader_task \in Ids
    BY <1>1 DEF TransportTypeOK
  <2>3. /\ ConnectLock'
        /\ call' \in [Callers -> {"none", "reader", "closing", "lock", "opening"}]
        /\ call'[t] = "reader" /\ \A u \in Callers \ {t} : call'[u] = call[u]
        /\ \A u \in Callers : call'[u] = "opening" <=> call[u] = "opening"
    BY <2>1, OutsideLock
  <2>4. awaited' \in [Callers -> Ids \cup {NoSocket}] /\ awaited'[t] \in Ids
        /\ \A u \in Callers \ {t} : awaited'[u] = awaited[u]
    BY <2>1, <2>2 DEF TransportTypeOK
  <2>5. TransportTypeOK'
    BY <2>1, <2>2, <2>3, <2>4 DEF TransportTypeOK
  <2>6. NeverOver' /\ Awaiting' /\ ConnectedHasWriter'
    BY <2>1, <2>3, <2>4 DEF NeverOver, Awaiting, ConnectedHasWriter, is_connected
  <2> QED
    BY <2>1, <2>3, <2>5, <2>6
<1>2. CASE ~(_reader_task # NoSocket /\ reader[_reader_task] # "done")
  <2>1. CloseWriter(t) /\ cancelled' = cancelled /\ UNCHANGED <<reader, reads, connectq>>
    BY <1>2 DEF disconnect
  <2>2. cancelled' \subseteq Ids
    BY <2>1 DEF TransportInv, TransportTypeOK
  <2> QED
    BY <2>1, <2>2, CloseWriterStep
<1> QED
  BY <1>1, <1>2

LEMMA ReaderAwaitedStep ==
  ASSUME TransportInv, NEW t \in Callers, ReaderAwaited(t)
  PROVE  /\ TransportInv' /\ call[t] = "reader"
         /\ MovesTo(t, "none") \/ MovesTo(t, "closing")
         /\ _writer' = _writer
<1>1. /\ call[t] = "reader" /\ CloseWriter(t)
      /\ UNCHANGED <<reader, reads, connectq>> /\ cancelled' = cancelled
  BY DEF ReaderAwaited, readerVars
<1>2. cancelled' \subseteq Ids
  BY <1>1 DEF TransportInv, TransportTypeOK
<1> QED
  BY <1>1, <1>2, CloseWriterStep

LEMMA WriterClosedStep ==
  ASSUME TransportInv, NEW t \in Callers, WriterClosed(t)
  PROVE  /\ TransportInv' /\ call[t] = "closing"
         /\ MovesTo(t, "none")
         /\ _writer' = NoSocket
<1> USE DEF TransportInv
<1>1. /\ call[t] = "closing" /\ MovesTo(t, "none")
      /\ awaited' = [awaited EXCEPT ![t] = NoSocket]
      /\ _writer' = NoSocket /\ _reader' = NoSocket
      /\ _availability' = "DISCONNECTED"
      /\ UNCHANGED <<sock, reader, reads, cancelled, _reader_task, connectq>>
  BY DEF WriterClosed, MovesTo, readerVars
<1>2. /\ ConnectLock'
      /\ call' \in [Callers -> {"none", "reader", "closing", "lock", "opening"}]
      /\ call'[t] = "none" /\ \A u \in Callers \ {t} : call'[u] = call[u]
      /\ \A u \in Callers : call'[u] = "opening" <=> call[u] = "opening"
  BY <1>1, OutsideLock
<1>3. TransportTypeOK'
  BY <1>1, <1>2 DEF TransportTypeOK
<1>4. \A u \in Callers \ {t} : awaited'[u] = awaited[u]
  BY <1>1 DEF TransportTypeOK
<1>5. NeverOver' /\ Awaiting' /\ ConnectedHasWriter'
  BY <1>1, <1>2, <1>4 DEF NeverOver, Awaiting, ConnectedHasWriter, is_connected
<1> QED
  BY <1>1, <1>2, <1>3, <1>5

LEMMA ReaderStepKeeps ==
  ASSUME TransportInv, NEW r \in Ids, ReaderStep(r)
  PROVE  TransportInv' /\ UNCHANGED <<call, _writer, sock>>
<1> USE DEF TransportInv
<1>1. UNCHANGED <<sock, _writer, _reader, _reader_task, connectq, call, awaited>>
  BY DEF ReaderStep, ReaderTurns, ReaderDelivers, ReaderEof, ReaderCancelled, refVars
<1>2. _availability' \in {_availability, "DISCONNECTED"}
  BY DEF ReaderStep, ReaderTurns, ReaderDelivers, ReaderEof, ReaderCancelled
<1>3. /\ reader' \in [Ids -> {"none", "new", "wait", "deliver", "done"}]
      /\ reads' \in [Ids -> Ids \cup {NoSocket}] /\ cancelled' \subseteq Ids
  <2>1. ReaderEnds(r) =>
          /\ reader' \in [Ids -> {"none", "new", "wait", "deliver", "done"}]
          /\ reads' \in [Ids -> Ids \cup {NoSocket}] /\ cancelled' \subseteq Ids
    BY DEF ReaderEnds, TransportTypeOK
  <2>2. CASE ReaderTurns(r)
    <3>1. \/ /\ reader' = [reader EXCEPT ![r] = "wait"]
             /\ reads' = [reads EXCEPT ![r] = _reader]
             /\ cancelled' = cancelled
          \/ ReaderEnds(r)
      BY <2>2 DEF ReaderTurns
    <3> QED
      BY <2>1, <3>1 DEF TransportTypeOK
  <2>3. CASE ReaderDelivers(r)
    BY <2>3 DEF ReaderDelivers, TransportTypeOK
  <2> QED
    BY <2>1, <2>2, <2>3 DEF ReaderStep, ReaderEof, ReaderCancelled
<1>4. TransportTypeOK'
  BY <1>1, <1>2, <1>3 DEF TransportTypeOK
<1>5. ConnectLock' /\ NeverOver' /\ Awaiting' /\ ConnectedHasWriter'
  BY <1>1, <1>2 DEF ConnectLock, NeverOver, Awaiting, ConnectedHasWriter, is_connected
<1> QED
  BY <1>1, <1>4, <1>5

LEMMA NetworkStepKeeps ==
  ASSUME TransportInv, NEW s \in Ids, PeerCloses(s) \/ connection_lost(s)
  PROVE  TransportInv' /\ UNCHANGED <<call, _writer>>
<1> USE DEF TransportInv
<1>1. UNCHANGED <<reader, reads, cancelled, _writer, _reader, _reader_task, _availability,
                  connectq, call, awaited>>
  BY DEF PeerCloses, connection_lost, readerVars, refVars
<1>2. /\ sock' \in [Ids -> {"none", "open", "eof", "closing", "lost"}]
      /\ \A q \in Ids : sock'[q] \in {"open", "eof"} => sock[q] \in {"open", "eof"}
  BY DEF PeerCloses, connection_lost, TransportTypeOK
<1>3. is_connected' => is_connected
  BY <1>1, <1>2 DEF is_connected, TransportTypeOK
<1>4. TransportTypeOK'
  BY <1>1, <1>2 DEF TransportTypeOK
<1>5. ConnectLock' /\ NeverOver' /\ Awaiting' /\ ConnectedHasWriter'
  BY <1>1, <1>3 DEF ConnectLock, NeverOver, Awaiting, ConnectedHasWriter
<1> QED
  BY <1>1, <1>4, <1>5

LEMMA TransportStays ==
  ASSUME TransportInv, UNCHANGED transportVars
  PROVE  TransportInv'
BY DEF TransportInv, TransportTypeOK, ConnectLock, NeverOver, Awaiting, ConnectedHasWriter,
   is_connected, transportVars, readerVars, refVars

-----------------------------------------------------------------------------
(* The tasks.                                                              *)

LEMMA Distinct ==
  /\ \A r \in Retriers : r \in Callers /\ r \notin {Manual, Command, Teardown}
  /\ Manual \in Callers /\ Command \in Callers /\ Teardown \in Callers
  /\ Manual \notin Retriers /\ Command \notin Retriers /\ Teardown \notin Retriers
  /\ Manual # Command /\ Manual # Teardown /\ Command # Teardown
BY ReconnectAssumption

States == {"off", "begin", "sleep", "disconnecting", "connecting", "starting", "sending"}
Calls == {"none", "reader", "closing", "lock", "opening"}

\* t goes to `where` and its call to c.
Moves(t, where, c) == Goes(t, where) /\ MovesTo(t, c)

\* What the two functions then are.
LEMMA MovesShape ==
  ASSUME TypeOK, NEW t \in Callers, NEW where \in States, NEW c \in Calls, Moves(t, where, c)
  PROVE  /\ at' \in [Callers -> States] /\ at'[t] = where
         /\ call'[t] = c
         /\ \A u \in Callers \ {t} : at'[u] = at[u] /\ call'[u] = call[u]
BY DEF TypeOK, TransportTypeOK, Moves, Goes, MovesTo, States, Calls

\* The caller and its call stay in step when they move together.
LEMMA InStepMoves ==
  ASSUME TypeOK, InStep, NEW t \in Callers, NEW where \in States, NEW c \in Calls,
         Moves(t, where, c),
         where = "connecting" <=> c \in {"lock", "opening"},
         c \in {"reader", "closing"} => where = "disconnecting"
  PROVE  InStep'
<1>1. /\ at'[t] = where /\ call'[t] = c
      /\ \A u \in Callers \ {t} : at'[u] = at[u] /\ call'[u] = call[u]
  BY MovesShape
<1>2. ASSUME NEW u \in Callers
      PROVE  /\ at'[u] = "connecting" <=> call'[u] \in {"lock", "opening"}
             /\ call'[u] \in {"reader", "closing"} => at'[u] = "disconnecting"
  <2>1. CASE u = t
    BY <1>1, <2>1
  <2>2. CASE u # t
    BY <1>1, <2>2 DEF InStep
  <2> QED
    BY <2>1, <2>2
<1> QED
  BY <1>2 DEF InStep

\* The call of a caller that is not in the transport.
LEMMA CallOf ==
  ASSUME TypeOK, InStep, NEW t \in Callers, at[t] \notin {"connecting", "disconnecting"}
  PROVE  call[t] = "none"
BY DEF InStep, TypeOK, TransportTypeOK

LEMMA ReturnsOkStep ==
  ASSUME ReconnectInv, NEW t \in Callers, ReturnsOk(t)
  PROVE  TransportInv' /\ MovesTo(t, "none") /\ _writer' \in Ids
<1>1. TransportInv
  BY DEF ReconnectInv
<1>2. CASE Opened(t)
  BY <1>1, <1>2, OpenedStep
<1>3. CASE LockGranted(t) /\ call'[t] = "none"
  <2>1. /\ TransportInv' /\ _writer' = _writer
        /\ (MovesTo(t, "none") /\ is_connected) \/ MovesTo(t, "opening")
    BY <1>1, <1>3, LockGrantedStep
  <2>2. ~MovesTo(t, "opening")
    BY <1>1, <1>3 DEF MovesTo, TransportInv, TransportTypeOK
  <2>3. is_connected => _writer \in Ids
    BY <1>1 DEF is_connected, TransportInv, TransportTypeOK
  <2> QED
    BY <2>1, <2>2, <2>3
<1> QED
  BY <1>2, <1>3 DEF ReturnsOk

\* Nothing that the retry sequences go by has changed.
LEMMA RetryingStays ==
  ASSUME Retrying, \A r \in Retriers : at'[r] = at[r],
         UNCHANGED <<attempt, auto_retrying, watching, cleared>>
  PROVE  Retrying'
<1>1. Running' = Running /\ \A r \in Running : r \in Retriers /\ at'[r] = at[r]
  BY DEF Running
<1>2. OneSequence'
  BY <1>1 DEF Retrying, OneSequence, AtMostOne
<1> QED
  BY <1>1, <1>2 DEF Retrying

\* A retry sequence is under way before and after.
LEMMA RetryGoesOn ==
  ASSUME TypeOK, Retrying, NEW r \in Retriers, at[r] \notin {"off", "begin"},
         NEW where \in States \ {"off", "begin"}, NEW c \in Calls, Moves(r, where, c),
         where = "sleep" => attempt'[r] < Attempts,
         \A q \in Retriers \ {r} : attempt'[q] = attempt[q],
         UNCHANGED <<auto_retrying, watching, cleared>>
  PROVE  Retrying'
<1>1. at'[r] = where /\ \A q \in Retriers \ {r} : at'[q] = at[q]
  BY MovesShape, Distinct
<1>2. Running' = Running /\ r \in Running
  BY <1>1 DEF Running
<1>3. OneSequence'
  BY <1>2 DEF Retrying, OneSequence, AtMostOne
<1>4. (\E q \in Running : at[q] # "begin") /\ (\E q \in Running' : at'[q] # "begin")
  BY <1>1, <1>2
<1>5. watching # "not yet"
  BY <1>2 DEF Retrying
<1>6. \A q \in Retriers : at'[q] = "sleep" => attempt'[q] < Attempts
  BY <1>1 DEF Retrying
<1> QED
  BY <1>2, <1>3, <1>4, <1>5, <1>6 DEF Retrying

\* A retry sequence is over.
LEMMA RetryIsOver ==
  ASSUME TypeOK, Retrying, NEW r \in Retriers, at[r] \notin {"off", "begin"}, AutoEnds(r),
         MovesTo(r, "none"), UNCHANGED <<attempt, watching>>
  PROVE  Retrying'
<1>1. at'[r] = "off" /\ \A q \in Retriers \ {r} : at'[q] = at[q]
  BY MovesShape, Distinct DEF AutoEnds, Moves, States, Calls
<1>2. Running' = Running \ {r} /\ r \in Running
  BY <1>1 DEF Running
<1>3. ~auto_retrying' /\ (cleared' <=> cleared /\ Running # {r})
  BY DEF AutoEnds
<1>4. ~cleared' => Running' = {}
  <2>1. CASE ~cleared
    <3>1. \A q \in Running : q = r
      BY <1>2, <2>1 DEF Retrying, OneSequence, AtMostOne
    <3> QED
      BY <1>2, <3>1
  <2>2. CASE Running = {r}
    BY <1>2, <2>2
  <2> QED
    BY <1>3, <2>1, <2>2
<1>5. OneSequence'
  BY <1>4 DEF OneSequence, AtMostOne
<1>6. watching # "not yet"
  BY <1>2 DEF Retrying
<1>7. \A q \in Retriers : at'[q] = "sleep" => attempt'[q] < Attempts
  BY <1>1 DEF Retrying
<1> QED
  BY <1>3, <1>4, <1>5, <1>6, <1>7 DEF Retrying

\* The step of a caller other than the teardown: what is left to see to is what it
\* does with its own flags.
LEMMA CallerMoved ==
  ASSUME ReconnectInv, TransportInv', NEW t \in Callers \ {Teardown}, NEW where \in States,
         NEW c \in Calls, Moves(t, where, c),
         where = "connecting" <=> c \in {"lock", "opening"},
         c \in {"reader", "closing"} => where = "disconnecting",
         at[Teardown] # "begin", UNCHANGED <<watchVars, survivors>>, cleared' \in BOOLEAN,
         attempt' \in [Retriers -> 0 .. Attempts],
         auto_retrying' \in BOOLEAN, auto_gave_up' \in BOOLEAN,
         manual_op' \in BOOLEAN, manuals' \in 0 .. MaxManual, commands' \in 0 .. MaxCommands,
         drains' \in Ids \cup {NoSocket},
         t = Command => (where = "sending" => drains' \in Ids),
         t # Command => drains' = drains,
         Retrying'
  PROVE  ReconnectInv'
<1> USE DEF ReconnectInv
<1>1. /\ at' \in [Callers -> States] /\ at'[t] = where
      /\ call'[t] = c
      /\ \A u \in Callers \ {t} : at'[u] = at[u] /\ call'[u] = call[u]
  BY MovesShape
<1>2. InStep'
  BY InStepMoves
<1>3. TypeOK'
  BY <1>1 DEF TypeOK, TransportInv, States, watchVars
<1>4. Building'
  BY <1>1, Distinct DEF Building, watchVars
<1>5. Draining'
  BY <1>1, Distinct DEF Draining
<1> QED
  BY <1>2, <1>3, <1>4, <1>5

\* The roster is registered before any of the others runs.
LEMMA Begun ==
  ASSUME ReconnectInv, NEW t \in Callers \ {Teardown}, at[t] # "off"
  PROVE  at[Teardown] # "begin"
BY DEF ReconnectInv, Building

LEMMA InTransportStep ==
  ASSUME ReconnectInv, NEW t \in Callers, InTransport(t)
  PROVE  ReconnectInv'
<1> USE DEF ReconnectInv
<1>1. /\ TransportInv' /\ call[t] # "none"
      /\ \E c \in Calls : MovesTo(t, c) /\ (at[t] = "connecting" <=> c \in {"lock", "opening"})
                                        /\ (c \in {"reader", "closing"} => at[t] = "disconnecting")
      /\ _writer' \in {_writer, NoSocket}
  <2>1. CASE LockGranted(t)
    <3>1. /\ TransportInv' /\ call[t] = "lock" /\ _writer' = _writer
          /\ MovesTo(t, "none") \/ MovesTo(t, "opening")
      BY <2>1, LockGrantedStep
    <3>2. ~MovesTo(t, "none")
      BY <3>1 DEF InTransport, MovesTo, TypeOK, TransportTypeOK
    <3> QED
      BY <3>1, <3>2 DEF InStep, Calls
  <2>2. CASE ReaderAwaited(t)
    <3>1. /\ TransportInv' /\ call[t] = "reader" /\ _writer' = _writer
          /\ MovesTo(t, "none") \/ MovesTo(t, "closing")
      BY <2>2, ReaderAwaitedStep
    <3> QED
      BY <3>1 DEF InStep, Calls
  <2>3. CASE WriterClosed(t)
    <3>1. /\ TransportInv' /\ call[t] = "closing" /\ _writer' = NoSocket
          /\ MovesTo(t, "none")
      BY <2>3, WriterClosedStep
    <3> QED
      BY <3>1 DEF InStep, Calls
  <2> QED
    BY <2>1, <2>2, <2>3 DEF InTransport, TransportStep
<1>2. PICK c \in Calls : /\ MovesTo(t, c) /\ (at[t] = "connecting" <=> c \in {"lock", "opening"})
                         /\ (c \in {"reader", "closing"} => at[t] = "disconnecting")
  BY <1>1
<1>3. /\ at' = at /\ UNCHANGED <<attempt, auto_retrying, auto_gave_up, manual_op, last, watching,
                                 survivors, cleared, manuals, commands, drains>>
  BY DEF InTransport, appVars
<1>4. Moves(t, at[t], c) /\ at[t] \in States
  BY <1>2, <1>3 DEF Moves, Goes, TypeOK, States
<1>5. InStep'
  BY <1>2, <1>4, InStepMoves
<1>6. TypeOK'
  BY <1>1, <1>3 DEF TypeOK, TransportInv
<1>7. Building' /\ Draining'
  BY <1>1, <1>3 DEF Building, Draining
<1>8. Retrying'
  BY <1>3, RetryingStays
<1> QED
  BY <1>1, <1>5, <1>6, <1>7, <1>8

LEMMA AutoStep ==
  ASSUME ReconnectInv, NEW r \in Retriers, AutoTask(r)
  PROVE  ReconnectInv'
<1> USE DEF ReconnectInv
<1>1. /\ r \in Callers \ {Teardown} /\ r # Command
      /\ attempt \in [Retriers -> 0 .. Attempts] /\ auto_retrying \in BOOLEAN
      /\ auto_gave_up \in BOOLEAN /\ manual_op \in BOOLEAN /\ cleared \in BOOLEAN
      /\ manuals \in 0 .. MaxManual /\ commands \in 0 .. MaxCommands
      /\ drains \in Ids \cup {NoSocket} /\ Attempts \in Nat \ {0}
  BY Distinct, ReconnectAssumption DEF TypeOK
<1> USE DEF flagVars, beforeVars, countVars, States, Calls
<1>2. ASSUME at[r] # "off" PROVE at[Teardown] # "begin"
  BY <1>1, <1>2, Begun
<1>3. call[r] = "none" /\ transportVars' = transportVars => MovesTo(r, "none") /\ TransportInv'
  BY <1>1, TransportStays DEF transportVars, MovesTo, TypeOK, TransportTypeOK
<1>4. CASE AutoBegins(r)
  <2>1. call[r] = "none" /\ at[r] = "begin"
    BY <1>1, <1>4, CallOf DEF AutoBegins
  <2>2. /\ Moves(r, "sleep", "none") /\ TransportInv'
        /\ attempt' = [attempt EXCEPT ![r] = 0]
        /\ UNCHANGED <<manual_op, watchVars, beforeVars, countVars>>
    BY <1>3, <1>4, <2>1 DEF AutoBegins, Moves
  <2>3. auto_retrying' \in BOOLEAN /\ auto_gave_up' \in BOOLEAN /\ auto_retrying'
    BY <1>4, Zenon DEF AutoBegins
  <2>4. /\ attempt' \in [Retriers -> 0 .. Attempts] /\ attempt'[r] = 0 /\ 0 < Attempts
        /\ \A q \in Retriers \ {r} : attempt'[q] = attempt[q]
    BY <1>1, <2>2
  <2>5. at'[r] = "sleep" /\ \A q \in Retriers \ {r} : at'[q] = at[q]
    BY <1>1, <2>2, MovesShape, Distinct
  <2>6. Running' = Running /\ r \in Running
    BY <2>1, <2>5 DEF Running
  <2>7. OneSequence' /\ watching # "not yet" /\ watching' = watching
    BY <2>2, <2>6 DEF Retrying, OneSequence, AtMostOne, watchVars
  <2>8. \E q \in Running' : at'[q] # "begin"
    BY <2>5, <2>6
  <2>9. \A q \in Retriers : at'[q] = "sleep" => attempt'[q] < Attempts
    BY <2>4, <2>5 DEF Retrying
  <2>10. Retrying'
    BY <2>3, <2>7, <2>8, <2>9 DEF Retrying
  <2> QED
    BY <1>1, <1>2, <2>1, <2>2, <2>3, <2>4, <2>10, CallerMoved
<1>5. CASE AutoAttempts(r)
  <2>1. call[r] = "none" /\ at[r] = "sleep"
    BY <1>1, <1>5, CallOf DEF AutoAttempts
  <2>2. TransportInv' /\ \E c \in {"none", "reader", "closing"} : MovesTo(r, c)
    BY <1>1, <1>5, <2>1, DisconnectStep DEF AutoAttempts
  <2>3. PICK c \in {"none", "reader", "closing"} : MovesTo(r, c)
    BY <2>2
  <2>4. /\ Moves(r, "disconnecting", c)
        /\ UNCHANGED <<flagVars, watchVars, beforeVars, countVars>>
    BY <1>5, <2>3 DEF AutoAttempts, Moves
  <2>5. attempt[r] \in 0 .. Attempts /\ attempt[r] < Attempts /\ Attempts \in Nat
    <3>1. attempt[r] \in 0 .. Attempts
      BY <1>1
    <3>2. attempt[r] < Attempts
      BY <2>1 DEF Retrying
    <3> QED
      BY <3>1, <3>2, ReconnectAssumption
  <2>6. /\ attempt' \in [Retriers -> 0 .. Attempts]
        /\ \A q \in Retriers \ {r} : attempt'[q] = attempt[q]
    BY <1>1, <1>5, <2>5 DEF AutoAttempts
  <2>7. Retrying'
    BY <2>1, <2>4, <2>6, RetryGoesOn DEF watchVars
  <2> QED
    BY <1>1, <1>2, <2>1, <2>2, <2>4, <2>6, <2>7, CallerMoved
<1>6. CASE AutoConnects(r)
  <2>1. call[r] = "none" /\ at[r] = "disconnecting"
    BY <1>6 DEF AutoConnects, Back
  <2>2. /\ TransportInv'
        /\ \E c \in {"none", "opening", "lock"} : MovesTo(r, c)
    BY <1>1, <1>6, <2>1, ConnectStep DEF AutoConnects
  <2>3. PICK c \in {"none", "opening", "lock"} : MovesTo(r, c)
    BY <2>2
  <2>4. call'[r] = c
    BY <1>1, <2>3 DEF MovesTo, TypeOK, TransportTypeOK
  <2> DEFINE where == IF c = "none" THEN "starting" ELSE "connecting"
  <2>5. /\ Moves(r, where, c)
        /\ UNCHANGED <<attempt, flagVars, watchVars, beforeVars, countVars>>
    BY <1>6, <2>3, <2>4 DEF AutoConnects, Moves
  <2>6. Retrying'
    BY <2>1, <2>5, RetryGoesOn DEF watchVars
  <2> QED
    BY <1>1, <1>2, <2>1, <2>2, <2>5, <2>6, CallerMoved
<1>7. CASE AutoConnected(r)
  <2>1. TransportInv' /\ Moves(r, "starting", "none") /\ at[r] = "connecting"
    BY <1>1, <1>7, ReturnsOkStep DEF AutoConnected, Moves
  <2>2. UNCHANGED <<attempt, flagVars, watchVars, beforeVars, countVars>>
    BY <1>7 DEF AutoConnected
  <2>3. Retrying'
    BY <2>1, <2>2, RetryGoesOn DEF watchVars
  <2> QED
    BY <1>1, <1>2, <2>1, <2>2, <2>3, CallerMoved
<1>8. CASE AutoSucceeds(r)
  <2>1. call[r] = "none" /\ at[r] = "starting"
    BY <1>1, <1>8, CallOf DEF AutoSucceeds
  <2>2. /\ Moves(r, "off", "none") /\ TransportInv' /\ MovesTo(r, "none") /\ AutoEnds(r)
        /\ UNCHANGED <<attempt, auto_gave_up, manual_op, watchVars, survivors, countVars>>
    BY <1>3, <1>8, <2>1 DEF AutoSucceeds, AutoEnds, Moves
  <2>3. Retrying'
    BY <2>1, <2>2, RetryIsOver DEF watchVars
  <2>4. auto_retrying' \in BOOLEAN /\ cleared' \in BOOLEAN
    BY <2>2, Zenon DEF AutoEnds
  <2> QED
    BY <1>1, <1>2, <2>1, <2>2, <2>3, <2>4, CallerMoved
<1>9. CASE AutoFails(r)
  <2>1. TransportInv' /\ MovesTo(r, "none") /\ at[r] \in {"connecting", "starting"}
    <3>1. CASE at[r] = "connecting" /\ OpenFails(r)
      BY <1>1, <3>1, OpenFailsStep
    <3>2. CASE at[r] = "starting" /\ UNCHANGED transportVars
      BY <1>1, <1>3, <3>2, CallOf
    <3> QED
      BY <1>9, <3>1, <3>2 DEF AutoFails
  <2>2. UNCHANGED <<attempt, manual_op, watchVars, survivors, countVars>>
    BY <1>9 DEF AutoFails
  <2>3. CASE /\ attempt[r] < Attempts /\ Goes(r, "sleep")
             /\ UNCHANGED <<auto_retrying, auto_gave_up, cleared>>
    <3>1. Moves(r, "sleep", "none") /\ attempt'[r] < Attempts
      BY <2>1, <2>2, <2>3 DEF Moves
    <3>2. Retrying'
      BY <2>1, <2>2, <2>3, <3>1, RetryGoesOn DEF watchVars
    <3> QED
      BY <1>1, <1>2, <2>1, <2>2, <2>3, <3>1, <3>2, CallerMoved
  <2>4. CASE AutoEnds(r) /\ auto_gave_up' = TRUE
    <3>1. Moves(r, "off", "none")
      BY <2>1, <2>4 DEF AutoEnds, Moves
    <3>2. Retrying'
      BY <2>1, <2>2, <2>4, RetryIsOver DEF watchVars
    <3>3. auto_retrying' \in BOOLEAN /\ cleared' \in BOOLEAN /\ auto_gave_up' \in BOOLEAN
      BY <2>4, Zenon DEF AutoEnds
    <3> QED
      BY <1>1, <1>2, <2>1, <2>2, <3>1, <3>2, <3>3, CallerMoved
  <2> QED
    BY <1>9, <2>3, <2>4 DEF AutoFails
<1>10. CASE InTransport(r)
  BY <1>1, <1>10, InTransportStep
<1> QED
  BY <1>4, <1>5, <1>6, <1>7, <1>8, <1>9, <1>10 DEF AutoTask

LEMMA ManualStep ==
  ASSUME ReconnectInv, reconnect \/ ManualTask
  PROVE  ReconnectInv'
<1> USE DEF ReconnectInv
<1>1. /\ Manual \in Callers \ {Teardown} /\ Manual # Command /\ cleared \in BOOLEAN
      /\ attempt \in [Retriers -> 0 .. Attempts] /\ auto_retrying \in BOOLEAN /\ auto_gave_up \in BOOLEAN
      /\ manual_op \in BOOLEAN /\ manuals \in 0 .. MaxManual /\ commands \in 0 .. MaxCommands
      /\ drains \in Ids \cup {NoSocket} /\ MaxManual \in Nat
  BY Distinct, ReconnectAssumption DEF TypeOK
<1>0. ASSUME NEW t \in {Manual, Command}, NEW where \in States, NEW c \in Calls,
             Moves(t, where, c), UNCHANGED <<attempt, auto_retrying, watchVars, beforeVars>>
      PROVE  Retrying'
  <2>1. \A r \in Retriers : at'[r] = at[r]
    BY <1>0, MovesShape, Distinct
  <2> QED
    BY <1>0, <2>1, RetryingStays DEF watchVars, beforeVars
<1> USE DEF flagVars, beforeVars, countVars, States, Calls
<1>2. at[Manual] # "off" => at[Teardown] # "begin"
  BY <1>1, Begun
<1>3. CASE reconnect
  <2>1. call[Manual] = "none"
    BY <1>1, <1>3, CallOf DEF reconnect
  <2>2. TransportInv' /\ \E c \in {"none", "reader", "closing"} : MovesTo(Manual, c)
    BY <1>1, <1>3, <2>1, DisconnectStep DEF reconnect
  <2>3. PICK c \in {"none", "reader", "closing"} : MovesTo(Manual, c)
    BY <2>2
  <2>4. /\ Moves(Manual, "disconnecting", c) /\ manuals' = manuals + 1 /\ manuals < MaxManual
        /\ manual_op' = TRUE /\ at[Teardown] # "begin"
        /\ UNCHANGED <<attempt, auto_retrying, auto_gave_up, watchVars, beforeVars, commands, drains>>
    BY <1>3, <2>3 DEF reconnect, Registered, Moves
  <2>5. manuals' \in 0 .. MaxManual /\ manual_op' \in BOOLEAN
    BY <1>1, <2>4
  <2> QED
    BY <1>1, <2>2, <2>4, <2>5, <1>0, CallerMoved
<1>4. CASE ManualConnects
  <2>1. call[Manual] = "none" /\ at[Manual] = "disconnecting"
    BY <1>4 DEF ManualConnects, Back
  <2>2. /\ TransportInv'
        /\ \E c \in {"none", "opening", "lock"} : MovesTo(Manual, c)
    BY <1>1, <1>4, <2>1, ConnectStep DEF ManualConnects
  <2>3. PICK c \in {"none", "opening", "lock"} : MovesTo(Manual, c)
    BY <2>2
  <2>4. call'[Manual] = c
    BY <1>1, <2>3 DEF MovesTo, TypeOK, TransportTypeOK
  <2> DEFINE where == IF c = "none" THEN "starting" ELSE "connecting"
  <2>5. /\ Moves(Manual, where, c)
        /\ UNCHANGED <<attempt, flagVars, watchVars, beforeVars, countVars>>
    BY <1>4, <2>3, <2>4 DEF ManualConnects, Moves
  <2> QED
    BY <1>1, <1>2, <2>1, <2>2, <2>5, <1>0, CallerMoved
<1>5. CASE ManualConnected
  <2>1. TransportInv' /\ Moves(Manual, "starting", "none") /\ at[Manual] = "connecting"
    BY <1>1, <1>5, ReturnsOkStep DEF ManualConnected, Moves
  <2>2. UNCHANGED <<attempt, flagVars, watchVars, beforeVars, countVars>>
    BY <1>5 DEF ManualConnected
  <2> QED
    BY <1>1, <1>2, <2>1, <2>2, <1>0, CallerMoved
<1>6. CASE ManualEnds
  <2>1. TransportInv' /\ MovesTo(Manual, "none") /\ at[Manual] \in {"connecting", "starting"}
    <3>1. CASE at[Manual] = "connecting" /\ OpenFails(Manual)
      BY <1>1, <3>1, OpenFailsStep
    <3>2. CASE at[Manual] = "starting" /\ UNCHANGED transportVars
      <4>1. call[Manual] = "none"
        BY <1>1, <3>2, CallOf
      <4> QED
        BY <1>1, <3>2, <4>1, TransportStays DEF transportVars, MovesTo, TypeOK, TransportTypeOK
    <3> QED
      BY <1>6, <3>1, <3>2 DEF ManualEnds
  <2>2. /\ Moves(Manual, "off", "none") /\ manual_op' = FALSE
        /\ auto_gave_up' \in {auto_gave_up, FALSE}
        /\ UNCHANGED <<attempt, auto_retrying, watchVars, beforeVars, countVars>>
    BY <1>6, <2>1 DEF ManualEnds, Moves
  <2>3. manual_op' \in BOOLEAN /\ auto_gave_up' \in BOOLEAN
    BY <1>1, <2>2
  <2>4. at[Teardown] # "begin"
    BY <1>2, <2>1
  <2> QED
    BY <1>1, <2>1, <2>2, <2>3, <2>4, <1>0, CallerMoved
<1>7. CASE InTransport(Manual)
  BY <1>1, <1>7, InTransportStep
<1> QED
  BY <1>3, <1>4, <1>5, <1>6, <1>7 DEF ManualTask

LEMMA CommandStep ==
  ASSUME ReconnectInv, send \/ CommandTask
  PROVE  ReconnectInv'
<1> USE DEF ReconnectInv
<1>1. /\ Command \in Callers \ {Teardown} /\ cleared \in BOOLEAN
      /\ attempt \in [Retriers -> 0 .. Attempts] /\ auto_retrying \in BOOLEAN /\ auto_gave_up \in BOOLEAN
      /\ manual_op \in BOOLEAN /\ manuals \in 0 .. MaxManual /\ commands \in 0 .. MaxCommands
      /\ drains \in Ids \cup {NoSocket} /\ MaxCommands \in Nat
  BY Distinct, ReconnectAssumption DEF TypeOK
<1>0. ASSUME NEW t \in {Manual, Command}, NEW where \in States, NEW c \in Calls,
             Moves(t, where, c), UNCHANGED <<attempt, auto_retrying, watchVars, beforeVars>>
      PROVE  Retrying'
  <2>1. \A r \in Retriers : at'[r] = at[r]
    BY <1>0, MovesShape, Distinct
  <2> QED
    BY <1>0, <2>1, RetryingStays DEF watchVars, beforeVars
<1> USE DEF flagVars, beforeVars, countVars, States, Calls
<1>2. at[Command] # "off" => at[Teardown] # "begin"
  BY <1>1, Begun
<1>3. CASE send
  <2>1. call[Command] = "none"
    BY <1>1, <1>3, CallOf DEF send
  <2>2. /\ commands' = commands + 1 /\ commands < MaxCommands /\ at[Teardown] # "begin"
        /\ UNCHANGED <<attempt, flagVars, watchVars, beforeVars, manuals>>
    BY <1>3 DEF send
  <2>3. commands' \in 0 .. MaxCommands
    BY <1>1, <2>2
  <2>4. CASE is_connected
    <3>1. drains' = _writer /\ Goes(Command, "sending") /\ transportVars' = transportVars
      BY <1>3, <2>4 DEF send
    <3>2. _writer \in Ids
      BY <2>4 DEF is_connected, TypeOK, TransportTypeOK
    <3>3. TransportInv' /\ Moves(Command, "sending", "none")
      BY <1>1, <2>1, <3>1, TransportStays DEF transportVars, MovesTo, Moves, TypeOK, TransportTypeOK
    <3>4. drains' \in Ids /\ drains' \in Ids \cup {NoSocket}
      BY <3>1, <3>2
    <3> QED
      BY <1>1, <2>2, <2>3, <3>3, <3>4, <1>0, CallerMoved
  <2>5. CASE ~is_connected
    <3>1. drains' = drains /\ Goes(Command, "connecting") /\ connect(Command)
      BY <1>3, <2>5 DEF send
    <3>2. TransportInv' /\ \E c \in {"opening", "lock"} : MovesTo(Command, c)
      BY <1>1, <2>1, <2>5, <3>1, ConnectStep
    <3>3. PICK c \in {"opening", "lock"} : MovesTo(Command, c)
      BY <3>2
    <3>4. Moves(Command, "connecting", c)
      BY <3>1, <3>3 DEF Moves
    <3> QED
      BY <1>1, <2>2, <2>3, <3>1, <3>2, <3>4, <1>0, CallerMoved
  <2> QED
    BY <2>4, <2>5
<1>4. CASE CommandConnected
  <2>1. /\ TransportInv' /\ Moves(Command, "sending", "none") /\ at[Command] = "connecting"
        /\ _writer' \in Ids
    BY <1>1, <1>4, ReturnsOkStep DEF CommandConnected, Moves
  <2>2. /\ UNCHANGED <<attempt, flagVars, watchVars, beforeVars, manuals, commands>> /\ drains' = _writer'
        /\ at[Teardown] # "begin"
    BY <1>2, <1>4, <2>1 DEF CommandConnected
  <2>3. drains' \in Ids /\ drains' \in Ids \cup {NoSocket}
    BY <2>1, <2>2
  <2> QED
    BY <1>1, <2>1, <2>2, <2>3, <1>0, CallerMoved
<1>5. CASE Sent
  <2>1. call[Command] = "none"
    BY <1>1, <1>5, CallOf DEF Sent
  <2>2. /\ Goes(Command, "off") /\ drains' = NoSocket /\ at[Teardown] # "begin"
        /\ _availability' \in {_availability, "DISCONNECTED"}
        /\ UNCHANGED <<sock, readerVars, refVars, connectq, call, awaited, attempt, flagVars,
                       watchVars, beforeVars, manuals, commands>>
    BY <1>2, <1>5 DEF Sent
  <2>3. TransportInv'
    BY <2>2 DEF TransportInv, TransportTypeOK, ConnectLock, NeverOver, Awaiting,
       ConnectedHasWriter, is_connected, readerVars, refVars
  <2>4. Moves(Command, "off", "none")
    BY <1>1, <2>1, <2>2 DEF Moves, MovesTo, TypeOK, TransportTypeOK
  <2>5. drains' \in Ids \cup {NoSocket}
    BY <2>2
  <2> QED
    BY <1>1, <2>2, <2>3, <2>4, <2>5, <1>0, CallerMoved
<1>6. CASE CommandFails
  <2>1. TransportInv' /\ Moves(Command, "off", "none")
    BY <1>1, <1>6, OpenFailsStep DEF CommandFails, Moves
  <2>2. /\ UNCHANGED <<attempt, flagVars, watchVars, beforeVars, countVars>> /\ at[Teardown] # "begin"
    BY <1>2, <1>6 DEF CommandFails
  <2> QED
    BY <1>1, <2>1, <2>2, <1>0, CallerMoved
<1>7. CASE InTransport(Command)
  BY <1>1, <1>7, InTransportStep
<1> QED
  BY <1>3, <1>4, <1>5, <1>6, <1>7 DEF CommandTask

\* What the roster's task does is to move, and to arm the watchdog or to stop it.
LEMMA RosterMoved ==
  ASSUME ReconnectInv, TransportInv', NEW where \in States, NEW c \in Calls,
         Moves(Teardown, where, c),
         where = "connecting" <=> c \in {"lock", "opening"},
         c \in {"reader", "closing"} => where = "disconnecting",
         where # "begin",
         where \in {"connecting", "starting"} => watching' = "not yet",
         where = "disconnecting" => watching' = "no",
         watching' \in {"not yet", "yes", "no"},
         last' \in {"DISCONNECTED", "CONNECTING", "CONNECTED"},
         auto_retrying' \in BOOLEAN, auto_gave_up' \in BOOLEAN, manual_op' \in BOOLEAN,
         UNCHANGED <<attempt, beforeVars, countVars>>,
         Retrying'
  PROVE  ReconnectInv'
<1> USE DEF ReconnectInv
<1>1. Teardown \in Callers /\ Teardown # Command
  BY Distinct
<1>2. /\ at' \in [Callers -> States] /\ at'[Teardown] = where
      /\ \A u \in Callers \ {Teardown} : at'[u] = at[u]
  BY <1>1, MovesShape
<1>3. InStep'
  BY <1>1, InStepMoves
<1>4. TypeOK'
  BY <1>2 DEF TypeOK, TransportInv, beforeVars, countVars, States
<1>5. Building'
  BY <1>2 DEF Building
<1>6. Draining'
  BY <1>2, Distinct DEF Draining, countVars
<1> QED
  BY <1>3, <1>4, <1>5, <1>6

\* The retry sequences stand where they are.
LEMMA RetriersStand ==
  ASSUME TypeOK, NEW where \in States, NEW c \in Calls, Moves(Teardown, where, c)
  PROVE  Running' = Running /\ \A r \in Retriers : at'[r] = at[r]
BY MovesShape, Distinct DEF Running

LEMMA RosterStep ==
  ASSUME ReconnectInv, RosterTask \/ TeardownAll
  PROVE  ReconnectInv'
<1> USE DEF ReconnectInv
<1>1. /\ Teardown \in Callers
      /\ auto_retrying \in BOOLEAN /\ auto_gave_up \in BOOLEAN /\ manual_op \in BOOLEAN
      /\ watching \in {"not yet", "yes", "no"}
      /\ last \in {"DISCONNECTED", "CONNECTING", "CONNECTED"}
  BY Distinct DEF TypeOK
<1> USE DEF States, Calls
\* The flags are left as they are, and the watchdog is not armed.
<1>2. ASSUME TransportInv', NEW where \in States, NEW c \in Calls, Moves(Teardown, where, c),
             where = "connecting" <=> c \in {"lock", "opening"},
             c \in {"reader", "closing"} => where = "disconnecting",
             where # "begin",
             where \in {"connecting", "starting"} => watching' = "not yet",
             where = "disconnecting" => watching' = "no",
             watching' = watching \/ watching' = "no",
             UNCHANGED <<last, attempt, flagVars, beforeVars, countVars>>
      PROVE  ReconnectInv'
  <2>1. /\ auto_retrying' = auto_retrying /\ auto_gave_up' = auto_gave_up
        /\ manual_op' = manual_op /\ cleared' = cleared /\ attempt' = attempt
    BY <1>2 DEF flagVars, beforeVars
  <2>2. Running' = Running /\ \A r \in Retriers : at'[r] = at[r]
    BY <1>2, RetriersStand
  <2>3. Retrying'
    <3>1. CASE watching' = watching
      BY <2>1, <2>2, <3>1, RetryingStays
    <3>2. CASE watching' = "no"
      BY <2>1, <2>2, <3>2 DEF Retrying, OneSequence, AtMostOne
    <3> QED
      BY <1>2, <3>1, <3>2
  <2> QED
    BY <1>1, <1>2, <2>1, <2>3, RosterMoved
<1>4. CASE Build
  <2>1. call[Teardown] = "none" /\ at[Teardown] = "begin" /\ watching = "not yet"
    BY <1>1, <1>4, CallOf DEF Build, Building
  <2>2. ~is_connected
    BY <2>1 DEF Building, is_connected
  <2>3. TransportInv' /\ \E c \in {"opening", "lock"} : MovesTo(Teardown, c)
    BY <1>1, <1>4, <2>1, <2>2, ConnectStep DEF Build
  <2>4. PICK c \in {"opening", "lock"} : MovesTo(Teardown, c)
    BY <2>3
  <2>5. /\ Moves(Teardown, "connecting", c) /\ watching' = watching /\ last' = last
        /\ UNCHANGED <<attempt, flagVars, beforeVars, countVars>>
    BY <1>4, <2>4 DEF Build, Moves, watchVars
  <2> QED
    BY <1>2, <2>1, <2>3, <2>5
<1>5. CASE BuildConnected
  <2>1. TransportInv' /\ Moves(Teardown, "starting", "none") /\ watching = "not yet"
    BY <1>1, <1>5, OpenedStep DEF BuildConnected, Moves, Building
  <2>2. /\ watching' = watching /\ last' = last
        /\ UNCHANGED <<attempt, flagVars, beforeVars, countVars>>
    BY <1>5 DEF BuildConnected, watchVars
  <2> QED
    BY <1>2, <2>1, <2>2
<1>6. CASE Built
  <2>1. TransportInv' /\ MovesTo(Teardown, "none") /\ at[Teardown] \in {"connecting", "starting"}
    <3>1. CASE at[Teardown] = "connecting" /\ OpenFails(Teardown)
      BY <1>1, <3>1, OpenFailsStep
    <3>2. CASE at[Teardown] = "starting" /\ UNCHANGED transportVars
      <4>1. call[Teardown] = "none"
        BY <1>1, <3>2, CallOf
      <4> QED
        BY <1>1, <3>2, <4>1, TransportStays DEF transportVars, MovesTo, TypeOK, TransportTypeOK
    <3> QED
      BY <1>6, <3>1, <3>2 DEF Built
  <2>2. /\ Moves(Teardown, "off", "none") /\ watching' = "yes" /\ last' = _availability'
        /\ UNCHANGED <<attempt, flagVars, beforeVars, countVars>>
    BY <1>6, <2>1 DEF Built, Moves
  <2>3. last' \in {"DISCONNECTED", "CONNECTING", "CONNECTED"}
    BY <2>1, <2>2 DEF TransportInv, TransportTypeOK
  <2>4. /\ auto_retrying' = auto_retrying /\ auto_gave_up' = auto_gave_up
        /\ manual_op' = manual_op /\ cleared' = cleared /\ attempt' = attempt
    BY <2>2 DEF flagVars, beforeVars
  <2>5. Running' = Running /\ \A r \in Retriers : at'[r] = at[r]
    BY <2>2, RetriersStand
  <2>6. Running = {} /\ ~auto_retrying
    BY <2>1 DEF Building, Retrying
  <2>7. OneSequence'
    BY <2>5, <2>6 DEF OneSequence, AtMostOne
  <2>8. Retrying'
    BY <2>2, <2>4, <2>5, <2>6, <2>7 DEF Retrying
  <2> QED
    BY <1>1, <2>1, <2>2, <2>3, <2>4, <2>8, RosterMoved
<1>7. CASE TornDown
  <2>1. call[Teardown] = "none" /\ watching = "no" /\ watching' = "no" /\ last' = last
    BY <1>7 DEF TornDown, Back, Building, watchVars
  <2>2. TransportInv' /\ Moves(Teardown, "off", "none")
    BY <1>1, <1>7, <2>1, TransportStays DEF TornDown, transportVars, MovesTo, Moves, TypeOK,
       TransportTypeOK
  <2>3. UNCHANGED <<attempt, beforeVars, countVars>>
    BY <1>7 DEF TornDown
  <2>4. auto_retrying' \in BOOLEAN /\ auto_gave_up' \in BOOLEAN /\ manual_op' \in BOOLEAN
    BY <1>7, Zenon DEF TornDown
  <2>5. Running' = Running /\ \A r \in Retriers : at'[r] = at[r]
    BY <2>2, RetriersStand
  <2>6. Retrying'
    BY <2>1, <2>3, <2>5 DEF Retrying, OneSequence, AtMostOne, beforeVars
  <2> QED
    BY <1>1, <2>1, <2>2, <2>3, <2>4, <2>6, RosterMoved
<1>8. CASE InTransport(Teardown)
  BY <1>1, <1>8, InTransportStep
<1>9. CASE TeardownAll
  <2>1. call[Teardown] = "none"
    BY <1>1, <1>9, CallOf DEF TeardownAll
  <2>2. TransportInv' /\ \E c \in {"none", "reader", "closing"} : MovesTo(Teardown, c)
    BY <1>1, <1>9, <2>1, DisconnectStep DEF TeardownAll
  <2>3. PICK c \in {"none", "reader", "closing"} : MovesTo(Teardown, c)
    BY <2>2
  <2>4. /\ Moves(Teardown, "disconnecting", c) /\ watching' = "no" /\ last' = last
        /\ UNCHANGED <<attempt, flagVars, beforeVars, countVars>>
    BY <1>9, <2>3 DEF TeardownAll, Moves
  <2> QED
    BY <1>2, <2>2, <2>4
<1> QED
  BY <1>4, <1>5, <1>6, <1>7, <1>8, <1>9 DEF RosterTask

LEMMA TickStep ==
  ASSUME ReconnectInv, Tick
  PROVE  ReconnectInv'
<1> USE DEF ReconnectInv
<1>1. /\ TransportInv' /\ call' = call /\ _writer' = _writer
      /\ last' = _availability /\ watching = "yes" /\ watching' = watching
      /\ \A r \in Retriers : at[r] # "begin"
      /\ UNCHANGED <<attempt, auto_retrying, auto_gave_up, manual_op, survivors, cleared, manuals,
                     commands, drains>>
  BY TransportStays DEF Tick, TickWith, transportVars, refVars, flagVars, beforeVars, countVars
<1>2. last' \in {"DISCONNECTED", "CONNECTING", "CONNECTED"}
  BY <1>1 DEF TypeOK, TransportTypeOK
<1>3. \/ ~auto_retrying /\ \E r \in Retriers \ Running : Goes(r, "begin")
      \/ at' = at
  BY DEF Tick, TickWith
<1>4. CASE at' = at
  <2>1. TypeOK'
    BY <1>1, <1>2, <1>4 DEF TypeOK, TransportInv
  <2>2. InStep' /\ Building' /\ Draining'
    BY <1>1, <1>4 DEF InStep, Building, Draining
  <2>3. Retrying'
    BY <1>1, <1>4, RetryingStays
  <2> QED
    BY <1>1, <2>1, <2>2, <2>3
<1>5. CASE ~auto_retrying /\ \E r \in Retriers \ Running : Goes(r, "begin")
  <2>1. PICK r \in Retriers \ Running : Goes(r, "begin")
    BY <1>5
  <2>2. at[r] = "off" /\ r \in Callers /\ r # Command /\ r # Teardown
    BY <2>1, Distinct DEF Running
  <2>3. call[r] = "none"
    BY <2>2, CallOf
  <2>4. at' \in [Callers -> States] /\ at'[r] = "begin" /\ \A u \in Callers \ {r} : at'[u] = at[u]
    BY <2>1, <2>2 DEF Goes, TypeOK, States
  <2>5. TypeOK'
    BY <1>1, <1>2, <2>4 DEF TypeOK, TransportInv, States
  <2>6. InStep'
    BY <1>1, <2>3, <2>4 DEF InStep
  <2>7. Building' /\ Draining'
    BY <1>1, <2>2, <2>4, Distinct DEF Building, Draining
  <2>8. Running' = Running \cup {r} /\ \A q \in Retriers \ {r} : at'[q] = at[q]
    BY <2>1, <2>4, Distinct DEF Running
  \* Nothing runs, or the flag was cleared.
  <2>9. ~cleared => Running = {}
    BY <1>1, <1>5 DEF Retrying, Running
  <2>10. OneSequence'
    BY <1>1, <2>8, <2>9 DEF OneSequence, AtMostOne
  <2>11. watching' = "yes" /\ ~cleared' => (auto_retrying' <=> \E q \in Running' : at'[q] # "begin")
    BY <1>1, <1>5, <2>4, <2>8, <2>9
  <2>12. \A q \in Retriers : at'[q] = "sleep" => attempt'[q] < Attempts
    BY <1>1, <2>4, <2>8 DEF Retrying
  <2>13. Retrying'
    BY <1>1, <2>10, <2>11, <2>12 DEF Retrying
  <2> QED
    BY <1>1, <2>5, <2>6, <2>7, <2>13
<1> QED
  BY <1>3, <1>4, <1>5

LEMMA SurvivorStep ==
  ASSUME ReconnectInv, NEW s \in Survivors, SurvivorEnds(s)
  PROVE  ReconnectInv'
<1> USE DEF ReconnectInv
<1>1. /\ TransportInv' /\ call' = call /\ _writer' = _writer /\ at' = at
      /\ survivors' \subseteq Survivors
      /\ UNCHANGED <<attempt, last, watching, manuals, commands, drains>>
  BY TransportStays DEF SurvivorEnds, transportVars, refVars, watchVars, countVars, TypeOK
<1>2. /\ auto_retrying' \in BOOLEAN /\ auto_gave_up' \in BOOLEAN /\ manual_op' \in BOOLEAN
      /\ cleared' \in BOOLEAN
  BY Zenon DEF SurvivorEnds, TypeOK
<1>3. TypeOK'
  BY <1>1, <1>2 DEF TypeOK, TransportInv
<1>4. InStep' /\ Building' /\ Draining'
  BY <1>1 DEF InStep, Building, Draining
<1>5. \/ ~auto_retrying' /\ (cleared' <=> cleared \/ auto_retrying)
      \/ UNCHANGED <<auto_retrying, cleared>>
  BY Zenon DEF SurvivorEnds
<1>6. Retrying'
  <2>1. CASE UNCHANGED <<auto_retrying, cleared>>
    BY <1>1, <2>1, RetryingStays
  <2>2. CASE ~auto_retrying' /\ (cleared' <=> cleared \/ auto_retrying)
    <3>1. Running' = Running /\ \A r \in Running : at'[r] = at[r]
      BY <1>1 DEF Running
    <3>2. OneSequence'
      BY <2>2, <3>1 DEF Retrying, OneSequence, AtMostOne
    <3> QED
      BY <1>1, <2>2, <3>1, <3>2 DEF Retrying
  <2> QED
    BY <1>5, <2>1, <2>2
<1> QED
  BY <1>1, <1>3, <1>4, <1>6

LEMMA OutsideStep ==
  ASSUME ReconnectInv, Readers \/ Network \/ UNCHANGED vars
  PROVE  ReconnectInv'
<1> USE DEF ReconnectInv
<1>1. TransportInv' /\ call' = call /\ _writer' = _writer /\ UNCHANGED appVars
  <2>1. CASE Readers
    BY <2>1, ReaderStepKeeps DEF Readers
  <2>2. CASE Network
    BY <2>2, NetworkStepKeeps DEF Network
  <2>3. CASE UNCHANGED vars
    BY <2>3, TransportStays DEF vars, transportVars, refVars
  <2> QED
    BY <2>1, <2>2, <2>3
<1>2. TypeOK'
  BY <1>1 DEF TypeOK, TransportInv, appVars
<1>3. InStep' /\ Building' /\ Draining'
  BY <1>1 DEF InStep, Building, Draining, appVars
<1>4. Retrying'
  BY <1>1, RetryingStays DEF appVars
<1> QED
  BY <1>1, <1>2, <1>3, <1>4

LEMMA ReconnectInit == Init => ReconnectInv
<1> SUFFICES ASSUME Init PROVE ReconnectInv
  OBVIOUS
<1> DEFINE Numbers == attempt = [r \in Retriers |-> 0] /\ manuals = 0 /\ commands = 0
<1>0. Numbers
  BY DEF Init
<1>1. /\ TransportInit
      /\ at = [t \in Callers |-> IF t = Teardown THEN "begin" ELSE "off"]
      /\ last = "DISCONNECTED" /\ watching = "not yet" /\ drains = NoSocket
  BY DEF Init
<1>2. ~auto_retrying /\ ~cleared /\ survivors \subseteq Survivors
  BY DEF Init
<1>3. auto_retrying \in BOOLEAN /\ auto_gave_up \in BOOLEAN /\ manual_op \in BOOLEAN
      /\ cleared \in BOOLEAN
  BY Zenon DEF Init
<1>3a. connectq = <<>> /\ <<>> \in Seq(Callers)
  BY <1>1, EmptySeq DEF TransportInit
<1>4. TransportTypeOK
  <2>1. connectq \in Seq(Callers)
    BY <1>3a
  <2>2. {_writer, _reader, _reader_task} \subseteq Ids \cup {NoSocket} /\ cancelled \subseteq Ids
    BY <1>1 DEF TransportInit
  <2>3. /\ sock \in [Ids -> {"none", "open", "eof", "closing", "lost"}]
        /\ reader \in [Ids -> {"none", "new", "wait", "deliver", "done"}]
        /\ _availability \in {"DISCONNECTED", "CONNECTING", "CONNECTED"}
        /\ call \in [Callers -> {"none", "reader", "closing", "lock", "opening"}]
    BY <1>1 DEF TransportInit
  <2>4. reads \in [Ids -> Ids \cup {NoSocket}] /\ awaited \in [Callers -> Ids \cup {NoSocket}]
    BY <1>1 DEF TransportInit
  <2> QED
    BY <2>1, <2>2, <2>3, <2>4 DEF TransportTypeOK
<1>5. ConnectLock /\ NeverOver /\ Awaiting /\ ConnectedHasWriter
  <2>1. \A t \in Callers : call[t] = "none"
    BY <1>1 DEF TransportInit
  <2>2. _availability = "DISCONNECTED"
    BY <1>1 DEF TransportInit
  <2>3. DOMAIN connectq = {}
    BY <1>3a
  <2> QED
    BY <2>1, <2>2, <2>3 DEF ConnectLock, NeverOver, Awaiting, ConnectedHasWriter
<1>6. TypeOK
  <2>1. /\ attempt \in [Retriers -> 0 .. Attempts] /\ manuals \in 0 .. MaxManual
        /\ commands \in 0 .. MaxCommands
    BY <1>0, ReconnectAssumption
  <2>2. at \in [Callers -> {"off", "begin", "sleep", "disconnecting", "connecting", "starting",
                            "sending"}]
    BY <1>1
  <2>3. /\ last \in {"DISCONNECTED", "CONNECTING", "CONNECTED"}
        /\ watching \in {"not yet", "yes", "no"} /\ drains \in Ids \cup {NoSocket}
    BY <1>1
  <2> QED
    BY <1>2, <1>3, <1>4, <2>1, <2>2, <2>3 DEF TypeOK
<1>7. InStep /\ Building /\ Draining
  <2>1. \A t \in Callers : call[t] = "none" /\ at[t] \in {"begin", "off"}
                           /\ (at[t] = "begin" <=> t = Teardown)
    BY <1>1 DEF TransportInit
  <2>2. _writer = NoSocket
    BY <1>1 DEF TransportInit
  <2> QED
    BY <1>1, <2>1, <2>2, Distinct DEF InStep, Building, Draining
<1>8. Retrying
  <2>1. \A r \in Retriers : at[r] = "off"
    BY <1>1, Distinct
  <2>2. Running = {}
    BY <2>1 DEF Running
  <2> QED
    BY <1>1, <1>2, <2>1, <2>2 DEF Retrying, OneSequence, AtMostOne
<1> QED
  BY <1>4, <1>5, <1>6, <1>7, <1>8 DEF ReconnectInv, TransportInv

LEMMA ReconnectNext == ReconnectInv /\ [Next]_vars => ReconnectInv'
BY AutoStep, ManualStep, CommandStep, RosterStep, TickStep, SurvivorStep, OutsideStep DEF Next

-----------------------------------------------------------------------------
(* The theorems.                                                           *)

\* Everything the other theorems rest on: the types, who holds _connect_lock, and
\* how a caller and its call of the transport go together.
THEOREM ReconnectInvariant == Spec => []ReconnectInv
  BY ReconnectInit, ReconnectNext, PTL DEF Spec

\* The variables of the transport, of the watchdog and of its retry sequence keep
\* their types.
THEOREM ReconnectTypes == Spec => []TypeOK
  BY ReconnectInvariant, PTL DEF ReconnectInv

\* _availability is "CONNECTED" only over a writer: disconnect(), which clears the
\* references after its awaits, never leaves the one without the other.
THEOREM ConnectedIsTrue == Spec => []ConnectedHasWriter
<1>1. ReconnectInv => ConnectedHasWriter
  BY DEF ReconnectInv, TransportInv
<1> QED
  BY <1>1, ReconnectInvariant, PTL

\* The watchdog's look at auto_retrying is enough, but for the tasks of the roster
\* before: no retry sequence is started while another one runs, unless one of those
\* has cleared the flag since that one began.
THEOREM OneRetrySequence == Spec => []OneSequence
<1>1. ReconnectInv => OneSequence
  BY DEF ReconnectInv, Retrying
<1> QED
  BY <1>1, ReconnectInvariant, PTL

\* _connect_lock: two tasks are never in open_connection() at once.
THEOREM OneCallerOpens == Spec => []OneOpens
<1>1. ReconnectInv => OneOpens
  BY DEF ReconnectInv, TransportInv, ConnectLock, OneOpens
<1> QED
  BY <1>1, ReconnectInvariant, PTL

\* The test for a connection is made under the lock and stays true until the
\* connection is there: connect() never opens one over another that stands.
THEOREM NeverOpensOver == Spec => []NeverOver
<1>1. ReconnectInv => NeverOver
  BY DEF ReconnectInv, TransportInv
<1> QED
  BY <1>1, ReconnectInvariant, PTL
=============================================================================
