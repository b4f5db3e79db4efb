--------------------------- MODULE TcpProxyProofs ---------------------------
(***************************************************************************)
(* What holds of the HC33 proxy for any clients, frames and timeouts.      *)
(***************************************************************************)
EXTENDS TcpProxy, SequenceTheorems, TLAPS

-----------------------------------------------------------------------------
(* The wire format.                                                        *)

\* A uint16_t is a natural number.
LEMMA U16Nat == \A m \in U16 : m \in Int /\ 0 <= m
BY SMTT(60) DEF U16

\* What is below a uint16_t is one.
LEMMA U16Below ==
  ASSUME NEW m \in U16, NEW n \in Nat, n <= m
  PROVE  n \in U16
<1>1. m <= 256 * 256 - 1 /\ m \in Int
  BY SMTT(60) DEF U16
<1>2. n <= 256 * 256 - 1
  BY <1>1, SMTT(60)
<1>3. 256 * 256 - 1 \in Int
  BY SMTT(60)
<1>4. \A K \in Int : n <= K => n \in 0 .. K
  BY SMT
<1> QED
  BY <1>2, <1>3, <1>4, Zenon DEF U16

\* Concatenation is associative.
LEMMA Regroup == \A r, s, t \in Seq(Byte) : (r \o s) \o t = r \o (s \o t)
BY ConcatAssociative

\* A sequence is a prefix of what it is extended to.
LEMMA PrefixOfConcat ==
  \A s, t \in Seq(Byte) : IsPrefix(s, s \o t)
<1> SUFFICES ASSUME NEW s \in Seq(Byte), NEW t \in Seq(Byte)
             PROVE  IsPrefix(s, s \o t)
  OBVIOUS
<1>1. Len(s) \in Nat /\ Len(t) \in Nat /\ Len(s \o t) = Len(s) + Len(t)
  OBVIOUS
<1>2. SubSeq(s, 1, Len(s)) = SubSeq(s \o t, 1, Len(s))
  OBVIOUS
<1> QED
  BY <1>1, <1>2 DEF IsPrefix

\* A header is two bytes.
LEMMA HeaderType ==
  ASSUME NEW n \in U16
  PROVE  Header(n) \in Seq(Byte)
<1>1. n \in Nat /\ n <= 256 * 256 - 1
  BY SMTT(60) DEF U16
<1>2. n \div 256 \in 0 .. 255
  BY <1>1, SMTT(60)
<1>3. n % 256 \in 0 .. 255
  BY <1>1, SMTT(60)
<1> QED
  BY <1>2, <1>3 DEF Header, Byte

\* Encode() yields bytes.
LEMMA EncodeType ==
  ASSUME NEW f \in Seq(Byte), Len(f) \in U16
  PROVE  Encode(f) \in Seq(Byte)
BY HeaderType, ConcatProperties DEF Encode

\* The value of two bytes, and the two bytes of the value.
LEMMA TwoBytes ==
  ASSUME NEW a \in 0 .. 255, NEW b \in 0 .. 255
  PROVE  /\ 256 * a + b \in U16
         /\ (256 * a + b) \div 256 = a
         /\ (256 * a + b) % 256 = b
<1>1. 256 * a + b \in U16
  <2>1. 256 * a + b \in Int /\ 0 <= 256 * a + b
    BY SMTT(90)
  <2>2. 256 * a + b <= 256 * 256 - 1 /\ 256 * 256 - 1 \in Int
    BY SMTT(90)
  <2>3. \A K, n \in Int : 0 <= n /\ n <= K => n \in 0 .. K
    BY SMTT(90)
  <2> QED
    BY <2>1, <2>2, <2>3, Zenon DEF U16
<1>2. (256 * a + b) \div 256 = a
  BY SMTT(90)
<1>3. (256 * a + b) % 256 = b
  BY SMTT(90)
<1> QED
  BY <1>1, <1>2, <1>3

\* The length read from two bytes fits the uint16_t, and its header is they.
LEMMA HeaderLenType ==
  ASSUME NEW s \in Seq(Byte), Len(s) >= 2
  PROVE  /\ HeaderLen(s) \in U16
         /\ Header(HeaderLen(s)) = <<s[1], s[2]>>
<1>1. 1 \in 1 .. Len(s) /\ 2 \in 1 .. Len(s)
  BY LenProperties
<1>2. s[1] \in 0 .. 255 /\ s[2] \in 0 .. 255
  BY <1>1, ElementOfSeq DEF Byte
<1>3. /\ 256 * s[1] + s[2] \in U16
      /\ (256 * s[1] + s[2]) \div 256 = s[1]
      /\ (256 * s[1] + s[2]) % 256 = s[2]
  BY <1>2, TwoBytes, Zenon
<1> QED
  BY <1>3 DEF Header, HeaderLen

\* A byte sequence is its first k elements and the rest.
LEMMA SplitAt ==
  ASSUME NEW s \in Seq(Byte), NEW k \in 0 .. Len(s)
  PROVE  /\ SubSeq(s, 1, k) \in Seq(Byte)
         /\ Len(SubSeq(s, 1, k)) = k
         /\ SubSeq(s, k + 1, Len(s)) \in Seq(Byte)
         /\ s = SubSeq(s, 1, k) \o SubSeq(s, k + 1, Len(s))
<1>1. Len(s) \in Nat /\ k \in Int /\ k + 1 \in Int
  BY LenProperties
<1>2. \A i \in 1 .. Len(s) : s[i] \in Byte
  BY ElementOfSeq
<1>3. SubSeq(s, 1, k) \in Seq(Byte) /\ Len(SubSeq(s, 1, k)) = k
  <2>1. \A i \in 1 .. k : s[i] \in Byte
    BY <1>1, <1>2
  <2> QED
    BY <1>1, <2>1, SubSeqProperties
<1>4. SubSeq(s, k + 1, Len(s)) \in Seq(Byte)
  <2>1. \A i \in k + 1 .. Len(s) : s[i] \in Byte
    BY <1>1, <1>2
  <2> QED
    BY <1>1, <2>1, SubSeqProperties
<1>5. SubSeq(s, 1, k) \o SubSeq(s, k + 1, Len(s)) = SubSeq(s, 1, Len(s))
  <2>1. 1 \in 1 .. Len(s) + 1 /\ k \in 1 - 1 .. Len(s) /\ Len(s) \in k .. Len(s)
    BY <1>1
  <2> QED
    BY <2>1, ConcatAdjacentSubSeq, Zenon
<1> QED
  BY <1>3, <1>4, <1>5, SubSeqFull

\* What a client may send, and an empty frame, are bytes.
LEMMA FrameBytes ==
  /\ \A f \in Frames : Encode(f) \in Seq(Byte)
  /\ Encode(<<>>) \in Seq(Byte)
<1>1. \A f \in Frames : f \in Seq(Byte) /\ Len(f) \in U16
  BY ProxyAssumption
<1>2. <<>> \in Seq(Byte) /\ Len(<<>>) \in U16
  BY SMTT(60) DEF U16
<1> QED
  BY <1>1, <1>2, EncodeType, Zenon

-----------------------------------------------------------------------------
(* Type correctness.                                                       *)

\* A step of connect_mower() keeps the types of the BLE side.
LEMMA ConnectStepType ==
  ASSUME BleTypeOK, NEW c \in Conns \cup {None}, ConnectStep(c)
  PROVE  BleTypeOK'
<1> USE DEF BleTypeOK, ConnectSteps
<1>1. ScanTime \in Nat /\ ConnectTime \in Nat
  BY BleAssumption
<1>2. CASE ScanHit
  BY <1>1, <1>2 DEF ScanHit
<1>3. CASE ScanMiss
  BY <1>1, <1>3 DEF ScanMiss
<1>4. CASE GattConnected(c)
  BY <1>1, <1>4 DEF GattConnected
<1>5. CASE GattConnectFailed
  BY <1>1, <1>5 DEF GattConnectFailed
<1>6. CASE Discovered
  BY <1>6 DEF Discovered, Feed
<1>7. CASE DiscoverFailed
  BY <1>7 DEF DiscoverFailed, Terminate
<1> QED
  BY <1>2, <1>3, <1>4, <1>5, <1>6, <1>7 DEF ConnectStep

\* While connect_mower() runs, and while the socket is polled, there is a client
\* for it: client_ is set before, and only a reboot forgets it.
Serving == pc \in {"connect", "poll"} => client_ \in Conns

\* Every step keeps the types of the BLE side.
LEMMA BleTypeStep ==
  ASSUME TypeOK, Next
  PROVE  BleTypeOK'
<1> USE DEF TypeOK
<1>0. ASSUME UNCHANGED bleVars PROVE BleTypeOK'
  BY <1>0 DEF BleTypeOK, bleVars
<1>1. CASE on_client_disconnected_
  BY <1>1 DEF on_client_disconnected_, disconnect_mower, Terminate, BleTypeOK
<1>2. CASE on_client_connected_
  BY <1>0, <1>2 DEF on_client_connected_, connect_mower, BleTypeOK, ConnectSteps
<1>3. CASE Connecting
  BY <1>3, ConnectStepType DEF Connecting, LoopTypeOK
<1>4. CASE ConnectFailed
  BY <1>4 DEF ConnectFailed, disconnect_mower, Terminate, Feed, BleTypeOK
<1>5. CASE HostLinkDown
  BY <1>5 DEF HostLinkDown, LinkDown, BleTypeOK
<1>6. CASE Panic
  BY <1>6 DEF Panic, BleReboot, BleTypeOK
<1>7. CASE AcceptNobody \/ IdleStop \/ Poll \/ NothingToRead \/ ReadHeader \/ ReadData
  BY <1>0, <1>7 DEF AcceptNobody, IdleStop, Poll, NothingToRead, ReadHeader, ReadData
<1>8. CASE WriteLinkDown \/ WriteAccepted \/ WriteRefused \/ DrainNote \/ Drained
  BY <1>0, <1>8 DEF WriteLinkDown, WriteAccepted, WriteRefused, DrainNote, Drained
<1>9. CASE SeeClose \/ HostNotify \/ HostPush \/ Tick
  BY <1>0, <1>9 DEF SeeClose, HostNotify, HostPush, Tick
<1>10. CASE \E c \in Conns : OpenConnection(c) \/ Send(c) \/ Leave(c)
  BY <1>0, <1>10 DEF OpenConnection, Send, Leave
<1> QED
  BY <1>1, <1>2, <1>3, <1>4, <1>5, <1>6, <1>7, <1>8, <1>9, <1>10 DEF Next, LoopTask

\* Every step keeps the types of the connections and their bytes.
LEMMA NetTypeStep ==
  ASSUME TypeOK, Serving, Next
  PROVE  NetTypeOK'
<1> USE DEF TypeOK, netVars
<1>0. ASSUME UNCHANGED <<netVars, taken>> PROVE NetTypeOK'
  BY <1>0 DEF NetTypeOK
<1>1. CASE on_client_connected_
  <2>1. Head(backlog) \in Conns /\ Tail(backlog) \in Seq(Conns)
    BY <1>1, HeadTailProperties DEF on_client_connected_, NetTypeOK
  <2> QED
    BY <1>1, <2>1 DEF on_client_connected_, NetTypeOK
<1>n. <<>> \in Seq(Byte)
  BY EmptySeq
<1>2. ASSUME NEW why \in {"closed", "refused"}, Stop(why), UNCHANGED taken PROVE NetTypeOK'
  BY <1>2, <1>n DEF Stop, NetTypeOK
<1>3. CASE ConnectFailed \/ IdleStop \/ WriteLinkDown \/ SeeClose
  BY <1>2, <1>3 DEF ConnectFailed, IdleStop, WriteLinkDown, SeeClose
<1>4. CASE ReadHeader
  <2>1. Unread \in Seq(Byte) /\ Len(Unread) \in Nat /\ Len(Unread) >= 2
    BY <1>4 DEF ReadHeader, Polling, Unread, Serving, NetTypeOK
  <2>2. SubSeq(Unread, 3, Len(Unread)) \in Seq(Byte)
    <3>1. 2 \in 0 .. Len(Unread) /\ 2 + 1 = 3
      BY <2>1
    <3>2. SubSeq(Unread, 2 + 1, Len(Unread)) \in Seq(Byte)
      BY <2>1, <3>1, SplitAt, Zenon
    <3> QED
      BY <3>1, <3>2
  <2>3. taken[client_] \o Encode(<<>>) \in Seq(Byte)
    BY <1>4, FrameBytes, ConcatProperties DEF ReadHeader, Polling, Serving, NetTypeOK
  <2> QED
    BY <1>4, <1>n, <2>2, <2>3 DEF ReadHeader, Unread, NetTypeOK
<1>5. CASE ReadData
  <2>1. PICK got \in 1 .. Len(Unread) :
          wire' = [wire EXCEPT ![client_] = SubSeq(@, got + 1, Len(@))]
    BY <1>5 DEF ReadData
  <2>2. Unread \in Seq(Byte) /\ Len(Unread) \in Nat
    BY <1>5 DEF ReadData, Polling, Unread, Serving, NetTypeOK
  <2>3. SubSeq(Unread, got + 1, Len(Unread)) \in Seq(Byte)
    BY <2>2, SplitAt
  <2> QED
    BY <1>5, <2>1, <2>3 DEF ReadData, Unread, NetTypeOK
<1>6. CASE WriteAccepted
  <2>1. taken[client_] \o Encode(rx_buf_) \in Seq(Byte)
    <3>1. taken[client_] \in Seq(Byte)
      BY <1>6 DEF WriteAccepted, Polling, Serving, NetTypeOK
    <3>2. rx_buf_ \in Seq(Byte) /\ Len(rx_buf_) \in U16
      BY U16Below DEF RxTypeOK
    <3> QED
      BY <3>1, <3>2, EncodeType, ConcatProperties
  <2> QED
    BY <1>6, <2>1 DEF WriteAccepted, NetTypeOK
<1>7. CASE Panic
  BY <1>7 DEF Panic, NetTypeOK
<1>8. ASSUME NEW c \in Conns, OpenConnection(c) PROVE NetTypeOK'
  BY <1>8, AppendProperties DEF OpenConnection, NetTypeOK
<1>9. ASSUME NEW c \in Conns, Send(c) PROVE NetTypeOK'
  BY <1>9, FrameBytes, ConcatProperties DEF Send, NetTypeOK
<1>10. ASSUME NEW c \in Conns, Leave(c) PROVE NetTypeOK'
  BY <1>10 DEF Leave, NetTypeOK
<1>11. CASE \/ on_client_disconnected_ \/ AcceptNobody \/ Connecting \/ Poll
            \/ NothingToRead \/ WriteRefused \/ DrainNote \/ Drained
  BY <1>0, <1>11 DEF on_client_disconnected_, AcceptNobody, Connecting, Poll, NothingToRead,
                     WriteRefused, DrainNote, Drained
<1>12. CASE HostNotify \/ HostPush \/ HostLinkDown \/ Tick
  BY <1>0, <1>12 DEF HostNotify, HostPush, HostLinkDown, Tick
<1> QED
  BY <1>1, <1>3, <1>4, <1>5, <1>6, <1>7, <1>8, <1>9, <1>10, <1>11, <1>12 DEF Next, LoopTask

\* Every step keeps the types of the frame being received.
LEMMA RxTypeStep ==
  ASSUME TypeOK, Serving, Next
  PROVE  RxTypeOK'
<1> USE DEF TypeOK, rxVars
<1>0. ASSUME UNCHANGED rxVars PROVE RxTypeOK'
  BY <1>0 DEF RxTypeOK
<1>1. 0 \in U16
  BY SMTT(60) DEF U16
<1>n. <<>> \in Seq(Byte) /\ Len(<<>>) = 0
  BY EmptySeq
<1>2. CASE on_client_connected_ \/ Panic
  <2>1. rx_state_' = "WAIT_LEN" /\ rx_len_' = 0 /\ rx_buf_' = <<>>
    BY <1>2 DEF on_client_connected_, Panic, FreshRx
  <2> QED
    BY <1>1, <1>n, <2>1 DEF RxTypeOK
<1>3. CASE ReadHeader
  <2>1. Unread \in Seq(Byte)
    BY <1>3 DEF ReadHeader, Polling, Unread, Serving, NetTypeOK
  <2>2. rx_len_' \in U16
    BY <1>3, <2>1, HeaderLenType DEF ReadHeader
  <2>3. rx_len_' >= 0
    BY <2>2, U16Nat
  <2> QED
    BY <1>3, <1>n, <2>2, <2>3 DEF ReadHeader, RxTypeOK
<1>4. CASE ReadData
  <2>1. PICK got \in 1 .. Len(Unread) :
          /\ got <= Want
          /\ rx_buf_' = rx_buf_ \o SubSeq(Unread, 1, got)
    BY <1>4 DEF ReadData
  <2>2. Unread \in Seq(Byte) /\ Len(Unread) \in Nat
    BY <1>4 DEF ReadData, Polling, Unread, Serving, NetTypeOK
  <2>3. SubSeq(Unread, 1, got) \in Seq(Byte) /\ Len(SubSeq(Unread, 1, got)) = got
    BY <2>2, SplitAt
  <2>4. rx_buf_' \in Seq(Byte) /\ Len(rx_buf_') = Len(rx_buf_) + got
    BY <2>1, <2>3, ConcatProperties DEF RxTypeOK
  <2>5. Len(rx_buf_') <= rx_len_
    <3>1. rx_len_ \in Int
      BY U16Nat DEF RxTypeOK
    <3> QED
      BY <2>1, <2>4, <3>1 DEF Want, RxTypeOK
  <2>6. rx_state_' \in {"WAIT_LEN", "READ_DATA", "WRITE_PENDING"} /\ rx_len_' = rx_len_
    BY <1>4 DEF ReadData, RxTypeOK
  <2> QED
    BY <2>4, <2>5, <2>6 DEF RxTypeOK
<1>5. CASE WriteAccepted
  BY <1>1, <1>5, <1>n DEF WriteAccepted, RxTypeOK
<1>6. CASE \/ on_client_disconnected_ \/ AcceptNobody \/ Connecting \/ ConnectFailed
           \/ IdleStop \/ Poll \/ NothingToRead
  BY <1>0, <1>6 DEF on_client_disconnected_, AcceptNobody, Connecting, ConnectFailed, IdleStop,
                    Poll, NothingToRead
<1>7. CASE WriteLinkDown \/ WriteRefused \/ DrainNote \/ Drained
  BY <1>0, <1>7 DEF WriteLinkDown, WriteRefused, DrainNote, Drained
<1>8. CASE SeeClose \/ HostNotify \/ HostPush \/ HostLinkDown \/ Tick
  BY <1>0, <1>8 DEF SeeClose, HostNotify, HostPush, HostLinkDown, Tick
<1>9. CASE \E c \in Conns : OpenConnection(c) \/ Send(c) \/ Leave(c)
  BY <1>0, <1>9 DEF OpenConnection, Send, Leave
<1> QED
  BY <1>2, <1>3, <1>4, <1>5, <1>6, <1>7, <1>8, <1>9 DEF Next, LoopTask

\* Every step keeps the types of the notifications.
LEMMA NoteTypeStep ==
  ASSUME TypeOK, Next
  PROVE  NoteTypeOK'
<1> USE DEF TypeOK, noteVars
<1>0. ASSUME UNCHANGED noteVars PROVE NoteTypeOK'
  BY <1>0 DEF NoteTypeOK
<1>n. <<>> \in Seq(Note)
  BY EmptySeq
<1>1. CASE on_client_disconnected_ \/ Panic
  BY <1>1, <1>n DEF on_client_disconnected_, Panic, NoteTypeOK
<1>2. CASE DrainNote
  <2> DEFINE Frame == [note : Note, whole : BOOLEAN]
  <2>1. Head(notify_queue_) \in Note /\ Tail(notify_queue_) \in Seq(Note)
    BY <1>2, HeadTailProperties DEF DrainNote, NoteTypeOK
  <2>2. CASE Connected
    <3>1. client_ \in Conns
      BY <2>2 DEF Connected, LoopTypeOK
    <3>2. PICK whole \in {TRUE, ~ShortWrites} :
            back' = [back EXCEPT ![client_] =
                       Append(@, [note |-> Head(notify_queue_), whole |-> whole])]
      BY <1>2, <2>2 DEF DrainNote
    <3>3. [note |-> Head(notify_queue_), whole |-> whole] \in Frame
      BY <2>1, ProxyAssumption
    <3>4. Append(back[client_], [note |-> Head(notify_queue_), whole |-> whole]) \in Seq(Frame)
      BY <3>1, <3>3, AppendProperties DEF NoteTypeOK
    <3> QED
      BY <1>2, <2>1, <3>2, <3>4 DEF DrainNote, NoteTypeOK
  <2>3. CASE ~Connected
    BY <1>2, <2>1, <2>3 DEF DrainNote, NoteTypeOK
  <2> QED
    BY <2>2, <2>3
<1>3. CASE HostNotify
  <2>1. [n |-> noted + 1, from |-> linkFor] \in Note
    BY DEF Note, NoteTypeOK, BleTypeOK
  <2>2. /\ cb' = <<[n |-> noted + 1, from |-> linkFor]>>
        /\ noted' = noted + 1
        /\ UNCHANGED <<back, notify_queue_>>
    BY <1>3 DEF HostNotify
  <2>3. cb' \in Seq(Note)
    BY <2>1, <2>2
  <2>4. noted' \in Nat
    BY <2>2 DEF NoteTypeOK
  <2> QED
    BY <2>2, <2>3, <2>4, Zenon DEF NoteTypeOK
<1>4. CASE HostPush
  <2>1. notify_queue_ \o cb \in Seq(Note)
    BY ConcatProperties DEF NoteTypeOK
  <2>2. cb' = <<>> /\ notify_queue_' = notify_queue_ \o cb /\ UNCHANGED <<back, noted>>
    BY <1>4 DEF HostPush
  <2> QED
    BY <1>n, <2>1, <2>2, Zenon DEF NoteTypeOK
<1>5. CASE \/ AcceptNobody \/ on_client_connected_ \/ Connecting \/ ConnectFailed \/ IdleStop
           \/ Poll \/ NothingToRead \/ ReadHeader \/ ReadData
  BY <1>0, <1>5 DEF AcceptNobody, on_client_connected_, Connecting, ConnectFailed, IdleStop,
                    Poll, NothingToRead, ReadHeader, ReadData
<1>6. CASE WriteLinkDown \/ WriteAccepted \/ WriteRefused \/ Drained
  BY <1>0, <1>6 DEF WriteLinkDown, WriteAccepted, WriteRefused, Drained
<1>7. CASE SeeClose \/ HostLinkDown \/ Tick
  BY <1>0, <1>7 DEF SeeClose, HostLinkDown, Tick
<1>8. CASE \E c \in Conns : OpenConnection(c) \/ Send(c) \/ Leave(c)
  BY <1>0, <1>8 DEF OpenConnection, Send, Leave
<1> QED
  BY <1>1, <1>2, <1>3, <1>4, <1>5, <1>6, <1>7, <1>8 DEF Next, LoopTask

\* Every step keeps the types of the loop's own state, and Serving.
LEMMA LoopTypeStep ==
  ASSUME TypeOK, Serving, Next
  PROVE  LoopTypeOK' /\ Serving'
<1> USE DEF TypeOK, proxyVars, LoopTypeOK, Serving
<1>0. 0 \in 0 .. IdleTimeout + 1
  BY ProxyAssumption
<1>1. CASE on_client_disconnected_ \/ AcceptNobody \/ Poll \/ NothingToRead
  BY <1>1 DEF on_client_disconnected_, AcceptNobody, Poll, Connected, NothingToRead
<1>2. CASE on_client_connected_
  <2>1. Head(backlog) \in Conns
    BY <1>2, HeadTailProperties DEF on_client_connected_, NetTypeOK
  <2> QED
    BY <1>0, <1>2, <2>1 DEF on_client_connected_
<1>3. CASE Connecting \/ ConnectFailed \/ IdleStop
  BY <1>3 DEF Connecting, ConnectFailed, IdleStop
<1>4. CASE ReadHeader
  BY <1>4 DEF ReadHeader
<1>5. CASE ReadData
  BY <1>0, <1>5 DEF ReadData
<1>6. CASE WriteLinkDown \/ WriteAccepted \/ WriteRefused
  BY <1>0, <1>6 DEF WriteLinkDown, WriteAccepted, WriteRefused
<1>7. CASE DrainNote \/ Drained \/ SeeClose
  BY <1>7 DEF DrainNote, Drained, SeeClose
<1>8. CASE HostNotify \/ HostPush \/ HostLinkDown
  BY <1>8 DEF HostNotify, HostPush, HostLinkDown
<1>9. CASE Panic
  BY <1>9 DEF Panic
<1>10. CASE Tick
  BY <1>10, ProxyAssumption DEF Tick
<1>11. CASE \E c \in Conns : OpenConnection(c) \/ Send(c) \/ Leave(c)
  BY <1>11 DEF OpenConnection, Send, Leave
<1> QED
  BY <1>1, <1>2, <1>3, <1>4, <1>5, <1>6, <1>7, <1>8, <1>9, <1>10, <1>11 DEF Next, LoopTask

\* Every variable of the proxy keeps its type; a frame's buffer never grows past
\* the length its header announced (poll_socket_()).
THEOREM TypeCorrect == Spec => [](TypeOK /\ Serving)
<1>1. Init => TypeOK /\ Serving
  <2> SUFFICES ASSUME Init PROVE TypeOK /\ Serving
    OBVIOUS
  <2>n. <<>> \in Seq(Byte) /\ <<>> \in Seq(Conns) /\ <<>> \in Seq(Note) /\ Len(<<>>) = 0
        /\ <<>> \in Seq([note : Note, whole : BOOLEAN])
    BY EmptySeq
  <2>1. BleTypeOK
    BY DEF Init, BleInit, BleTypeOK
  <2>2. NetTypeOK
    BY <2>n DEF Init, NetTypeOK
  <2>3. RxTypeOK
    <3>1. rx_state_ = "WAIT_LEN" /\ rx_len_ = 0 /\ rx_buf_ = <<>> /\ 0 \in U16
      BY DEF Init, U16
    <3> QED
      BY <2>n, <3>1 DEF RxTypeOK
  <2>4. NoteTypeOK
    BY <2>n DEF Init, NoteTypeOK
  <2>5. LoopTypeOK /\ Serving
    <3>1. /\ client_ = None /\ ble_open_ = FALSE /\ pc = "top"
          /\ quiet = 0
      BY DEF Init
    <3>2. 0 \in 0 .. IdleTimeout + 1
      BY ProxyAssumption
    <3>3. LoopTypeOK
      BY <3>1, <3>2, Zenon DEF LoopTypeOK
    <3>4. Serving
      BY <3>1 DEF Serving
    <3> QED
      BY <3>3, <3>4
  <2> QED
    BY <2>1, <2>2, <2>3, <2>4, <2>5 DEF TypeOK
<1>2. TypeOK /\ Serving /\ [Next]_vars => TypeOK' /\ Serving'
  <2> SUFFICES ASSUME TypeOK, Serving, [Next]_vars PROVE TypeOK' /\ Serving'
    OBVIOUS
  <2>1. CASE Next
    BY <2>1, BleTypeStep, NetTypeStep, RxTypeStep, NoteTypeStep, LoopTypeStep DEF TypeOK
  <2>2. CASE UNCHANGED vars
    <3>1. UNCHANGED <<bleVars, netVars, taken, rxVars, noteVars, quiet, proxyVars>>
      BY <2>2 DEF vars
    <3>2. BleTypeOK' /\ NetTypeOK'
      BY <3>1 DEF bleVars, netVars, BleTypeOK, NetTypeOK, TypeOK
    <3>3. RxTypeOK' /\ NoteTypeOK'
      BY <3>1 DEF rxVars, noteVars, RxTypeOK, NoteTypeOK, TypeOK
    <3>4. LoopTypeOK' /\ Serving'
      BY <3>1 DEF proxyVars, LoopTypeOK, Serving, TypeOK
    <3> QED
      BY <3>2, <3>3, <3>4 DEF TypeOK
  <2> QED
    BY <2>1, <2>2
<1> QED
  BY <1>1, <1>2, PTL DEF Spec

-----------------------------------------------------------------------------
(* The BLE link and the session it belongs to.                             *)

\* OwnedLink is not inductive: that a link found closing by the next client has no
\* characteristic to write to, and that loop() accepts only with no session open,
\* is what keeps a frame off the link of another client.
LinkInv ==
  /\ OwnedLink
  /\ pc = "accept" => ~ble_open_
  /\ pc = "connect" => ble_open_
  /\ pc = "connect" /\ link # "down" => linkFor = client_
  /\ write_char_ => ble_open_
  /\ write_char_ /\ link # "down" => linkFor = client_

\* A step of connect_mower() opens and uses the link for the client it is called for.
LEMMA ConnectStepLink ==
  ASSUME LinkInv, TypeOK, Connecting
  PROVE  LinkInv'
<1> USE DEF LinkInv, OwnedLink, proxyVars
<1>1. pc = "connect" /\ ble_open_ /\ pc' \in {"top", "connect"}
      /\ UNCHANGED <<client_, ble_open_>> /\ ConnectStep(client_)
  BY DEF Connecting
<1>2. CASE ScanHit \/ ScanMiss
  BY <1>1, <1>2 DEF ScanHit, ScanMiss
<1>3. CASE GattConnected(client_)
  BY <1>1, <1>3 DEF GattConnected
<1>4. CASE GattConnectFailed
  BY <1>1, <1>4 DEF GattConnectFailed
<1>5. CASE Discovered
  BY <1>1, <1>5 DEF Discovered
<1>6. CASE DiscoverFailed
  BY <1>1, <1>6 DEF DiscoverFailed, Terminate
<1> QED
  BY <1>1, <1>2, <1>3, <1>4, <1>5, <1>6 DEF ConnectStep

\* Every step keeps the link to its session.
LEMMA LinkStep ==
  ASSUME LinkInv, TypeOK, [Next]_vars
  PROVE  LinkInv'
<1> USE DEF LinkInv, OwnedLink
<1>0. ASSUME UNCHANGED <<bleVars, client_, ble_open_>>,
             pc' \notin {"accept", "connect"} \/ pc' = pc
      PROVE  LinkInv'
  BY <1>0 DEF bleVars
<1>1. CASE on_client_disconnected_
  BY <1>1 DEF on_client_disconnected_, disconnect_mower, Terminate
<1>2. CASE on_client_connected_
  BY <1>2 DEF on_client_connected_, connect_mower, is_connected, bleVars
<1>3. CASE Connecting
  BY <1>3, ConnectStepLink
<1>4. CASE ConnectFailed
  BY <1>4 DEF ConnectFailed, disconnect_mower, Terminate
<1>5. CASE AcceptNobody \/ IdleStop \/ Poll \/ NothingToRead \/ ReadHeader
  BY <1>0, <1>5 DEF AcceptNobody, IdleStop, Poll, NothingToRead, ReadHeader, proxyVars
<1>6. CASE ReadData \/ WriteLinkDown \/ WriteAccepted \/ WriteRefused \/ DrainNote \/ Drained
  BY <1>0, <1>6 DEF ReadData, WriteLinkDown, WriteAccepted, WriteRefused, DrainNote, Drained,
                    proxyVars
<1>7. CASE SeeClose \/ HostNotify \/ HostPush \/ Tick
  BY <1>0, <1>7 DEF SeeClose, HostNotify, HostPush, Tick, proxyVars
<1>8. CASE HostLinkDown
  BY <1>8 DEF HostLinkDown, LinkDown, proxyVars
<1>9. CASE Panic
  BY <1>9 DEF Panic, BleReboot
<1>10. CASE \E c \in Conns : OpenConnection(c) \/ Send(c) \/ Leave(c)
  BY <1>0, <1>10 DEF OpenConnection, Send, Leave, proxyVars
<1>11. CASE UNCHANGED vars
  BY <1>0, <1>11 DEF vars, proxyVars
<1> QED
  BY <1>1, <1>2, <1>3, <1>4, <1>5, <1>6, <1>7, <1>8, <1>9, <1>10, <1>11 DEF Next, LoopTask

\* The link facts hold from the start and in every step.
LEMMA LinkInvariant == Spec => []LinkInv
<1>1. Init => LinkInv
  BY DEF Init, BleInit, LinkInv, OwnedLink
<1>2. LinkInv /\ TypeOK /\ [Next]_vars => LinkInv'
  BY LinkStep
<1> QED
  BY <1>1, <1>2, TypeCorrect, PTL DEF Spec

\* No BLE link is up that the session of the present client does not own: every way
\* out of a session (on_client_disconnected_(), a failed connect, a reboot) ends it.
THEOREM LinkIsOwned == Spec => []OwnedLink
<1>1. LinkInv => OwnedLink
  BY DEF LinkInv
<1> QED
  BY <1>1, LinkInvariant, PTL

\* No frame is written over a link opened for another client, not even when
\* connect_mower() returned early over a link that was still closing.
THEOREM WritesStayOnOwnLink == Spec => WritesOnOwnLink
<1> DEFINE OnOwnLink == rx_state_ = "WRITE_PENDING" /\ taken' # taken
                          => link # "down" /\ linkFor = client_
<1>1. LinkInv /\ [Next]_vars => [OnOwnLink]_vars
  <2> SUFFICES ASSUME LinkInv, Next, rx_state_ = "WRITE_PENDING", taken' # taken
               PROVE  link # "down" /\ linkFor = client_
    OBVIOUS
  <2>1. CASE WriteAccepted
    BY <2>1 DEF WriteAccepted, CanWrite, is_connected, LinkInv
  <2>2. CASE ReadHeader
    BY <2>2 DEF ReadHeader
  <2>3. CASE \/ on_client_disconnected_ \/ AcceptNobody \/ on_client_connected_ \/ Connecting
             \/ ConnectFailed \/ IdleStop \/ Poll \/ NothingToRead
    BY <2>3 DEF on_client_disconnected_, AcceptNobody, on_client_connected_, Connecting,
                ConnectFailed, IdleStop, Poll, NothingToRead
  <2>4. CASE ReadData \/ WriteLinkDown \/ WriteRefused \/ DrainNote \/ Drained
    BY <2>4 DEF ReadData, WriteLinkDown, WriteRefused, DrainNote, Drained
  <2>5. CASE SeeClose \/ HostNotify \/ HostPush \/ HostLinkDown \/ Tick \/ Panic
    BY <2>5 DEF SeeClose, HostNotify, HostPush, HostLinkDown, Tick, Panic
  <2>6. CASE \E c \in Conns : OpenConnection(c) \/ Send(c) \/ Leave(c)
    BY <2>6 DEF OpenConnection, Send, Leave
  <2> QED
    BY <2>1, <2>2, <2>3, <2>4, <2>5, <2>6 DEF Next, LoopTask
<1> QED
  BY <1>1, LinkInvariant, PTL DEF Spec, WritesOnOwnLink

-----------------------------------------------------------------------------
(* The connections.                                                        *)

\* One connection is active, the backlog holds the waiting ones once each, a socket
\* that is stopped has nothing more to read, and only the frame of a connected
\* client is ever about to be written.
ConnInv ==
  /\ \A c \in Conns : conn[c] = "active" => c = client_
  /\ client_ # None => conn[client_] \notin {"new", "waiting"}
  /\ pc = "accept" => ~Connected
  /\ pc = "connect" => Connected
  /\ \A i \in 1 .. Len(backlog) : conn[backlog[i]] = "waiting"
  /\ \A i, j \in 1 .. Len(backlog) : i # j => backlog[i] # backlog[j]
  /\ \A c \in Conns : conn[c] \in {"closed", "refused"} => wire[c] = <<>>
  /\ pc = "poll" /\ rx_state_ = "WRITE_PENDING" => Connected

\* client_.stop() keeps the connections in order.
LEMMA StopConn ==
  ASSUME TypeOK, ConnInv, NEW why \in {"closed", "refused"}, Stop(why), client_ \in Conns,
         Connected, UNCHANGED client_, pc' \notin {"accept", "connect"},
         pc' # "poll" \/ rx_state_' # "WRITE_PENDING"
  PROVE  ConnInv'
<1> USE DEF TypeOK, NetTypeOK, ConnInv, Connected
<1>1. conn' = [conn EXCEPT ![client_] = why] /\ backlog' = backlog
      /\ wire' = [wire EXCEPT ![client_] = <<>>]
  BY DEF Stop
<1>2. \A c \in Conns : conn'[c] = IF c = client_ THEN why ELSE conn[c]
  BY <1>1
<1>3. \A c \in Conns : wire'[c] = IF c = client_ THEN <<>> ELSE wire[c]
  BY <1>1
<1>4. \A i \in 1 .. Len(backlog) : backlog[i] \in Conns /\ backlog[i] # client_
  BY ElementOfSeq
<1> QED
  BY <1>1, <1>2, <1>3, <1>4

\* Every step keeps the connections in order.
LEMMA ConnStep ==
  ASSUME TypeOK, Serving, ConnInv, [Next]_vars
  PROVE  ConnInv'
<1> USE DEF netVars, proxyVars, rxVars
<1>0. ASSUME UNCHANGED <<conn, wire, backlog, client_>>,
             pc' # "accept" \/ ~Connected,
             pc' # "connect" \/ Connected,
             pc' # "poll" \/ rx_state_' # "WRITE_PENDING" \/ Connected
      PROVE  ConnInv'
  BY <1>0 DEF ConnInv, Connected
<1>u. ASSUME UNCHANGED <<conn, wire, backlog, client_, pc, rx_state_>> PROVE ConnInv'
  BY <1>u DEF ConnInv, Connected
<1>n. client_ # None => client_ \in Conns
  BY DEF TypeOK, LoopTypeOK
<1>1. CASE on_client_disconnected_ \/ AcceptNobody
  BY <1>0, <1>1 DEF on_client_disconnected_, AcceptNobody
<1>2. CASE on_client_connected_
  <2> DEFINE h == Head(backlog)
  <2>1. ~Connected /\ backlog # <<>>
    BY <1>2 DEF on_client_connected_, ConnInv
  <2>2. /\ client_' = h /\ backlog' = Tail(backlog) /\ wire' = wire
        /\ conn' = [conn EXCEPT ![h] = "active"]
        /\ pc' \in {"top", "connect"}
    BY <1>2 DEF on_client_connected_
  <2>3. h \in Conns /\ h = backlog[1] /\ conn[h] = "waiting" /\ 1 \in 1 .. Len(backlog)
    BY <2>1, HeadTailProperties, EmptySeq DEF ConnInv, TypeOK, NetTypeOK
  <2>4. \A c \in Conns : conn'[c] = IF c = h THEN "active" ELSE conn[c]
    BY <2>2 DEF TypeOK, NetTypeOK
  <2>5. \A i \in 1 .. Len(backlog') :
          i + 1 \in 1 .. Len(backlog) /\ backlog'[i] = backlog[i + 1]
    BY <2>1, <2>2, HeadTailProperties DEF TypeOK, NetTypeOK
  <2>6. \A i \in 1 .. Len(backlog') : conn'[backlog'[i]] = "waiting"
    <3> SUFFICES ASSUME NEW i \in 1 .. Len(backlog') PROVE conn'[backlog'[i]] = "waiting"
      OBVIOUS
    <3>1. i + 1 \in 1 .. Len(backlog) /\ i + 1 # 1 /\ backlog'[i] = backlog[i + 1]
      BY <2>5
    <3>2. backlog[i + 1] # h /\ conn[backlog[i + 1]] = "waiting"
      BY <2>3, <3>1 DEF ConnInv
    <3>3. backlog[i + 1] \in Conns
      BY <3>1, ElementOfSeq DEF TypeOK, NetTypeOK
    <3> QED
      BY <2>4, <3>1, <3>2, <3>3
  <2>7. \A i, j \in 1 .. Len(backlog') : i # j => backlog'[i] # backlog'[j]
    BY <2>5 DEF ConnInv
  <2>8. \A c \in Conns : conn'[c] = "active" => c = h
    BY <2>1, <2>4, BleAssumption DEF ConnInv, Connected
  <2>9. \A c \in Conns : conn'[c] \in {"closed", "refused"} => wire'[c] = <<>>
    BY <2>2, <2>4 DEF ConnInv
  <2> QED
    BY <2>2, <2>3, <2>4, <2>6, <2>7, <2>8, <2>9, BleAssumption DEF ConnInv, Connected
<1>3. CASE Connecting
  BY <1>0, <1>3 DEF Connecting, ConnInv
<1>4. CASE ConnectFailed
  <2>1. Connected /\ client_ \in Conns
    BY <1>4, <1>n DEF ConnectFailed, ConnInv, Connected
  <2>2. Stop("refused") /\ UNCHANGED client_ /\ pc' = "top"
    BY <1>4 DEF ConnectFailed
  <2> QED
    BY <2>1, <2>2, StopConn
<1>5. CASE IdleStop
  <2>1. Stop("closed") /\ Connected /\ client_ \in Conns /\ UNCHANGED client_ /\ pc' = "top"
    BY <1>5, <1>n DEF IdleStop, Connected
  <2> QED
    BY <2>1, StopConn
<1>6. CASE WriteLinkDown
  <2>1. Connected /\ client_ \in Conns
    BY <1>6, <1>n DEF WriteLinkDown, Polling, ConnInv, Connected
  <2> QED
    BY <1>6, <2>1, StopConn DEF WriteLinkDown
<1>7. CASE SeeClose
  <2>1. Stop("closed") /\ Connected /\ client_ \in Conns
    BY <1>7, <1>n DEF SeeClose, Connected
  <2>2. /\ UNCHANGED client_ /\ pc' \notin {"accept", "connect"}
        /\ pc' # "poll" \/ rx_state_' # "WRITE_PENDING"
    BY <1>7 DEF SeeClose
  <2> QED
    BY <2>1, <2>2, StopConn
<1>8. CASE Poll \/ NothingToRead \/ WriteRefused \/ DrainNote \/ Drained
  BY <1>0, <1>8 DEF Poll, NothingToRead, WriteRefused, DrainNote, Drained
<1>9. CASE ReadHeader
  <2>1. client_ \in Conns /\ Len(wire[client_]) >= 2
    BY <1>9 DEF ReadHeader, Polling, Serving, Unread
  <2>2. conn[client_] = "active"
    BY <2>1, EmptySeq, BleAssumption DEF ConnInv, TypeOK, NetTypeOK
  <2>3. CASE conn' # conn
    <3>1. Stop("closed") /\ UNCHANGED client_ /\ pc' = "drain"
      BY <1>9, <2>3 DEF ReadHeader, Stop
    <3> QED
      BY <2>1, <2>2, <3>1, BleAssumption, StopConn DEF Connected
  <2>4. CASE conn' = conn
    <3>0. conn' # [conn EXCEPT ![client_] = "closed"]
      BY <2>1, <2>2, <2>4 DEF TypeOK, NetTypeOK
    <3>1. /\ UNCHANGED <<backlog, client_>> /\ pc' = "poll"
          /\ rx_state_' # "WRITE_PENDING"
          /\ wire' = [wire EXCEPT ![client_] = SubSeq(@, 3, Len(@))]
      BY <1>9, <3>0 DEF ReadHeader, Polling
    <3> QED
      BY <2>1, <2>2, <2>4, <3>1 DEF ConnInv, Connected, TypeOK, NetTypeOK
  <2> QED
    BY <2>3, <2>4
<1>10. CASE ReadData
  <2>1. client_ \in Conns /\ wire[client_] # <<>>
    BY <1>10, EmptySeq DEF ReadData, Polling, Serving, Unread
  <2>2. conn[client_] = "active" /\ Connected
    BY <2>1, BleAssumption DEF ConnInv, Connected, TypeOK, NetTypeOK
  <2>3. /\ UNCHANGED <<conn, backlog, client_>> /\ pc' = "poll"
        /\ \E got \in 1 .. Len(Unread) :
             wire' = [wire EXCEPT ![client_] = SubSeq(@, got + 1, Len(@))]
    BY <1>10 DEF ReadData, Polling
  <2> QED
    BY <2>1, <2>2, <2>3 DEF ConnInv, Connected, TypeOK, NetTypeOK
<1>11. CASE WriteAccepted
  BY <1>0, <1>11 DEF WriteAccepted, Polling
<1>12. CASE HostNotify \/ HostPush \/ HostLinkDown \/ Tick
  BY <1>u, <1>12 DEF HostNotify, HostPush, HostLinkDown, Tick
<1>13. CASE Panic
  BY <1>13 DEF Panic, ConnInv, Connected, TypeOK, NetTypeOK
<1>14. ASSUME NEW c \in Conns, OpenConnection(c) PROVE ConnInv'
  BY <1>14, <1>n, AppendProperties DEF OpenConnection, ConnInv, TypeOK, NetTypeOK, Connected
<1>15. ASSUME NEW c \in Conns, Send(c) PROVE ConnInv'
  BY <1>15 DEF Send, ConnInv, TypeOK, NetTypeOK, Connected
<1>16. ASSUME NEW c \in Conns, Leave(c) PROVE ConnInv'
  BY <1>u, <1>16 DEF Leave
<1>17. CASE UNCHANGED vars
  BY <1>u, <1>17 DEF vars
<1> QED
  BY <1>1, <1>2, <1>3, <1>4, <1>5, <1>6, <1>7, <1>8, <1>9, <1>10, <1>11, <1>12, <1>13, <1>14,
     <1>15, <1>16, <1>17 DEF Next, LoopTask

-----------------------------------------------------------------------------
(* The bytes.                                                              *)

\* Where every byte a client sent is: nothing is read of a client that waits, what
\* was read of the one that is served is with the mower or held, and what the
\* mower got of any client is the beginning of what it sent.
ByteInv ==
  /\ \A c \in Conns : conn[c] = "new" => sent[c] = <<>>
  /\ \A c \in Conns : conn[c] \in {"new", "waiting"} => taken[c] = <<>> /\ wire[c] = sent[c]
  /\ \A c \in Conns : \E rest \in Seq(Byte) : sent[c] = taken[c] \o rest
  /\ rx_state_ = "WRITE_PENDING" => Len(rx_buf_) = rx_len_
  /\ NothingLost

\* What is held is bytes.
LEMMA HeldType ==
  ASSUME RxTypeOK
  PROVE  Held \in Seq(Byte)
<1>1. Header(rx_len_) \o rx_buf_ \in Seq(Byte)
  BY HeaderType, ConcatProperties DEF RxTypeOK
<1> QED
  BY <1>1, EmptySeq DEF Held

\* A socket stopped loses only what nobody will be asked for.
LEMMA StopBytes ==
  ASSUME TypeOK, ConnInv, ByteInv, NEW why \in {"closed", "refused"}, Stop(why), Connected,
         UNCHANGED <<client_, taken>>,
         UNCHANGED <<rx_state_, rx_len_, rx_buf_>> \/ rx_state_' # "WRITE_PENDING"
  PROVE  ByteInv'
<1> USE DEF TypeOK, NetTypeOK
<1>1. client_ \in Conns
  BY DEF LoopTypeOK, Connected
<1>2. \A c \in Conns : conn'[c] = IF c = client_ THEN why ELSE conn[c]
  BY DEF Stop
<1>3. \A c \in Conns : c # client_ => wire'[c] = wire[c]
  BY DEF Stop
<1>4. sent' = sent
  BY DEF Stop
<1>5. ~Connected'
  BY <1>1, <1>2 DEF Connected
<1> QED
  BY <1>2, <1>3, <1>4, <1>5 DEF ByteInv, NothingLost

\* Reading a header keeps every byte in its place.
LEMMA ReadHeaderBytes ==
  ASSUME TypeOK, Serving, ConnInv, ByteInv, ReadHeader
  PROVE  ByteInv'
<1> USE DEF TypeOK, NetTypeOK
<1> DEFINE w == wire[client_]
           t == taken[client_]
           rest == SubSeq(w, 3, Len(w))
<1>1. client_ \in Conns /\ w \in Seq(Byte) /\ t \in Seq(Byte) /\ Len(w) \in Nat /\ Len(w) >= 2
  BY DEF ReadHeader, Polling, Serving, Unread
<1>2. conn[client_] = "active" /\ Connected
  BY <1>1, EmptySeq, BleAssumption DEF ConnInv, Connected
<1>3. rx_state_ = "WAIT_LEN" /\ Held = <<>> /\ rx_len_' = HeaderLen(w)
  BY DEF ReadHeader, Held, Unread
<1>4. rest \in Seq(Byte) /\ Header(HeaderLen(w)) \in Seq(Byte) /\ w = Header(HeaderLen(w)) \o rest
  <2>1. 2 \in 0 .. Len(w) /\ 2 + 1 = 3
    BY <1>1
  <2>2. SubSeq(w, 1, 2) \in Seq(Byte) /\ rest \in Seq(Byte) /\ w = SubSeq(w, 1, 2) \o rest
        /\ Len(SubSeq(w, 1, 2)) = 2
    BY <1>1, <2>1, SplitAt
  <2>3. SubSeq(w, 1, 2) = <<w[1], w[2]>>
    <3>1. \A i \in 1 .. 2 : w[i] \in Byte
      BY <1>1, ElementOfSeq
    <3>2. \A i \in 1 .. 2 - 1 + 1 : SubSeq(w, 1, 2)[i] = w[1 + i - 1]
      BY <3>1, SubSeqProperties
    <3>3. SubSeq(w, 1, 2)[1] = w[1] /\ SubSeq(w, 1, 2)[2] = w[2]
      BY <3>2
    <3>4. <<w[1], w[2]>> \in Seq(Byte) /\ Len(<<w[1], w[2]>>) = 2
      BY <3>1
    <3>5. \A i \in 1 .. 2 : SubSeq(w, 1, 2)[i] = <<w[1], w[2]>>[i]
      BY <3>3
    <3>6. Len(SubSeq(w, 1, 2)) = Len(<<w[1], w[2]>>)
      BY <2>2, <3>4
    <3>7. \A i \in 1 .. Len(SubSeq(w, 1, 2)) : SubSeq(w, 1, 2)[i] = <<w[1], w[2]>>[i]
      BY <2>2, <3>5
    <3> QED
      BY <2>2, <3>4, <3>6, <3>7, SeqEqual, Zenon
  <2> QED
    BY <1>1, <2>2, <2>3, HeaderLenType
<1>5. sent[client_] = t \o w
  <2>1. sent[client_] = (t \o <<>>) \o w
    BY <1>2, <1>3 DEF ByteInv, NothingLost
  <2> QED
    BY <1>1, <2>1, ConcatEmptySeq
<1>6. /\ sent' = sent /\ client_' = client_ /\ rx_buf_' = <<>>
      /\ rx_state_' # "WRITE_PENDING"
  BY <1>3 DEF ReadHeader
<1>7. CASE rx_len_' = 0
  <2>1. /\ conn' = conn /\ rx_state_' = "WAIT_LEN"
        /\ wire' = [wire EXCEPT ![client_] = rest]
        /\ taken' = [taken EXCEPT ![client_] = t \o Encode(<<>>)]
    <3>1. ~TooLarge(0)
      <4>1. MaxFrameLen \in Int /\ 0 <= MaxFrameLen
        BY ProxyAssumption, U16Nat
      <4> QED
        BY <4>1 DEF TooLarge
    <3> QED
      BY <1>3, <1>7, <3>1 DEF ReadHeader
  <2>2. Encode(<<>>) = Header(HeaderLen(w)) /\ Encode(<<>>) \in Seq(Byte)
    BY <1>3, <1>4, <1>7, EmptySeq, ConcatEmptySeq, FrameBytes DEF Encode
  <2>3. sent[client_] = (t \o Encode(<<>>)) \o rest /\ t \o Encode(<<>>) \in Seq(Byte)
    <3>1. w = Encode(<<>>) \o rest
      BY <1>4, <2>2
    <3>2. t \o (Encode(<<>>) \o rest) = (t \o Encode(<<>>)) \o rest
      BY <1>1, <1>4, <2>2, Regroup, Zenon
    <3>3. t \o Encode(<<>>) \in Seq(Byte)
      BY <1>1, <2>2, ConcatProperties
    <3> QED
      BY <1>5, <3>1, <3>2, <3>3
  <2>4. taken'[client_] = t \o Encode(<<>>) /\ wire'[client_] = rest
        /\ \A c \in Conns : c # client_ => taken'[c] = taken[c] /\ wire'[c] = wire[c]
    BY <1>1, <2>1
  <2>5. NothingLost'
    <3>1. Held' = <<>>
      BY <2>1 DEF Held
    <3>2. (taken[client_] \o Held \o wire[client_])' = (t \o Encode(<<>>)) \o rest
      BY <1>6, <2>3, <2>4, <3>1, ConcatEmptySeq
    <3> QED
      BY <1>6, <2>3, <3>2 DEF NothingLost
  <2> QED
    BY <1>1, <1>2, <1>4, <1>6, <2>1, <2>3, <2>4, <2>5 DEF ByteInv
<1>8. CASE rx_len_' # 0 /\ TooLarge(rx_len_')
  <2>1. Stop("closed") /\ UNCHANGED <<client_, taken>>
    BY <1>8 DEF ReadHeader, Stop
  <2> QED
    BY <1>2, <1>6, <2>1, StopBytes
<1>9. CASE rx_len_' # 0 /\ ~TooLarge(rx_len_')
  <2>1. /\ conn' = conn /\ rx_state_' = "READ_DATA" /\ taken' = taken
        /\ wire' = [wire EXCEPT ![client_] = rest]
    BY <1>9 DEF ReadHeader, Unread
  <2>2. wire'[client_] = rest /\ \A c \in Conns : c # client_ => wire'[c] = wire[c]
    BY <1>1, <2>1
  <2>3. Held' = Header(HeaderLen(w))
    <3>1. Held' = Header(HeaderLen(w)) \o <<>>
      BY <1>3, <1>6, <2>1 DEF Held
    <3> QED
      BY <1>4, <3>1, ConcatEmptySeq
  <2>4. sent[client_] = (t \o Header(HeaderLen(w))) \o rest
    <3>1. t \o (Header(HeaderLen(w)) \o rest) = (t \o Header(HeaderLen(w))) \o rest
      BY <1>1, <1>4, Regroup, Zenon
    <3> QED
      BY <1>4, <1>5, <3>1, Zenon
  <2>5. NothingLost'
    BY <1>6, <2>1, <2>2, <2>3, <2>4 DEF NothingLost
  <2> QED
    BY <1>2, <1>6, <2>1, <2>2, <2>5 DEF ByteInv
<1> QED
  BY <1>7, <1>8, <1>9

\* Reading some of the body keeps every byte in its place.
LEMMA ReadDataBytes ==
  ASSUME TypeOK, Serving, ConnInv, ByteInv, ReadData
  PROVE  ByteInv'
<1> USE DEF TypeOK, NetTypeOK
<1> DEFINE w == wire[client_]
           t == taken[client_]
           h == Header(rx_len_)
<1>1. client_ \in Conns /\ w \in Seq(Byte) /\ t \in Seq(Byte) /\ Len(w) \in Nat
  BY DEF ReadData, Polling, Serving
<1>2. PICK got \in 1 .. Len(w) :
        /\ rx_buf_' = rx_buf_ \o SubSeq(w, 1, got)
        /\ wire' = [wire EXCEPT ![client_] = SubSeq(@, got + 1, Len(@))]
  BY DEF ReadData, Unread
<1> DEFINE read == SubSeq(w, 1, got)
           rest == SubSeq(w, got + 1, Len(w))
<1>3. read \in Seq(Byte) /\ rest \in Seq(Byte) /\ w = read \o rest
  BY <1>1, <1>2, SplitAt
<1>4. conn[client_] = "active" /\ Connected
  BY <1>1, <1>2, EmptySeq, BleAssumption DEF ConnInv, Connected
<1>5. /\ UNCHANGED <<conn, sent, taken, client_, rx_len_>>
      /\ rx_state_ = "READ_DATA" /\ rx_state_' # "WAIT_LEN"
      /\ rx_state_' = "WRITE_PENDING" => Len(rx_buf_') = rx_len_
  BY DEF ReadData, proxyVars
<1>6. h \in Seq(Byte) /\ rx_buf_ \in Seq(Byte)
  BY HeaderType DEF RxTypeOK
<1>7. sent[client_] = (t \o (h \o rx_buf_)) \o w
  BY <1>4, <1>5 DEF ByteInv, NothingLost, Held
<1>8. sent[client_] = (t \o (h \o (rx_buf_ \o read))) \o rest
  <2>1. h \o rx_buf_ \in Seq(Byte) /\ t \o (h \o rx_buf_) \in Seq(Byte)
    BY <1>1, <1>6, ConcatProperties
  <2>2. (t \o (h \o rx_buf_)) \o (read \o rest) = ((t \o (h \o rx_buf_)) \o read) \o rest
    BY <1>3, <2>1, Regroup, Zenon
  <2>3. (t \o (h \o rx_buf_)) \o read = t \o ((h \o rx_buf_) \o read)
    BY <1>1, <1>3, <1>6, <2>1, Regroup, Zenon
  <2>4. (h \o rx_buf_) \o read = h \o (rx_buf_ \o read)
    BY <1>3, <1>6, Regroup, Zenon
  <2> QED
    BY <1>3, <1>7, <2>2, <2>3, <2>4
<1>9. wire'[client_] = rest /\ \A c \in Conns : c # client_ => wire'[c] = wire[c]
  BY <1>1, <1>2
<1>10. NothingLost'
  <2>1. Held' = h \o (rx_buf_ \o read)
    BY <1>2, <1>5 DEF Held
  <2> QED
    BY <1>5, <1>8, <1>9, <2>1 DEF NothingLost
<1> QED
  BY <1>4, <1>5, <1>9, <1>10 DEF ByteInv

\* A frame written goes from what is held to what the mower has.
LEMMA WriteBytes ==
  ASSUME TypeOK, Serving, ConnInv, ByteInv, WriteAccepted
  PROVE  ByteInv'
<1> USE DEF TypeOK, NetTypeOK
<1> DEFINE w == wire[client_]
           t == taken[client_]
           e == Encode(rx_buf_)
<1>1. client_ \in Conns /\ w \in Seq(Byte) /\ t \in Seq(Byte)
  BY DEF WriteAccepted, Polling, Serving
<1>2. Connected /\ conn[client_] = "active" /\ Len(rx_buf_) = rx_len_
  BY DEF WriteAccepted, Polling, ConnInv, ByteInv, Connected
<1>3. Held = e /\ e \in Seq(Byte)
  BY <1>2, HeldType DEF WriteAccepted, Held, Encode
<1>4. sent[client_] = (t \o e) \o w
  BY <1>2, <1>3 DEF ByteInv, NothingLost
<1>5. /\ UNCHANGED <<conn, sent, wire, client_>>
      /\ taken' = [taken EXCEPT ![client_] = t \o e]
      /\ rx_state_' = "WAIT_LEN"
  BY DEF WriteAccepted, netVars, proxyVars
<1>6. taken'[client_] = t \o e /\ \A c \in Conns : c # client_ => taken'[c] = taken[c]
  BY <1>1, <1>5
<1>7. NothingLost'
  <2>1. Held' = <<>>
    BY <1>5 DEF Held
  <2>2. (t \o e) \o <<>> = t \o e
    BY <1>1, <1>3, ConcatProperties, ConcatEmptySeq
  <2> QED
    BY <1>4, <1>5, <1>6, <2>1, <2>2 DEF NothingLost
<1> QED
  BY <1>1, <1>2, <1>4, <1>5, <1>6, <1>7 DEF ByteInv

\* What a client sends goes to the end of what it has sent and of what is unread.
LEMMA SendBytes ==
  ASSUME TypeOK, ConnInv, ByteInv, NEW c \in Conns, Send(c)
  PROVE  ByteInv'
<1> USE DEF TypeOK, NetTypeOK
<1>1. PICK f \in Frames : /\ sent' = [sent EXCEPT ![c] = @ \o Encode(f)]
                          /\ wire' = [wire EXCEPT ![c] = @ \o Encode(f)]
  BY DEF Send
<1> DEFINE e == Encode(f)
<1>2. e \in Seq(Byte) /\ sent[c] \in Seq(Byte) /\ wire[c] \in Seq(Byte) /\ taken[c] \in Seq(Byte)
  BY FrameBytes
<1>3. /\ sent'[c] = sent[c] \o e /\ wire'[c] = wire[c] \o e
      /\ \A d \in Conns : d # c => sent'[d] = sent[d] /\ wire'[d] = wire[d]
  BY <1>1
<1>4. /\ UNCHANGED <<conn, taken, client_, rx_state_, rx_len_, rx_buf_>>
      /\ conn[c] \in {"waiting", "active"}
  BY DEF Send, rxVars, proxyVars
<1>5. \A d \in Conns : \E rest \in Seq(Byte) : sent'[d] = taken'[d] \o rest
  <2>1. PICK rest \in Seq(Byte) : sent[c] = taken[c] \o rest
    BY DEF ByteInv
  <2>2. rest \o e \in Seq(Byte)
    BY <1>2, ConcatProperties
  <2>3. sent'[c] = taken[c] \o (rest \o e)
    <3>1. (taken[c] \o rest) \o e = taken[c] \o (rest \o e)
      BY <1>2, Regroup, Zenon
    <3> QED
      BY <1>3, <2>1, <3>1
  <2> QED
    BY <1>3, <1>4, <2>2, <2>3 DEF ByteInv
<1>6. NothingLost'
  <2>0. Held' = Held /\ Held \in Seq(Byte)
    BY <1>4, HeldType DEF Held
  <2>1. CASE c = client_ /\ Connected
    <3>1. taken[c] \o Held \in Seq(Byte)
      BY <1>2, <2>0, ConcatProperties
    <3>2. ((taken[c] \o Held) \o wire[c]) \o e = (taken[c] \o Held) \o (wire[c] \o e)
      BY <1>2, <3>1, Regroup, Zenon
    <3>3. sent[c] = (taken[c] \o Held) \o wire[c]
      BY <2>1 DEF ByteInv, NothingLost
    <3> QED
      BY <1>3, <1>4, <2>0, <2>1, <3>2, <3>3 DEF NothingLost
  <2>2. CASE ~Connected
    BY <1>4, <2>2 DEF NothingLost, Connected
  <2>3. CASE c # client_ /\ Connected
    <3>1. client_ \in Conns
      BY <2>3 DEF LoopTypeOK, Connected
    <3> QED
      BY <1>3, <1>4, <2>0, <2>3, <3>1 DEF ByteInv, NothingLost
  <2> QED
    BY <2>1, <2>2, <2>3
<1> QED
  BY <1>3, <1>4, <1>5, <1>6 DEF ByteInv

\* A client accepted starts with everything unread and nothing held.
LEMMA AcceptBytes ==
  ASSUME TypeOK, ConnInv, ByteInv, on_client_connected_
  PROVE  ByteInv'
<1> USE DEF TypeOK, NetTypeOK
<1> DEFINE h == Head(backlog)
<1>1. /\ client_' = h /\ conn' = [conn EXCEPT ![h] = "active"]
      /\ UNCHANGED <<wire, sent, taken>>
      /\ rx_state_' = "WAIT_LEN"
  BY DEF on_client_connected_, FreshRx
<1>2. h \in Conns /\ conn[h] = "waiting"
  BY HeadTailProperties, EmptySeq DEF on_client_connected_, ConnInv
<1>3. \A c \in Conns : conn'[c] = IF c = h THEN "active" ELSE conn[c]
  BY <1>1, <1>2
<1>4. NothingLost'
  <2>1. taken[h] = <<>> /\ wire[h] = sent[h] /\ sent[h] \in Seq(Byte)
    BY <1>2 DEF ByteInv
  <2>2. Held' = <<>>
    BY <1>1 DEF Held
  <2>3. (<<>> \o <<>>) \o sent[h] = sent[h]
    BY <2>1, EmptySeq, ConcatEmptySeq
  <2> QED
    BY <1>1, <2>1, <2>2, <2>3 DEF NothingLost
<1> QED
  BY <1>1, <1>3, <1>4 DEF ByteInv

\* Every step keeps every byte in its place.
LEMMA ByteStep ==
  ASSUME TypeOK, Serving, ConnInv, ByteInv, [Next]_vars
  PROVE  ByteInv'
<1> USE DEF netVars, proxyVars, rxVars
<1>u. ASSUME UNCHANGED <<conn, wire, sent, taken, client_, rx_state_, rx_len_, rx_buf_>>
      PROVE  ByteInv'
  BY <1>u DEF ByteInv, NothingLost, Held, Connected
<1>1. CASE \/ on_client_disconnected_ \/ AcceptNobody \/ Connecting \/ Poll \/ NothingToRead
           \/ WriteRefused \/ DrainNote \/ Drained
  BY <1>u, <1>1 DEF on_client_disconnected_, AcceptNobody, Connecting, Poll, NothingToRead,
                    WriteRefused, DrainNote, Drained
<1>2. CASE on_client_connected_
  BY <1>2, AcceptBytes
<1>3. CASE ConnectFailed
  BY <1>3, StopBytes DEF ConnectFailed, ConnInv
<1>4. CASE IdleStop
  BY <1>4, StopBytes DEF IdleStop
<1>5. CASE WriteLinkDown
  BY <1>5, StopBytes DEF WriteLinkDown, Polling, ConnInv
<1>6. CASE SeeClose
  BY <1>6, StopBytes DEF SeeClose
<1>7. CASE ReadHeader
  BY <1>7, ReadHeaderBytes
<1>8. CASE ReadData
  BY <1>8, ReadDataBytes
<1>9. CASE WriteAccepted
  BY <1>9, WriteBytes
<1>10. CASE HostNotify \/ HostPush \/ HostLinkDown \/ Tick
  BY <1>u, <1>10 DEF HostNotify, HostPush, HostLinkDown, Tick
<1>11. CASE Panic
  <2>1. /\ UNCHANGED <<sent, taken>> /\ rx_state_' = "WAIT_LEN" /\ client_' = None
        /\ \A c \in Conns : wire'[c] = <<>>
        /\ \A c \in Conns : conn'[c] \in {"new", "waiting"} => conn[c] = "new" /\ conn'[c] = "new"
    BY <1>11 DEF Panic, FreshRx, TypeOK, NetTypeOK
  <2> QED
    BY <2>1 DEF ByteInv, NothingLost, Connected
<1>12. ASSUME NEW c \in Conns, OpenConnection(c) PROVE ByteInv'
  <2>1. /\ UNCHANGED <<wire, sent, taken, client_, rx_state_, rx_len_, rx_buf_>>
        /\ conn[c] = "new" /\ conn' = [conn EXCEPT ![c] = "waiting"]
    BY <1>12 DEF OpenConnection
  <2>2. \A d \in Conns : conn'[d] = IF d = c THEN "waiting" ELSE conn[d]
    BY <2>1 DEF TypeOK, NetTypeOK
  <2>3. NothingLost'
    <3>1. Connected' => Connected
      BY <2>1, <2>2, BleAssumption DEF Connected, TypeOK, LoopTypeOK
    <3> QED
      BY <2>1, <3>1 DEF ByteInv, NothingLost, Held
  <2> QED
    BY <2>1, <2>2, <2>3 DEF ByteInv
<1>13. ASSUME NEW c \in Conns, Send(c) PROVE ByteInv'
  BY <1>13, SendBytes
<1>14. ASSUME NEW c \in Conns, Leave(c) PROVE ByteInv'
  BY <1>u, <1>14 DEF Leave
<1>15. CASE UNCHANGED vars
  BY <1>u, <1>15 DEF vars
<1> QED
  BY <1>1, <1>2, <1>3, <1>4, <1>5, <1>6, <1>7, <1>8, <1>9, <1>10, <1>11, <1>12, <1>13, <1>14,
     <1>15 DEF Next, LoopTask

\* The connections and the bytes are in order from the start and in every step.
LEMMA ByteInvariant == Spec => [](ConnInv /\ ByteInv)
<1>1. Init => ConnInv /\ ByteInv
  <2> SUFFICES ASSUME Init PROVE ConnInv /\ ByteInv
    OBVIOUS
  <2>1. ConnInv
    BY EmptySeq DEF Init, ConnInv, Connected
  <2>2. \A c \in Conns : \E rest \in Seq(Byte) : sent[c] = taken[c] \o rest
    BY EmptySeq, ConcatEmptySeq DEF Init
  <2> QED
    BY <2>1, <2>2 DEF Init, ByteInv, NothingLost, Connected
<1>2. TypeOK /\ Serving /\ ConnInv /\ ByteInv /\ [Next]_vars => ConnInv' /\ ByteInv'
  BY ConnStep, ByteStep
<1> QED
  BY <1>1, <1>2, TypeCorrect, PTL DEF Spec

\* While a client is connected, what it sent is what the mower has, then the frame
\* that is held, then what is still to be read: a refused write loses nothing and
\* a new session inherits nothing.
THEOREM NoByteIsLost == Spec => []NothingLost
<1>1. ByteInv => NothingLost
  BY DEF ByteInv
<1> QED
  BY <1>1, ByteInvariant, PTL

\* The mower gets a prefix of what each client sent, whatever the BLE stack refuses,
\* whenever links drop, clients vanish or the HC33 reboots.
THEOREM MowerGetsAPrefix == Spec => []LosslessInOrder
<1>1. TypeOK /\ ByteInv => LosslessInOrder
  <2> SUFFICES ASSUME TypeOK, ByteInv, NEW c \in Conns PROVE IsPrefix(taken[c], sent[c])
    BY DEF LosslessInOrder
  <2>1. PICK rest \in Seq(Byte) : sent[c] = taken[c] \o rest
    BY DEF ByteInv
  <2>2. taken[c] \in Seq(Byte)
    BY DEF TypeOK, NetTypeOK
  <2> QED
    BY <2>1, <2>2, PrefixOfConcat
<1> QED
  BY <1>1, TypeCorrect, ByteInvariant, PTL
=============================================================================
