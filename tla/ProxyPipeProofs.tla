--------------------------- MODULE ProxyPipeProofs ---------------------------
(***************************************************************************)
(* The notifications on their way back to the clients, and the pipe of     *)
(* frames that the HC33's proxy implements (FramePipe), for any clients,   *)
(* frames, timeouts and any number of notifications.                       *)
(***************************************************************************)
EXTENDS TcpProxyProofs, FiniteSetTheorems

-----------------------------------------------------------------------------
(* Notifications.                                                          *)

\* The notifications that have not been sent or dropped, the one that the
\* callback is about to push at the end: HostPush does not change it.
Outgoing == notify_queue_ \o cb

Rising(s) == \A i, j \in 1 .. Len(s) : i < j => s[i].n < s[j].n

\* NotifyOrder is not inductive: what is outgoing is in order too, and later than
\* what any client has.
OrderInv ==
  /\ Rising(Outgoing)
  /\ \A i \in 1 .. Len(Outgoing) : Outgoing[i].n <= noted
  /\ \A c \in Conns : \A i \in 1 .. Len(back[c]) :
       /\ back[c][i].note.n <= noted
       /\ \A j \in 1 .. Len(Outgoing) : back[c][i].note.n < Outgoing[j].n
  /\ NotifyOrder

\* A notification left of a session that is closed, and whose queue was cleared.
Left(m) == conn[m.from] = "closed" /\ (m.from # client_ \/ ~ble_open_)

FewLeft ==
  /\ \A i \in 1 .. Len(Outgoing) : Outgoing[i].from \in Conns
  /\ \A i, j \in 1 .. Len(Outgoing) : Left(Outgoing[i]) /\ Left(Outgoing[j]) => i = j

\* Neither is AtMostOneStale: the one may be in the callback still, and the mower
\* speaks only to a session that has the BLE link open, because a subscription ends
\* with the session's characteristic and a link with a characteristic is its own.
SessionInv ==
  /\ Len(cb) <= 1
  /\ Connected => ble_open_
  /\ subscribed => write_char_
  /\ link # "down" => linkFor \in Conns

StaleInv == SessionInv /\ FewLeft

\* t is s without its first k.
Dropped(s, t, k) ==
  /\ Len(t) = Len(s) - k
  /\ \A i \in 1 .. Len(t) : i + k \in 1 .. Len(s) /\ t[i] = s[i + k]

\* The queue, then the callback's.
LEMMA OutgoingShape ==
  ASSUME NoteTypeOK
  PROVE  /\ Outgoing \in Seq(Note)
         /\ Len(Outgoing) \in Nat /\ Len(notify_queue_) \in Nat /\ Len(cb) \in Nat
         /\ Len(Outgoing) = Len(notify_queue_) + Len(cb)
         /\ \A i \in 1 .. Len(notify_queue_) : Outgoing[i] = notify_queue_[i]
         /\ \A i \in 1 .. Len(cb) : Outgoing[Len(notify_queue_) + i] = cb[i]
<1>1. notify_queue_ \in Seq(Note) /\ cb \in Seq(Note)
  BY DEF NoteTypeOK
<1> QED
  BY <1>1, ConcatProperties, LenProperties DEF Outgoing

\* A callback that arrives adds to the end of what is outgoing.
LEMMA NotifyShape ==
  ASSUME TypeOK, HostNotify
  PROVE  /\ Len(Outgoing') = Len(Outgoing) + 1
         /\ \A i \in 1 .. Len(Outgoing) : Outgoing'[i] = Outgoing[i]
         /\ Outgoing'[Len(Outgoing) + 1] = [n |-> noted + 1, from |-> linkFor]
<1> DEFINE q == notify_queue_
           m == [n |-> noted + 1, from |-> linkFor]
<1>1. q \in Seq(Note) /\ m \in Note
  BY DEF TypeOK, NoteTypeOK, BleTypeOK, Note
<1>2. cb = <<>> /\ cb' = <<m>> /\ q' = q
  BY DEF HostNotify
<1>3. Outgoing = q
  BY <1>1, <1>2, ConcatEmptySeq DEF Outgoing
<1>4. Outgoing' = q \o <<m>>
  BY <1>2 DEF Outgoing
<1>5. q \o <<m>> = Append(q, m)
  BY <1>1, AppendIsConcat
<1> QED
  BY <1>1, <1>3, <1>4, <1>5, AppendProperties

\* What is drained is the first of what is outgoing.
LEMMA DrainShape ==
  ASSUME TypeOK, DrainNote
  PROVE  /\ 1 \in 1 .. Len(Outgoing)
         /\ Outgoing[1] = Head(notify_queue_)
         /\ Dropped(Outgoing, Outgoing', 1)
<1> DEFINE q == notify_queue_
<1>1. q \in Seq(Note) /\ cb \in Seq(Note) /\ q # <<>>
  BY DEF TypeOK, NoteTypeOK, DrainNote
<1>2. Tail(q) \in Seq(Note) /\ Len(q) \in Nat \ {0} /\ Len(Tail(q)) = Len(q) - 1
      /\ Head(q) = q[1] /\ \A i \in 1 .. Len(Tail(q)) : Tail(q)[i] = q[i + 1]
  BY <1>1, HeadTailProperties, EmptySeq
<1>3. Outgoing' = Tail(q) \o cb
  BY DEF DrainNote, Outgoing
<1>4. /\ Len(Outgoing) = Len(q) + Len(cb) /\ Len(cb) \in Nat
      /\ \A i \in 1 .. Len(q) : Outgoing[i] = q[i]
      /\ \A i \in 1 .. Len(cb) : Outgoing[Len(q) + i] = cb[i]
  BY OutgoingShape DEF TypeOK
<1>5. /\ Len(Outgoing') = Len(q) - 1 + Len(cb)
      /\ \A i \in 1 .. Len(Outgoing') :
           Outgoing'[i] = IF i <= Len(q) - 1 THEN Tail(q)[i] ELSE cb[i - (Len(q) - 1)]
  BY <1>1, <1>2, <1>3, ConcatProperties
<1>6. ASSUME NEW i \in 1 .. Len(Outgoing')
      PROVE  i + 1 \in 1 .. Len(Outgoing) /\ Outgoing'[i] = Outgoing[i + 1]
  <2>1. CASE i <= Len(q) - 1
    BY <1>2, <1>4, <1>5, <2>1
  <2>2. CASE ~(i <= Len(q) - 1)
    <3>1. i - (Len(q) - 1) \in 1 .. Len(cb)
      BY <1>2, <1>4, <1>5, <2>2
    <3>2. Outgoing[Len(q) + (i - (Len(q) - 1))] = cb[i - (Len(q) - 1)]
      BY <1>4, <3>1
    <3>3. Len(q) + (i - (Len(q) - 1)) = i + 1
      BY <1>2
    <3> QED
      BY <1>2, <1>4, <1>5, <2>2, <3>1, <3>2, <3>3
  <2> QED
    BY <2>1, <2>2
<1> QED
  BY <1>2, <1>4, <1>5, <1>6 DEF Dropped

\* A queue that is cleared leaves the callback's.
LEMMA ClearShape ==
  ASSUME TypeOK, notify_queue_' = <<>>, cb' = cb
  PROVE  Dropped(Outgoing, Outgoing', Len(notify_queue_)) /\ Outgoing' = cb
<1>1. cb \in Seq(Note)
  BY DEF TypeOK, NoteTypeOK
<1>2. Outgoing' = cb
  BY <1>1, ConcatEmptySeq DEF Outgoing
<1> QED
  BY <1>2, OutgoingShape DEF TypeOK, Dropped

\* Nothing is outgoing after a reboot.
LEMMA EmptyShape ==
  ASSUME NoteTypeOK, notify_queue_' = <<>>, cb' = <<>>
  PROVE  Outgoing' = <<>> /\ Dropped(Outgoing, Outgoing', Len(Outgoing))
<1>1. Outgoing' = <<>>
  BY ConcatEmptySeq, EmptySeq DEF Outgoing
<1> QED
  BY <1>1, OutgoingShape, EmptySeq DEF Dropped

\* A push moves the callback's to the queue, and what is outgoing stays.
LEMMA PushShape ==
  ASSUME TypeOK, HostPush
  PROVE  Outgoing' = Outgoing
<1>1. notify_queue_ \o cb \in Seq(Note)
  BY OutgoingShape DEF TypeOK, Outgoing
<1> QED
  BY <1>1, ConcatEmptySeq DEF HostPush, Outgoing

\* What is not changed is all there.
LEMMA SameShape ==
  ASSUME NoteTypeOK, Outgoing' = Outgoing
  PROVE  Dropped(Outgoing, Outgoing', 0)
BY OutgoingShape DEF Dropped

\* Notifications sent or dropped leave the rest in order.
LEMMA OrderKept ==
  ASSUME TypeOK, OrderInv, NEW k \in Nat, Dropped(Outgoing, Outgoing', k),
         UNCHANGED <<back, noted>>
  PROVE  OrderInv'
<1> USE DEF OrderInv, Dropped
<1>1. Len(Outgoing) \in Nat /\ Len(Outgoing') \in Int
  BY OutgoingShape DEF TypeOK
<1>2. Rising(Outgoing')
  BY <1>1 DEF Rising
<1> QED
  BY <1>1, <1>2 DEF NotifyOrder

\* The number of an outgoing notification, and of one that has been sent, is one.
LEMMA NoteNumbers ==
  ASSUME NoteTypeOK
  PROVE  /\ noted \in Nat
         /\ \A i \in 1 .. Len(Outgoing) : Outgoing[i].n \in Nat
         /\ \A c \in Conns : /\ Len(back[c]) \in Nat
                             /\ \A i \in 1 .. Len(back[c]) : back[c][i].note.n \in Nat
<1>1. \A i \in 1 .. Len(Outgoing) : Outgoing[i] \in Note
  BY OutgoingShape, ElementOfSeq
<1>2. \A c \in Conns : back[c] \in Seq([note : Note, whole : BOOLEAN])
  BY DEF NoteTypeOK
<1>3. \A c \in Conns : \A i \in 1 .. Len(back[c]) : back[c][i] \in [note : Note, whole : BOOLEAN]
  BY <1>2, ElementOfSeq
<1> QED
  BY <1>1, <1>2, <1>3, LenProperties DEF Note, NoteTypeOK

\* A notification is numbered after all before it.
LEMMA OrderNotify ==
  ASSUME TypeOK, OrderInv, HostNotify
  PROVE  OrderInv'
<1> USE DEF OrderInv
<1>1. /\ Len(Outgoing') = Len(Outgoing) + 1
      /\ \A i \in 1 .. Len(Outgoing) : Outgoing'[i] = Outgoing[i]
      /\ Outgoing'[Len(Outgoing) + 1].n = noted + 1
  BY NotifyShape
<1>2. Len(Outgoing) \in Nat
  BY OutgoingShape DEF TypeOK
<1>3. back' = back /\ noted' = noted + 1
  BY DEF HostNotify
<1>4. \A i \in 1 .. Len(Outgoing') : i \in 1 .. Len(Outgoing) \/ i = Len(Outgoing) + 1
  BY <1>1, <1>2
<1>5. Rising(Outgoing')
  BY <1>1, <1>2, <1>4, NoteNumbers DEF TypeOK, Rising
<1>6. \A i \in 1 .. Len(Outgoing') : Outgoing'[i].n <= noted'
  BY <1>1, <1>3, <1>4, NoteNumbers DEF TypeOK
<1>7. \A c \in Conns : \A i \in 1 .. Len(back'[c]) :
        /\ back'[c][i].note.n <= noted'
        /\ \A j \in 1 .. Len(Outgoing') : back'[c][i].note.n < Outgoing'[j].n
  BY <1>1, <1>3, <1>4, NoteNumbers DEF TypeOK
<1>8. NotifyOrder'
  BY <1>3 DEF NotifyOrder
<1> QED
  BY <1>5, <1>6, <1>7, <1>8

\* The notification that goes out is the earliest of those outgoing.
LEMMA OrderDrain ==
  ASSUME TypeOK, OrderInv, DrainNote
  PROVE  OrderInv'
<1> DEFINE m == Head(notify_queue_)
<1>1. 1 \in 1 .. Len(Outgoing) /\ Outgoing[1] = m /\ Dropped(Outgoing, Outgoing', 1)
  BY DrainShape
<1>2. noted' = noted
  BY DEF DrainNote
<1>3. CASE ~Connected
  BY <1>1, <1>2, <1>3, OrderKept DEF DrainNote
<1>4. CASE Connected
  <2>1. client_ \in Conns
    BY <1>4 DEF Connected, TypeOK, LoopTypeOK
  <2>2. PICK whole \in {TRUE, ~ShortWrites} :
          back' = [back EXCEPT ![client_] = Append(@, [note |-> m, whole |-> whole])]
    BY <1>4 DEF DrainNote
  <2> DEFINE b == back[client_]
             f == [note |-> m, whole |-> whole]
  <2>3. back'[client_] = Append(b, f) /\ \A c \in Conns : c # client_ => back'[c] = back[c]
    BY <2>1, <2>2 DEF TypeOK, NoteTypeOK
  <2>4. /\ Len(back'[client_]) = Len(b) + 1
        /\ \A i \in 1 .. Len(b) : back'[client_][i] = b[i]
        /\ back'[client_][Len(b) + 1].note = m
    <3>1. m \in Note
      BY <1>1, OutgoingShape, ElementOfSeq DEF TypeOK
    <3>2. f \in [note : Note, whole : BOOLEAN]
      BY <3>1, <2>2, ProxyAssumption
    <3>3. b \in Seq([note : Note, whole : BOOLEAN])
      BY <2>1 DEF TypeOK, NoteTypeOK
    <3> HIDE DEF b
    <3>4. f.note = m
      OBVIOUS
    <3> HIDE DEF f
    <3> QED
      BY <2>3, <3>2, <3>3, <3>4, AppendProperties
  <2>5. \A i \in 1 .. Len(back'[client_]) : i \in 1 .. Len(b) \/ i = Len(b) + 1
    BY <2>1, <2>4, NoteNumbers DEF TypeOK
  <2>6. /\ m.n \in Nat /\ m.n <= noted
        /\ \A i \in 1 .. Len(b) : b[i].note.n < m.n
        /\ \A j \in 1 .. Len(Outgoing') : m.n < Outgoing'[j].n
    <3>1. m.n \in Nat /\ m.n <= noted /\ \A i \in 1 .. Len(b) : b[i].note.n < m.n
      BY <1>1, <2>1, NoteNumbers DEF OrderInv, TypeOK
    <3>2. Len(Outgoing) \in Nat
      BY OutgoingShape DEF TypeOK
    <3>3. \A j \in 1 .. Len(Outgoing') : m.n < Outgoing'[j].n
      BY <1>1, <3>2 DEF OrderInv, Rising, Dropped
    <3> QED
      BY <3>1, <3>3
  <2>7. Rising(Outgoing') /\ \A i \in 1 .. Len(Outgoing') : Outgoing'[i].n <= noted'
    <3>1. Len(Outgoing) \in Nat
      BY OutgoingShape DEF TypeOK
    <3> QED
      BY <1>1, <1>2, <3>1 DEF OrderInv, Rising, Dropped
  <2>8. ASSUME NEW c \in Conns, NEW i \in 1 .. Len(back'[c])
        PROVE  /\ back'[c][i].note.n <= noted'
               /\ \A j \in 1 .. Len(Outgoing') : back'[c][i].note.n < Outgoing'[j].n
    <3>1. CASE c # client_ \/ i \in 1 .. Len(b)
      <4>1. i \in 1 .. Len(back[c]) /\ back'[c][i] = back[c][i]
        BY <2>3, <2>4, <3>1
      <4> QED
        BY <1>1, <1>2, <4>1 DEF OrderInv, Dropped
    <3>2. CASE c = client_ /\ i = Len(b) + 1
      BY <1>2, <2>4, <2>6, <3>2
    <3> QED
      BY <2>5, <3>1, <3>2
  <2>9. NotifyOrder'
    <3> SUFFICES ASSUME NEW c \in Conns, NEW i \in 1 .. Len(back'[c]),
                        NEW j \in 1 .. Len(back'[c]), i < j
                 PROVE  back'[c][i].note.n < back'[c][j].note.n
      BY DEF NotifyOrder
    <3>1. CASE c # client_
      BY <2>3, <3>1 DEF OrderInv, NotifyOrder
    <3>2. CASE c = client_ /\ j \in 1 .. Len(b)
      <4>1. i \in 1 .. Len(b)
        BY <3>2, <2>5
      <4> QED
        BY <2>1, <2>4, <3>2, <4>1 DEF OrderInv, NotifyOrder
    <3>3. CASE c = client_ /\ j = Len(b) + 1
      <4>1. i \in 1 .. Len(b)
        BY <2>5, <3>3
      <4> QED
        BY <2>4, <2>6, <3>3, <4>1
    <3> QED
      BY <2>5, <3>1, <3>2, <3>3
  <2> QED
    BY <2>7, <2>8, <2>9 DEF OrderInv
<1> QED
  BY <1>3, <1>4

\* Every step keeps the notifications in order.
LEMMA OrderStep ==
  ASSUME TypeOK, OrderInv, [Next]_vars
  PROVE  OrderInv'
<1> USE DEF noteVars
<1>0. ASSUME UNCHANGED noteVars PROVE OrderInv'
  BY <1>0 DEF OrderInv, NotifyOrder, Outgoing
<1>1. CASE on_client_disconnected_
  <2>1. Dropped(Outgoing, Outgoing', Len(notify_queue_)) /\ UNCHANGED <<back, noted>>
    BY <1>1, ClearShape DEF on_client_disconnected_
  <2> QED
    BY <2>1, OutgoingShape, OrderKept DEF TypeOK
<1>2. CASE DrainNote
  BY <1>2, OrderDrain
<1>3. CASE HostNotify
  BY <1>3, OrderNotify
<1>4. CASE HostPush
  <2>1. Dropped(Outgoing, Outgoing', 0) /\ UNCHANGED <<back, noted>>
    BY <1>4, PushShape, SameShape DEF HostPush, TypeOK
  <2> QED
    BY <2>1, OrderKept
<1>5. CASE Panic
  <2>1. Dropped(Outgoing, Outgoing', Len(Outgoing)) /\ UNCHANGED <<back, noted>>
    BY <1>5, EmptyShape DEF Panic, TypeOK
  <2> QED
    BY <2>1, OutgoingShape, OrderKept DEF TypeOK
<1>6. CASE \/ AcceptNobody \/ on_client_connected_ \/ Connecting \/ ConnectFailed \/ IdleStop
           \/ Poll \/ NothingToRead \/ ReadHeader \/ ReadData
  BY <1>0, <1>6 DEF AcceptNobody, on_client_connected_, Connecting, ConnectFailed, IdleStop,
                    Poll, NothingToRead, ReadHeader, ReadData
<1>7. CASE WriteLinkDown \/ WriteAccepted \/ WriteRefused \/ Drained
  BY <1>0, <1>7 DEF WriteLinkDown, WriteAccepted, WriteRefused, Drained
<1>8. CASE SeeClose \/ HostLinkDown \/ Tick \/ UNCHANGED vars
  BY <1>0, <1>8 DEF SeeClose, HostLinkDown, Tick, vars
<1>9. CASE \E c \in Conns : OpenConnection(c) \/ Send(c) \/ Leave(c)
  BY <1>0, <1>9 DEF OpenConnection, Send, Leave
<1> QED
  BY <1>1, <1>2, <1>3, <1>4, <1>5, <1>6, <1>7, <1>8, <1>9 DEF Next, LoopTask

LEMMA OrderInvariant == Spec => []OrderInv
<1>1. Init => OrderInv
  <2> SUFFICES ASSUME Init PROVE OrderInv
    OBVIOUS
  <2>1. notify_queue_ = <<>> /\ cb = <<>> /\ back = [c \in Conns |-> <<>>]
    BY DEF Init
  <2>2. Outgoing = <<>> /\ Len(Outgoing) = 0 /\ \A c \in Conns : Len(back[c]) = 0
    BY <2>1, EmptySeq, ConcatEmptySeq DEF Outgoing
  <2> QED
    BY <2>2 DEF OrderInv, NotifyOrder, Rising
<1>2. TypeOK /\ OrderInv /\ [Next]_vars => OrderInv'
  BY OrderStep
<1> QED
  BY <1>1, <1>2, TypeCorrect, PTL DEF Spec

\* A client gets the mower's notifications in the order the mower sent them and none
\* twice, however often the link drops, sessions end and the HC33 reboots between
\* the callback and drain_notify_queue_().
THEOREM NotesComeInOrder == Spec => []NotifyOrder
<1>1. OrderInv => NotifyOrder
  BY DEF OrderInv
<1> QED
  BY <1>1, OrderInvariant, PTL
-----------------------------------------------------------------------------
(* What an earlier session leaves.                                         *)

\* Of what is outgoing, no more is left of a closed session than before when
\* notifications go and none that remains comes to be left.
LEMMA LeftKept ==
  ASSUME TypeOK, FewLeft, NEW k \in Nat, Dropped(Outgoing, Outgoing', k),
         \A m \in Note : m.from \in Conns /\ Left(m)' => Left(m)
  PROVE  FewLeft'
<1>1. Len(Outgoing) \in Nat /\ Len(Outgoing') \in Int
  BY OutgoingShape DEF TypeOK, Dropped
<1>2. \A i \in 1 .. Len(Outgoing') :
        /\ i + k \in 1 .. Len(Outgoing)
        /\ Outgoing'[i] = Outgoing[i + k]
        /\ Outgoing[i + k] \in Note
        /\ Outgoing[i + k].from \in Conns
  BY OutgoingShape, ElementOfSeq DEF TypeOK, Dropped, FewLeft
<1>3. \A i \in 1 .. Len(Outgoing') : Left(Outgoing[i])' => Left(Outgoing[i + k])
  <2> SUFFICES ASSUME NEW i \in 1 .. Len(Outgoing'), Left(Outgoing[i])'
               PROVE  Left(Outgoing[i + k])
    OBVIOUS
  <2> DEFINE m == Outgoing[i + k]
  <2>1. m \in Note /\ m.from \in Conns /\ Outgoing'[i] = m
    BY <1>2
  <2>2. conn'[m.from] = "closed" /\ (m.from # client_' \/ ~ble_open_')
    BY <2>1 DEF Left
  <2> HIDE DEF m
  <2>3. Left(m)
    BY <2>1, <2>2 DEF Left
  <2> QED
    BY <2>3 DEF m
<1>4. ASSUME NEW i \in 1 .. Len(Outgoing'), NEW j \in 1 .. Len(Outgoing'),
             Left(Outgoing[i])', Left(Outgoing[j])'
      PROVE  i = j
  <2>1. i + k = j + k
    BY <1>2, <1>3, <1>4 DEF FewLeft
  <2> QED
    BY <1>1, <2>1
<1>5. \A i \in 1 .. Len(Outgoing') : Outgoing'[i].from \in Conns
  BY <1>2
<1> QED
  BY <1>4, <1>5 DEF FewLeft

\* A step of connect_mower() keeps the session's link and subscription.
LEMMA ConnectStepSession ==
  ASSUME TypeOK, Serving, SessionInv, Connecting
  PROVE  SessionInv'
<1> USE DEF SessionInv, netVars, noteVars
<1>1. client_ \in Conns /\ ConnectStep(client_) /\ UNCHANGED <<conn, cb, client_, ble_open_>>
  BY DEF Connecting, Serving
<1>2. Connected' = Connected
  BY <1>1 DEF Connected
<1>3. CASE ScanHit \/ ScanMiss
  BY <1>1, <1>2, <1>3 DEF ScanHit, ScanMiss
<1>4. CASE GattConnected(client_)
  BY <1>1, <1>2, <1>4 DEF GattConnected
<1>5. CASE GattConnectFailed
  BY <1>1, <1>2, <1>5 DEF GattConnectFailed
<1>6. CASE Discovered
  BY <1>1, <1>2, <1>6 DEF Discovered
<1>7. CASE DiscoverFailed
  <2>1. subscribed' => write_char_'
    BY <1>7, Zenon DEF DiscoverFailed
  <2>2. linkFor' = linkFor /\ (link' # "down" => link # "down")
    BY <1>7 DEF DiscoverFailed, Terminate
  <2> QED
    BY <1>1, <1>2, <2>1, <2>2
<1> QED
  BY <1>1, <1>3, <1>4, <1>5, <1>6, <1>7 DEF ConnectStep

\* Every step keeps the session's link and subscription.
LEMMA SessionStep ==
  ASSUME TypeOK, Serving, ConnInv, SessionInv, [Next]_vars
  PROVE  SessionInv'
<1> USE DEF SessionInv, netVars, noteVars, proxyVars, bleVars
<1>0. ASSUME UNCHANGED <<conn, cb, client_, ble_open_, bleVars>> PROVE SessionInv'
  BY <1>0 DEF Connected
<1>s. ASSUME NEW why \in {"closed", "refused"}, Stop(why), client_ \in Conns, client_' = client_
      PROVE  ~Connected'
  BY <1>s DEF Stop, Connected, TypeOK, NetTypeOK
<1>c. Connected => client_ \in Conns
  BY DEF Connected, TypeOK, LoopTypeOK
<1>1. CASE on_client_disconnected_
  BY <1>1 DEF on_client_disconnected_, disconnect_mower, Terminate, Connected
<1>2. CASE on_client_connected_
  BY <1>2 DEF on_client_connected_, connect_mower
<1>3. CASE Connecting
  BY <1>3, ConnectStepSession
<1>4. CASE ConnectFailed
  <2>1. client_ \in Conns
    BY <1>4 DEF ConnectFailed, Serving
  <2> QED
    BY <1>4, <1>s, <2>1 DEF ConnectFailed, disconnect_mower, Terminate
<1>5. CASE IdleStop
  BY <1>5, <1>s, <1>c DEF IdleStop
<1>6. CASE WriteLinkDown
  BY <1>6, <1>s DEF WriteLinkDown, Polling, Serving
<1>7. CASE SeeClose
  BY <1>7, <1>s, <1>c DEF SeeClose
<1>8. CASE ReadHeader
  <2>1. conn' = conn \/ conn' = [conn EXCEPT ![client_] = "closed"]
    BY <1>8 DEF ReadHeader
  <2>2. UNCHANGED <<cb, client_, ble_open_, bleVars>>
    BY <1>8 DEF ReadHeader
  <2>3. Connected' => Connected
    BY <2>1, <2>2 DEF Connected, TypeOK, NetTypeOK, LoopTypeOK
  <2> QED
    BY <2>2, <2>3
<1>9. CASE HostNotify
  <2>1. Len(cb') = 1
    BY <1>9 DEF HostNotify
  <2>2. UNCHANGED <<conn, client_, ble_open_, bleVars>>
    BY <1>9 DEF HostNotify
  <2> QED
    BY <2>1, <2>2 DEF Connected
<1>10. CASE HostPush
  <2>1. Len(cb') = 0 /\ UNCHANGED <<conn, client_, ble_open_, bleVars>>
    BY <1>10, EmptySeq DEF HostPush
  <2> QED
    BY <2>1 DEF Connected
<1>11. CASE HostLinkDown
  BY <1>11 DEF HostLinkDown, LinkDown, Connected
<1>12. CASE Panic
  <2>1. Len(cb') = 0 /\ ~Connected' /\ link' = "down" /\ ~subscribed'
    BY <1>12, EmptySeq DEF Panic, BleReboot, Connected
  <2> QED
    BY <2>1
<1>13. CASE AcceptNobody \/ Poll \/ NothingToRead \/ ReadData \/ WriteAccepted
  BY <1>0, <1>13 DEF AcceptNobody, Poll, NothingToRead, ReadData, WriteAccepted
<1>14. CASE WriteRefused \/ DrainNote \/ Drained \/ Tick \/ UNCHANGED vars
  BY <1>0, <1>14 DEF WriteRefused, DrainNote, Drained, Tick, vars
<1>15. ASSUME NEW c \in Conns, OpenConnection(c) \/ Send(c) \/ Leave(c) PROVE SessionInv'
  <2>1. UNCHANGED <<cb, client_, ble_open_, bleVars>>
    BY <1>15 DEF OpenConnection, Send, Leave
  <2>2. conn' = conn \/ conn' = [conn EXCEPT ![c] = "waiting"]
    BY <1>15 DEF OpenConnection, Send, Leave
  <2>3. Connected' => Connected
    BY <2>1, <2>2 DEF Connected, TypeOK, NetTypeOK, LoopTypeOK
  <2> QED
    BY <2>1, <2>3
<1> QED
  BY <1>1, <1>2, <1>3, <1>4, <1>5, <1>6, <1>7, <1>8, <1>9, <1>10, <1>11, <1>12, <1>13, <1>14,
     <1>15 DEF Next, LoopTask

\* The mower speaks only to a session whose BLE link is open: what it says is not
\* left of an earlier one.
LEMMA LeftNotify ==
  ASSUME TypeOK, LinkInv, StaleInv, HostNotify
  PROVE  FewLeft'
<1>1. /\ Len(Outgoing') = Len(Outgoing) + 1
      /\ \A i \in 1 .. Len(Outgoing) : Outgoing'[i] = Outgoing[i]
      /\ Outgoing'[Len(Outgoing) + 1].from = linkFor
  BY NotifyShape
<1>2. Len(Outgoing) \in Nat
  BY OutgoingShape DEF TypeOK
<1>3. \A i \in 1 .. Len(Outgoing') : i \in 1 .. Len(Outgoing) \/ i = Len(Outgoing) + 1
  BY <1>1, <1>2
<1>4. UNCHANGED <<conn, client_, ble_open_>>
  BY DEF HostNotify, netVars, proxyVars
<1>5. linkFor = client_ /\ ble_open_ /\ linkFor \in Conns
  BY DEF HostNotify, LinkInv, StaleInv, SessionInv
<1>6. \A i \in 1 .. Len(Outgoing') : Left(Outgoing[i])' => i \in 1 .. Len(Outgoing) /\ Left(Outgoing[i])
  BY <1>1, <1>3, <1>4, <1>5 DEF Left
<1>7. \A i \in 1 .. Len(Outgoing') : Outgoing'[i].from \in Conns
  BY <1>1, <1>3, <1>5 DEF StaleInv, FewLeft
<1> QED
  BY <1>6, <1>7 DEF StaleInv, FewLeft

\* client_.stop() leaves no notification: those of the client that is stopped are
\* its own until its session is closed, and a refused client's never count.
LEMMA LeftStop ==
  ASSUME TypeOK, Serving, ConnInv, StaleInv, UNCHANGED <<notify_queue_, cb, client_>>,
         client_ \in Conns,
         \/ conn' = [conn EXCEPT ![client_] = "closed"] /\ ble_open_' = ble_open_ /\ Connected
         \/ conn' = [conn EXCEPT ![client_] = "refused"] /\ ble_open_' = FALSE /\ Connected
  PROVE  FewLeft'
<1>1. Outgoing' = Outgoing
  BY DEF Outgoing
<1>2. Dropped(Outgoing, Outgoing', 0)
  BY <1>1, SameShape DEF TypeOK
<1>3. ble_open_
  BY DEF StaleInv, SessionInv
<1>4. ASSUME NEW m \in Note, m.from \in Conns, Left(m)' PROVE Left(m)
  BY <1>3, <1>4 DEF Left, TypeOK, NetTypeOK
<1> QED
  BY <1>2, <1>4, LeftKept DEF StaleInv

\* Every step leaves at most one notification of sessions that are closed.
LEMMA LeftStep ==
  ASSUME TypeOK, Serving, ConnInv, LinkInv, StaleInv, [Next]_vars
  PROVE  FewLeft'
<1> USE DEF netVars, noteVars, proxyVars
<1>0. ASSUME UNCHANGED <<conn, notify_queue_, cb, client_, ble_open_>> PROVE FewLeft'
  BY <1>0 DEF StaleInv, FewLeft, Left, Outgoing
<1>c. Connected => client_ \in Conns
  BY DEF Connected, TypeOK, LoopTypeOK
<1>1. CASE on_client_disconnected_
  <2>1. Outgoing' = cb /\ Dropped(Outgoing, Outgoing', Len(notify_queue_))
    BY <1>1, ClearShape DEF on_client_disconnected_
  <2>2. Len(Outgoing') \in Nat /\ Len(Outgoing') <= 1
    BY <2>1, OutgoingShape DEF StaleInv, SessionInv, TypeOK
  <2>3. \A i, j \in 1 .. Len(Outgoing') : i = j
    BY <2>2
  <2>4. \A i \in 1 .. Len(Outgoing') : Outgoing'[i].from \in Conns
    BY <2>1 DEF Dropped, StaleInv, FewLeft
  <2> QED
    BY <2>3, <2>4 DEF FewLeft
<1>2. CASE on_client_connected_
  <2> DEFINE h == Head(backlog)
  <2>1. ~ble_open_ /\ backlog # <<>>
    BY <1>2 DEF on_client_connected_, LinkInv
  <2>2. h \in Conns /\ client_' = h /\ conn' = [conn EXCEPT ![h] = "active"]
    BY <1>2, <2>1, HeadTailProperties DEF on_client_connected_, TypeOK, NetTypeOK
  <2>3. Dropped(Outgoing, Outgoing', 0)
    <3>1. Outgoing' = Outgoing
      BY <1>2 DEF on_client_connected_, Outgoing
    <3> QED
      BY <3>1, SameShape DEF TypeOK
  <2>4. ASSUME NEW m \in Note, m.from \in Conns, Left(m)' PROVE Left(m)
    BY <2>1, <2>2, <2>4 DEF Left, TypeOK, NetTypeOK
  <2> QED
    BY <2>3, <2>4, LeftKept DEF StaleInv
<1>3. CASE ConnectFailed
  BY <1>3, LeftStop DEF ConnectFailed, ConnInv, Serving, Stop
<1>4. CASE IdleStop
  BY <1>4, <1>c, LeftStop DEF IdleStop, Stop
<1>5. CASE WriteLinkDown
  BY <1>5, LeftStop DEF WriteLinkDown, Stop, Polling, Serving, ConnInv
<1>6. CASE SeeClose
  BY <1>6, <1>c, LeftStop DEF SeeClose, Stop
<1>7. CASE ReadHeader
  <2>1. client_ \in Conns /\ UNCHANGED <<notify_queue_, cb, client_, ble_open_>>
    BY <1>7 DEF ReadHeader, Polling, Serving
  <2>2. Connected
    BY <1>7, <2>1, EmptySeq, BleAssumption
       DEF ReadHeader, Unread, ConnInv, Connected, TypeOK, NetTypeOK
  <2>3. conn' = conn \/ conn' = [conn EXCEPT ![client_] = "closed"]
    BY <1>7 DEF ReadHeader
  <2> QED
    BY <1>0, <2>1, <2>2, <2>3, LeftStop
<1>8. CASE HostNotify
  BY <1>8, LeftNotify
<1>9. CASE HostPush
  <2>1. Dropped(Outgoing, Outgoing', 0) /\ UNCHANGED <<conn, client_, ble_open_>>
    BY <1>9, PushShape, SameShape DEF HostPush, TypeOK
  <2>2. ASSUME NEW m \in Note, m.from \in Conns, Left(m)' PROVE Left(m)
    BY <2>1, <2>2 DEF Left
  <2> QED
    BY <2>1, <2>2, LeftKept DEF StaleInv
<1>10. CASE DrainNote
  <2>1. Dropped(Outgoing, Outgoing', 1) /\ UNCHANGED <<conn, client_, ble_open_>>
    BY <1>10, DrainShape DEF DrainNote
  <2>2. ASSUME NEW m \in Note, m.from \in Conns, Left(m)' PROVE Left(m)
    BY <2>1, <2>2 DEF Left
  <2> QED
    BY <2>1, <2>2, LeftKept DEF StaleInv
<1>11. CASE Panic
  <2>1. Len(Outgoing') = 0
    BY <1>11, EmptyShape, EmptySeq DEF Panic, TypeOK
  <2> QED
    BY <2>1 DEF FewLeft
<1>12. CASE AcceptNobody \/ Connecting \/ Poll \/ NothingToRead \/ ReadData \/ WriteAccepted
  BY <1>0, <1>12 DEF AcceptNobody, Connecting, Poll, NothingToRead, ReadData, WriteAccepted
<1>13. CASE WriteRefused \/ Drained \/ HostLinkDown \/ Tick \/ UNCHANGED vars
  BY <1>0, <1>13 DEF WriteRefused, Drained, HostLinkDown, Tick, vars
<1>14. ASSUME NEW c \in Conns, OpenConnection(c) \/ Send(c) \/ Leave(c) PROVE FewLeft'
  <2>1. UNCHANGED <<notify_queue_, cb, client_, ble_open_>>
    BY <1>14 DEF OpenConnection, Send, Leave
  <2>2. conn' = conn \/ conn' = [conn EXCEPT ![c] = "waiting"]
    BY <1>14 DEF OpenConnection, Send, Leave
  <2>3. Dropped(Outgoing, Outgoing', 0)
    <3>1. Outgoing' = Outgoing
      BY <2>1 DEF Outgoing
    <3> QED
      BY <3>1, SameShape DEF TypeOK
  <2>4. ASSUME NEW m \in Note, m.from \in Conns, Left(m)' PROVE Left(m)
    BY <2>1, <2>2, <2>4 DEF Left, TypeOK, NetTypeOK
  <2> QED
    BY <2>3, <2>4, LeftKept DEF StaleInv
<1> QED
  BY <1>1, <1>2, <1>3, <1>4, <1>5, <1>6, <1>7, <1>8, <1>9, <1>10, <1>11, <1>12, <1>13, <1>14
     DEF Next, LoopTask

LEMMA StaleInvariant == Spec => []StaleInv
<1>1. Init => StaleInv
  <2> SUFFICES ASSUME Init PROVE StaleInv
    OBVIOUS
  <2>1. notify_queue_ = <<>> /\ cb = <<>>
    BY DEF Init
  <2>2. Len(cb) <= 1 /\ FewLeft
    BY <2>1, EmptySeq, ConcatEmptySeq DEF FewLeft, Outgoing
  <2>3. ~Connected /\ link = "down" /\ subscribed = FALSE
    BY DEF Init, BleInit, Connected
  <2> QED
    BY <2>2, <2>3 DEF StaleInv, SessionInv
<1>2. TypeOK /\ Serving /\ ConnInv /\ LinkInv /\ StaleInv /\ [Next]_vars => StaleInv'
  BY SessionStep, LeftStep DEF StaleInv
<1> QED
  BY <1>1, <1>2, TypeCorrect, ByteInvariant, LinkInvariant, PTL DEF Spec

\* At most one notification of the sessions that on_client_disconnected_() has closed
\* waits for the next client: the one whose callback had been entered when the
\* queue was cleared.
THEOREM OneNoteIsLeft == Spec => []AtMostOneStale
<1>1. TypeOK /\ StaleInv => AtMostOneStale
  <2> SUFFICES ASSUME TypeOK, StaleInv PROVE AtMostOneStale
    OBVIOUS
  <2> DEFINE S == {i \in 1 .. Len(notify_queue_) :
                     LET c == notify_queue_[i].from
                     IN  conn[c] = "closed" /\ (c # client_ \/ ~ble_open_)}
  <2>1. \A i \in S : i \in 1 .. Len(Outgoing) /\ Left(Outgoing[i])
    BY OutgoingShape DEF TypeOK, Left
  <2>2. \A i, j \in S : i = j
    BY <2>1 DEF StaleInv, FewLeft
  <2>3. Cardinality(S) <= 1
    <3>1. CASE S = {}
      BY <3>1, FS_EmptySet
    <3>2. CASE S # {}
      <4>1. PICK i : i \in S
        BY <3>2
      <4>2. S = {i}
        BY <2>2, <4>1
      <4> HIDE DEF S
      <4>3. Cardinality(S) = 1
        BY <4>2, FS_Singleton
      <4> QED
        BY <4>3
    <3> QED
      BY <3>1, <3>2
  <2> QED
    BY <2>3 DEF AtMostOneStale
<1> QED
  BY <1>1, TypeCorrect, StaleInvariant, PTL
-----------------------------------------------------------------------------
(* The proxy implements the frame pipe.                                    *)

\* A frame that is read or held is not over the limit.
FrameInv == rx_state_ # "WAIT_LEN" => rx_len_ <= MaxFrameLen

LEMMA FrameStep ==
  ASSUME TypeOK, Serving, FrameInv, [Next]_vars
  PROVE  FrameInv'
<1> USE DEF FrameInv, rxVars
<1>0. ASSUME UNCHANGED rxVars PROVE FrameInv'
  BY <1>0
<1>1. CASE on_client_connected_ \/ Panic
  BY <1>1 DEF on_client_connected_, Panic, FreshRx
<1>2. CASE ReadHeader
  <2>1. CASE rx_state_' = rx_state_
    BY <1>2, <2>1 DEF ReadHeader
  <2>2. CASE rx_state_' # rx_state_
    <3>1. ~TooLarge(rx_len_')
      BY <1>2, <2>2 DEF ReadHeader
    <3>2. Unread \in Seq(Byte) /\ Len(Unread) >= 2
      BY <1>2 DEF ReadHeader, Polling, Unread, Serving, TypeOK, NetTypeOK
    <3>3. rx_len_' \in Int /\ MaxFrameLen \in Int
      BY <1>2, <3>2, HeaderLenType, U16Nat, ProxyAssumption DEF ReadHeader
    <3> QED
      BY <3>1, <3>3 DEF TooLarge
  <2> QED
    BY <2>1, <2>2
<1>3. CASE ReadData
  BY <1>3 DEF ReadData
<1>4. CASE WriteAccepted
  BY <1>4 DEF WriteAccepted
<1>5. CASE \/ on_client_disconnected_ \/ AcceptNobody \/ Connecting \/ ConnectFailed
           \/ IdleStop \/ Poll \/ NothingToRead
  BY <1>0, <1>5 DEF on_client_disconnected_, AcceptNobody, Connecting, ConnectFailed, IdleStop,
                    Poll, NothingToRead
<1>6. CASE WriteLinkDown \/ WriteRefused \/ DrainNote \/ Drained
  BY <1>0, <1>6 DEF WriteLinkDown, WriteRefused, DrainNote, Drained
<1>7. CASE SeeClose \/ HostNotify \/ HostPush \/ HostLinkDown \/ Tick \/ UNCHANGED vars
  BY <1>0, <1>7 DEF SeeClose, HostNotify, HostPush, HostLinkDown, Tick, vars
<1>8. CASE \E c \in Conns : OpenConnection(c) \/ Send(c) \/ Leave(c)
  BY <1>0, <1>8 DEF OpenConnection, Send, Leave
<1> QED
  BY <1>1, <1>2, <1>3, <1>4, <1>5, <1>6, <1>7, <1>8 DEF Next, LoopTask

\* Where the elements of a concatenation are.
LEMMA ConcatElements ==
  ASSUME NEW r \in Seq(Byte), NEW s \in Seq(Byte)
  PROVE  /\ r \o s \in Seq(Byte)
         /\ Len(r) \in Nat /\ Len(s) \in Nat /\ Len(r \o s) = Len(r) + Len(s)
         /\ \A i \in 1 .. Len(r) : (r \o s)[i] = r[i]
         /\ \A i \in 1 .. Len(s) : (r \o s)[Len(r) + i] = s[i]
<1>1. /\ r \o s \in Seq(Byte)
      /\ Len(r) \in Nat /\ Len(s) \in Nat /\ Len(r \o s) = Len(r) + Len(s)
  BY ConcatProperties, LenProperties
<1>2. \A i \in 1 .. Len(r) + Len(s) : (r \o s)[i] = IF i <= Len(r) THEN r[i] ELSE s[i - Len(r)]
  BY ConcatProperties
<1>3. ASSUME NEW i \in 1 .. Len(r) PROVE (r \o s)[i] = r[i]
  BY <1>1, <1>2
<1>4. ASSUME NEW i \in 1 .. Len(s) PROVE (r \o s)[Len(r) + i] = s[i]
  <2>1. /\ Len(r) + i \in 1 .. Len(r) + Len(s)
        /\ ~(Len(r) + i <= Len(r)) /\ Len(r) + i - Len(r) = i
    BY <1>1
  <2> QED
    BY <1>2, <2>1
<1> QED
  BY <1>1, <1>3, <1>4

\* The elements of a piece of two.
LEMMA TwoOfSeq ==
  ASSUME NEW s \in Seq(Byte), NEW i \in Int, NEW j \in Int, 1 <= i, i + 1 = j, j <= Len(s)
  PROVE  SubSeq(s, i, j)[1] = s[i] /\ SubSeq(s, i, j)[2] = s[j]
<1>1. \A l \in i .. j : s[l] \in Byte
  <2>1. \A l \in i .. j : l \in 1 .. Len(s)
    BY LenProperties
  <2> QED
    BY <2>1, ElementOfSeq
<1>2. \A l \in 1 .. j - i + 1 : SubSeq(s, i, j)[l] = s[i + l - 1]
  BY <1>1, SubSeqProperties
<1>3. 1 \in 1 .. j - i + 1 /\ 2 \in 1 .. j - i + 1 /\ i + 1 - 1 = i /\ i + 2 - 1 = j
  OBVIOUS
<1> QED
  BY <1>2, <1>3

\* Of a stream s of which t has been taken, the next frame is p's.
Follows(s, t, p) ==
  /\ HeaderLen(SubSeq(s, Len(t) + 1, Len(t) + 2)) = Len(p)
  /\ Len(t) + 2 <= Len(s)
  /\ Len(t) + 2 + Len(p) <= Len(s)
  /\ t \o Encode(p) = SubSeq(s, 1, Len(t) + 2 + Len(p))

LEMMA NextFrame ==
  ASSUME NEW t \in Seq(Byte), NEW p \in Seq(Byte), NEW w \in Seq(Byte), Len(p) \in U16,
         NEW s, s = (t \o Encode(p)) \o w
  PROVE  Follows(s, t, p)
<1> DEFINE e == Encode(p)
           n == Len(p)
           a == t \o e
           k == Len(t)
<1>1. n \in Nat /\ k \in Nat /\ Len(w) \in Nat
  BY LenProperties
<1>2. Header(n) \in Seq(Byte) /\ Len(Header(n)) = 2
      /\ Header(n)[1] = n \div 256 /\ Header(n)[2] = n % 256
  BY HeaderType DEF Header
<1>3. e \in Seq(Byte) /\ Len(e) = 2 + n /\ e[1] = n \div 256 /\ e[2] = n % 256
  <2>1. e = Header(n) \o p
    BY DEF Encode
  <2>2. 1 \in 1 .. Len(Header(n)) /\ 2 \in 1 .. Len(Header(n))
    BY <1>2
  <2> HIDE DEF e
  <2>3. Header(n) \o p \in Seq(Byte) /\ Len(Header(n) \o p) = 2 + n
        /\ (Header(n) \o p)[1] = Header(n)[1] /\ (Header(n) \o p)[2] = Header(n)[2]
    <3>1. /\ Header(n) \o p \in Seq(Byte) /\ Len(Header(n) \o p) = Len(Header(n)) + Len(p)
          /\ \A i \in 1 .. Len(Header(n)) : (Header(n) \o p)[i] = Header(n)[i]
      BY <1>2, ConcatElements, Zenon
    <3> QED
      BY <1>2, <2>2, <3>1
  <2> QED
    BY <1>2, <2>1, <2>3
<1> HIDE DEF e
<1>4. /\ a \in Seq(Byte) /\ Len(a) = k + (2 + n)
      /\ a[k + 1] = e[1] /\ a[k + 2] = e[2]
  <2>1. 1 \in 1 .. Len(e) /\ 2 \in 1 .. Len(e)
    BY <1>1, <1>3
  <2> QED
    BY <1>3, <2>1, ConcatElements
<1>5. s = a \o w
  BY DEF e
<1> HIDE DEF a
<1>6. /\ s \in Seq(Byte) /\ Len(s) = k + (2 + n) + Len(w)
      /\ s[k + 1] = e[1] /\ s[k + 2] = e[2]
  <2>1. k + 1 \in 1 .. Len(a) /\ k + 2 \in 1 .. Len(a)
    BY <1>1, <1>4
  <2>2. /\ a \o w \in Seq(Byte) /\ Len(a \o w) = Len(a) + Len(w)
        /\ \A i \in 1 .. Len(a) : (a \o w)[i] = a[i]
    BY <1>4, ConcatElements, Zenon
  <2> QED
    BY <1>4, <1>5, <2>1, <2>2
<1>7. k + 2 <= Len(s) /\ k + 2 + n <= Len(s)
  BY <1>1, <1>6
<1>8. SubSeq(s, 1, k + 2 + n) = a
  <2>1. SubSeq(a, 1, Len(a)) = SubSeq(a \o w, 1, Len(a))
    <3>1. IsPrefix(a, a \o w)
      BY <1>4, PrefixOfConcat, Zenon
    <3> QED
      BY <3>1 DEF IsPrefix
  <2>2. SubSeq(a, 1, Len(a)) = a /\ Len(a) = k + 2 + n
    BY <1>1, <1>4, SubSeqFull
  <2> QED
    BY <1>5, <2>1, <2>2
<1>9. /\ SubSeq(s, k + 1, k + 2)[1] = s[k + 1]
      /\ SubSeq(s, k + 1, k + 2)[2] = s[k + 2]
  <2>1. k + 1 \in Int /\ 1 <= k + 1 /\ k + 1 + 1 = k + 2
    BY <1>1
  <2> QED
    BY <1>6, <1>7, <2>1, TwoOfSeq
<1>10. HeaderLen(SubSeq(s, k + 1, k + 2)) = n
  <2>1. 256 * (n \div 256) + (n % 256) = n
    BY <1>1
  <2> QED
    BY <1>3, <1>6, <1>9, <2>1 DEF HeaderLen
<1> QED
  BY <1>7, <1>8, <1>10 DEF Follows, a, e
\* The frame pipe's view of the proxy.
Owner == IF Connected THEN client_ ELSE None
Over  == {c \in Conns : conn[c] \in {"closed", "refused"}}

LEMMA PipeStutter ==
  ASSUME Owner' = Owner, Over' = Over, UNCHANGED <<sent, taken>>
  PROVE  UNCHANGED Pipe!pipeVars
BY DEF Pipe!pipeVars, Owner, Over

LEMMA PipeClose ==
  ASSUME Owner' = None, Over \cup ({Owner} \ {None}) \subseteq Over', UNCHANGED <<sent, taken>>
  PROVE  Pipe!Next
<1>1. Over' \in SUBSET Conns
  BY DEF Over
<1>2. Pipe!Close
  BY <1>1 DEF Pipe!Close, Owner, Over
<1> QED
  BY <1>2 DEF Pipe!Next

LEMMA PipeOpen ==
  ASSUME NEW c \in Conns, Owner = None, c \notin Over, Owner' = c, Over' = Over,
         UNCHANGED <<sent, taken>>
  PROVE  Pipe!Next
<1>1. Pipe!Open(c)
  BY DEF Pipe!Open, Owner, Over
<1> QED
  BY <1>1 DEF Pipe!Next

LEMMA PipeSend ==
  ASSUME NEW c \in Conns, c \notin Over, NEW f \in Frames,
         sent' = [sent EXCEPT ![c] = @ \o Encode(f)],
         Owner' = Owner, Over' = Over, UNCHANGED taken
  PROVE  Pipe!Next
<1>1. Pipe!Send(c)
  BY DEF Pipe!Send, Pipe!Encode, Pipe!Header, Encode, Header, Owner, Over
<1> QED
  BY <1>1 DEF Pipe!Next

\* A frame that the mower has been given, with what is held or unread behind it, is
\* the pipe's next.
LEMMA PipeTake ==
  ASSUME TypeOK, client_ \in Conns, Connected,
         NEW p \in Seq(Byte), Len(p) \in U16, Len(p) <= MaxFrameLen, NEW w \in Seq(Byte),
         sent[client_] = (taken[client_] \o Encode(p)) \o w,
         taken' = [taken EXCEPT ![client_] = @ \o Encode(p)],
         Owner' = Owner, Over' = Over, UNCHANGED sent
  PROVE  Pipe!Next
<1> DEFINE c == client_
           done == Len(taken[c])
<1>1. Owner = c
  BY DEF Owner
<1>2. taken[c] \in Seq(Byte)
  BY DEF TypeOK, NetTypeOK
<1>3. Follows(sent[c], taken[c], p)
  BY <1>2, NextFrame
<1>4. Pipe!HeaderLen(SubSeq(sent[c], done + 1, done + 2)) = Len(p)
  BY <1>3 DEF Pipe!HeaderLen, HeaderLen, Follows
<1>5. taken' = [taken EXCEPT ![c] = SubSeq(sent[c], 1, done + 2 + Len(p))]
  BY <1>3 DEF Follows
<1>6. Pipe!Take(c)
  BY <1>1, <1>3, <1>4, <1>5 DEF Pipe!Take, Follows, Owner, Over
<1> QED
  BY <1>6 DEF Pipe!Next
\* client_.stop() closes the pipe.
LEMMA PipeStop ==
  ASSUME TypeOK, NEW why \in {"closed", "refused"}, client_ \in Conns, Connected,
         conn' = [conn EXCEPT ![client_] = why], UNCHANGED <<client_, sent, taken>>
  PROVE  Pipe!Next
<1>1. \A c \in Conns : conn'[c] = IF c = client_ THEN why ELSE conn[c]
  BY DEF TypeOK, NetTypeOK
<1>2. Owner = client_ /\ Owner' = None
  BY <1>1 DEF Owner, Connected
<1>3. Over \cup {client_} \subseteq Over'
  BY <1>1 DEF Over
<1> QED
  BY <1>2, <1>3, PipeClose

\* A header read skips an empty frame, stops a client whose frame is too large, or
\* changes nothing that the pipe shows.
LEMMA PipeReadHeader ==
  ASSUME TypeOK, Serving, ConnInv, ByteInv, ByteInv', ReadHeader
  PROVE  Pipe!Next \/ UNCHANGED Pipe!pipeVars
<1>1. client_ \in Conns /\ UNCHANGED <<client_, sent>>
  BY DEF ReadHeader, Polling, Serving
<1>2. Connected
  BY <1>1, EmptySeq, BleAssumption DEF ReadHeader, Unread, ConnInv, Connected, TypeOK, NetTypeOK
<1>3. CASE UNCHANGED <<conn, taken>>
  BY <1>1, <1>3, PipeStutter DEF Owner, Over, Connected
<1>4. CASE conn' = [conn EXCEPT ![client_] = "closed"] /\ taken' = taken
  BY <1>1, <1>2, <1>4, PipeStop
<1>5. CASE /\ conn' = conn /\ rx_state_' = "WAIT_LEN"
           /\ taken' = [taken EXCEPT ![client_] = @ \o Encode(<<>>)]
  <2>1. Owner' = Owner /\ Over' = Over /\ Connected'
    BY <1>1, <1>2, <1>5 DEF Owner, Over, Connected
  <2>2. <<>> \in Seq(Byte) /\ Len(<<>>) = 0 /\ 0 \in U16 /\ 0 <= MaxFrameLen
    <3>1. MaxFrameLen \in Int /\ 0 <= MaxFrameLen
      BY ProxyAssumption, U16Nat
    <3> QED
      BY <3>1, EmptySeq DEF U16
  <2>3. wire'[client_] \in Seq(Byte)
    BY <1>1, NetTypeStep DEF Next, LoopTask, NetTypeOK
  <2>4. taken'[client_] = taken[client_] \o Encode(<<>>)
        /\ taken[client_] \o Encode(<<>>) \in Seq(Byte)
    BY <1>1, <1>5, FrameBytes, ConcatProperties DEF TypeOK, NetTypeOK
  <2>5. sent[client_] = (taken[client_] \o Encode(<<>>)) \o wire'[client_]
    <3>1. sent'[client_'] = (taken'[client_'] \o Held') \o wire'[client_'] /\ Held' = <<>>
      BY <1>5, <2>1 DEF ByteInv, NothingLost, Held
    <3> QED
      BY <1>1, <2>4, <3>1, ConcatEmptySeq
  <2> QED
    BY <1>1, <1>2, <1>5, <2>1, <2>2, <2>3, <2>5, PipeTake
<1> QED
  BY <1>3, <1>4, <1>5 DEF ReadHeader

\* A write that BluFi's characteristic accepts takes the frame that is held.
LEMMA PipeWrite ==
  ASSUME TypeOK, Serving, ConnInv, ByteInv, FrameInv, WriteAccepted
  PROVE  Pipe!Next
<1>1. /\ client_ \in Conns /\ Connected
      /\ UNCHANGED <<conn, client_, sent>>
      /\ rx_state_ = "WRITE_PENDING"
      /\ taken' = [taken EXCEPT ![client_] = @ \o Encode(rx_buf_)]
  BY DEF WriteAccepted, Polling, Serving, ConnInv, netVars, proxyVars
<1>2. rx_buf_ \in Seq(Byte) /\ Len(rx_buf_) = rx_len_ /\ rx_len_ \in U16 /\ rx_len_ <= MaxFrameLen
  BY <1>1 DEF ByteInv, FrameInv, TypeOK, RxTypeOK
<1>3. sent[client_] = (taken[client_] \o Encode(rx_buf_)) \o wire[client_]
  BY <1>1, <1>2 DEF ByteInv, NothingLost, Held, Encode
<1>4. wire[client_] \in Seq(Byte)
  BY <1>1 DEF TypeOK, NetTypeOK
<1>5. Owner' = Owner /\ Over' = Over
  BY <1>1 DEF Owner, Over, Connected
<1> QED
  BY <1>1, <1>2, <1>3, <1>4, <1>5, PipeTake

\* A connection accepted opens the pipe.
LEMMA PipeAccept ==
  ASSUME TypeOK, ConnInv, on_client_connected_
  PROVE  Pipe!Next
<1> DEFINE h == Head(backlog)
<1>1. ~Connected /\ backlog # <<>> /\ client_' = h /\ conn' = [conn EXCEPT ![h] = "active"]
      /\ UNCHANGED <<sent, taken>>
  BY DEF on_client_connected_, ConnInv
<1>2. h \in Conns /\ conn[h] = "waiting"
  BY <1>1, HeadTailProperties, EmptySeq DEF ConnInv, TypeOK, NetTypeOK
<1> HIDE DEF h
<1>3. \A c \in Conns : conn'[c] = IF c = h THEN "active" ELSE conn[c]
  BY <1>1, <1>2 DEF TypeOK, NetTypeOK
<1>4. Owner = None /\ Owner' = h
  BY <1>1, <1>2, <1>3, BleAssumption DEF Owner, Connected
<1>5. h \notin Over /\ Over' = Over
  BY <1>2, <1>3 DEF Over
<1> QED
  BY <1>1, <1>2, <1>4, <1>5, PipeOpen

\* A client sends to the pipe at any time until it is over.
LEMMA PipeClient ==
  ASSUME TypeOK, ConnInv, NEW c \in Conns, OpenConnection(c) \/ Send(c) \/ Leave(c)
  PROVE  Pipe!Next \/ UNCHANGED Pipe!pipeVars
<1> USE DEF netVars, proxyVars
<1>1. CASE OpenConnection(c)
  <2>1. /\ UNCHANGED <<client_, sent, taken>> /\ conn[c] = "new"
        /\ \A d \in Conns : conn'[d] = IF d = c THEN "waiting" ELSE conn[d]
    BY <1>1 DEF OpenConnection, TypeOK, NetTypeOK
  <2>2. Connected' = Connected
    BY <2>1, BleAssumption DEF Connected, TypeOK, LoopTypeOK
  <2>3. Owner' = Owner /\ Over' = Over
    BY <2>1, <2>2 DEF Owner, Over
  <2> QED
    BY <2>1, <2>3, PipeStutter
<1>2. CASE Send(c)
  <2>1. /\ UNCHANGED <<conn, client_, taken>> /\ c \notin Over
        /\ \E f \in Frames : sent' = [sent EXCEPT ![c] = @ \o Encode(f)]
    BY <1>2 DEF Send, Over
  <2>2. Owner' = Owner /\ Over' = Over
    BY <2>1 DEF Owner, Over, Connected
  <2> QED
    BY <2>1, <2>2, PipeSend
<1>3. CASE Leave(c)
  <2>1. UNCHANGED <<conn, client_, sent, taken>>
    BY <1>3 DEF Leave
  <2> QED
    BY <2>1, PipeStutter DEF Owner, Over, Connected
<1> QED
  BY <1>1, <1>2, <1>3

\* Every step of the proxy is a step of the frame pipe, or none.
LEMMA PipeStep ==
  ASSUME TypeOK, Serving, ConnInv, ByteInv, ByteInv', FrameInv, [Next]_vars
  PROVE  [Pipe!Next]_Pipe!pipeVars
<1> USE DEF netVars, proxyVars
<1>0. ASSUME UNCHANGED <<conn, client_, sent, taken>>
      PROVE  UNCHANGED Pipe!pipeVars
  BY <1>0, PipeStutter DEF Owner, Over, Connected
<1>c. Connected => client_ \in Conns
  BY DEF Connected, TypeOK, LoopTypeOK
<1>1. CASE on_client_connected_
  BY <1>1, PipeAccept
<1>2. CASE ConnectFailed
  BY <1>2, PipeStop DEF ConnectFailed, Stop, Serving, ConnInv
<1>3. CASE IdleStop
  BY <1>3, <1>c, PipeStop DEF IdleStop, Stop
<1>4. CASE WriteLinkDown
  BY <1>4, PipeStop DEF WriteLinkDown, Stop, Polling, Serving, ConnInv
<1>5. CASE SeeClose
  BY <1>5, <1>c, PipeStop DEF SeeClose, Stop
<1>6. CASE ReadHeader
  BY <1>6, PipeReadHeader
<1>7. CASE WriteAccepted
  BY <1>7, PipeWrite
<1>8. CASE Panic
  <2>1. UNCHANGED <<sent, taken>> /\ client_' = None
        /\ \A c \in Conns :
             conn'[c] = IF conn[c] \in {"waiting", "active"} THEN "closed" ELSE conn[c]
    BY <1>8 DEF Panic
  <2>2. Owner' = None
    BY <2>1 DEF Owner, Connected
  <2>3. Over \cup ({Owner} \ {None}) \subseteq Over'
    BY <1>c, <2>1 DEF Over, Owner, Connected
  <2> QED
    BY <2>1, <2>2, <2>3, PipeClose
<1>9. CASE \/ on_client_disconnected_ \/ AcceptNobody \/ Connecting \/ Poll \/ NothingToRead
           \/ ReadData
  BY <1>0, <1>9 DEF on_client_disconnected_, AcceptNobody, Connecting, Poll, NothingToRead,
                    ReadData
<1>10. CASE WriteRefused \/ DrainNote \/ Drained \/ HostNotify \/ HostPush \/ HostLinkDown
  BY <1>0, <1>10 DEF WriteRefused, DrainNote, Drained, HostNotify, HostPush, HostLinkDown
<1>11. CASE Tick \/ UNCHANGED vars
  BY <1>0, <1>11 DEF Tick, vars
<1>12. CASE \E c \in Conns : OpenConnection(c) \/ Send(c) \/ Leave(c)
  BY <1>12, PipeClient
<1> QED
  BY <1>1, <1>2, <1>3, <1>4, <1>5, <1>6, <1>7, <1>8, <1>9, <1>10, <1>11, <1>12
     DEF Next, LoopTask

\* No frame over the limit is ever held for the mower.
LEMMA FrameInvariant == Spec => []FrameInv
<1>1. Init => FrameInv
  BY DEF Init, FrameInv
<1>2. TypeOK /\ Serving /\ FrameInv /\ [Next]_vars => FrameInv'
  BY FrameStep
<1> QED
  BY <1>1, <1>2, TypeCorrect, PTL DEF Spec

\* The proxy, with its sockets, buffers, BLE link, timers and reboots, is the frame
\* pipe: one client at a time, whose frames go to the mower whole, in order, none
\* twice and none over MAX_FRAME_LEN, and never a frame of a client that is over.
THEOREM ProxyIsAPipe == Spec => ImplementsFramePipe
<1>1. Init => Pipe!Init
  BY DEF Init, Pipe!Init, Connected
<1>2. TypeOK /\ Serving /\ ConnInv /\ ByteInv /\ ByteInv' /\ FrameInv /\ [Next]_vars
        => [Pipe!Next]_Pipe!pipeVars
  BY PipeStep
<1> QED
  BY <1>1, <1>2, TypeCorrect, ByteInvariant, FrameInvariant, PTL
     DEF Spec, ImplementsFramePipe, Pipe!Spec
=============================================================================
