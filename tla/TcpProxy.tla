------------------------------ MODULE TcpProxy ------------------------------
(***************************************************************************)
(* The HC33's TCP server (firmware/src/tcp_proxy.cpp) with the BLE link it *)
(* drives: one client at a time, length-prefixed frames from its socket to *)
(* the mower's GATT, notifications the other way.                          *)
(*                                                                         *)
(* Three tasks meet here.  The Arduino loop task runs loop(), and `pc` is  *)
(* the place it has reached; the NimBLE host task runs the notify callback *)
(* and takes links down; the clients connect, send, close and vanish.      *)
(* Client bytes are modelled one by one, so that framing can go wrong.     *)
(***************************************************************************)
EXTENDS BleCentral, FrameFormat, SequencesExt, FiniteSets

CONSTANTS
  Frames,        \* the payloads a client may send
  MaxFrameLen,   \* MAX_FRAME_LEN
  IdleTimeout,   \* CLIENT_IDLE_TIMEOUT_MS, in ticks
  ShortWrites,   \* may client_.write() send less than it is asked to?
  MaxBytes,      \* bound: the bytes one client sends
  MaxNotes       \* bound: the notifications the mower sends

ASSUME ProxyAssumption ==
  /\ MaxFrameLen \in U16
  /\ Frames \subseteq {f \in Seq(Byte) : Len(f) \in U16}
  /\ IdleTimeout \in Nat
  /\ ShortWrites \in BOOLEAN

VARIABLES
  conn,           \* per connection: "new", "waiting" in the backlog, "active",
                  \* "closed", or "refused" because BLE did not come up
  peer,           \* per client: "here", "fin" (it closed), "gone" (silently)
  backlog,        \* connections listen() holds for accept()
  wire,           \* bytes sent and not yet read by the proxy
  sent,           \* history: every byte the client sent
  taken,          \* history: the frames written to the mower (and the empty
                  \* ones skipped), encoded
  back,           \* history: notifications put on the client's socket
  client_,        \* the connection accepted last
  ble_open_,
  rx_state_,
  rx_len_,
  rx_buf_,
  notify_queue_,
  pc,             \* where loop() is: "top", "accept", "connect", "poll", "drain"
  quiet,          \* ticks since last_rx_ms_
  cb,             \* the notification the notify callback is about to push
  noted           \* how many notifications the mower has sent

netVars   == <<conn, peer, backlog, wire, sent>>
rxVars    == <<rx_state_, rx_len_, rx_buf_>>
noteVars  == <<notify_queue_, back, cb, noted>>
proxyVars == <<client_, ble_open_, pc>>
vars == <<netVars, rxVars, noteVars, quiet, proxyVars, taken, bleVars>>

Note == [n : Nat, from : Conns \cup {None}]

NetTypeOK ==
  /\ conn \in [Conns -> {"new", "waiting", "active", "closed", "refused"}]
  /\ peer \in [Conns -> {"here", "fin", "gone"}]
  /\ backlog \in Seq(Conns)
  /\ wire \in [Conns -> Seq(Byte)]
  /\ sent \in [Conns -> Seq(Byte)]
  /\ taken \in [Conns -> Seq(Byte)]

RxTypeOK ==
  /\ rx_state_ \in {"WAIT_LEN", "READ_DATA", "WRITE_PENDING"}
  /\ rx_len_ \in U16
  /\ rx_buf_ \in Seq(Byte)
  /\ Len(rx_buf_) <= rx_len_

NoteTypeOK ==
  /\ back \in [Conns -> Seq([note : Note, whole : BOOLEAN])]
  /\ notify_queue_ \in Seq(Note)
  /\ cb \in Seq(Note)
  /\ noted \in Nat

LoopTypeOK ==
  /\ client_ \in Conns \cup {None}
  /\ ble_open_ \in BOOLEAN
  /\ pc \in {"top", "accept", "connect", "poll", "drain"}
  /\ quiet \in 0 .. IdleTimeout + 1

TypeOK == BleTypeOK /\ NetTypeOK /\ RxTypeOK /\ NoteTypeOK /\ LoopTypeOK

Init ==
  /\ BleInit
  /\ conn = [c \in Conns |-> "new"]
  /\ peer = [c \in Conns |-> "here"]
  /\ backlog = <<>>
  /\ wire = [c \in Conns |-> <<>>]
  /\ sent = [c \in Conns |-> <<>>]
  /\ taken = [c \in Conns |-> <<>>]
  /\ back = [c \in Conns |-> <<>>]
  /\ client_ = None
  /\ ble_open_ = FALSE
  /\ rx_state_ = "WAIT_LEN"
  /\ rx_len_ = 0
  /\ rx_buf_ = <<>>
  /\ notify_queue_ = <<>>
  /\ pc = "top"
  /\ quiet = 0
  /\ cb = <<>>
  /\ noted = 0

\* client_.connected(), which knows of a FIN only once SeeClose has seen it.
Connected == client_ # None /\ conn[client_] = "active"

-----------------------------------------------------------------------------
(* The clients.                                                            *)

OpenConnection(c) ==
  /\ conn[c] = "new"
  /\ conn' = [conn EXCEPT ![c] = "waiting"]
  /\ backlog' = Append(backlog, c)
  /\ UNCHANGED <<peer, wire, sent, taken, rxVars, noteVars, quiet, proxyVars, bleVars>>

Send(c) ==
  /\ conn[c] \in {"waiting", "active"}
  /\ peer[c] = "here"
  /\ \E f \in Frames :
       /\ Len(sent[c]) + Len(Encode(f)) <= MaxBytes
       /\ sent' = [sent EXCEPT ![c] = @ \o Encode(f)]
       /\ wire' = [wire EXCEPT ![c] = @ \o Encode(f)]
  /\ UNCHANGED <<conn, peer, backlog, taken, rxVars, noteVars, quiet, proxyVars, bleVars>>

\* The client closes its socket, or the network between vanishes without a
\* FIN or RST ever arriving.
Leave(c) ==
  /\ conn[c] \in {"waiting", "active"}
  /\ peer[c] = "here"
  /\ \E how \in {"fin", "gone"} : peer' = [peer EXCEPT ![c] = how]
  /\ UNCHANGED <<conn, backlog, wire, sent, taken, rxVars, noteVars, quiet, proxyVars,
                 bleVars>>

Tick ==
  /\ Connected
  /\ quiet <= IdleTimeout
  /\ quiet' = quiet + 1
  /\ UNCHANGED <<netVars, taken, rxVars, noteVars, proxyVars, bleVars>>

-----------------------------------------------------------------------------
(* The NimBLE host task.                                                   *)

\* A notification arrives: the trampoline has entered our callback.
HostNotify ==
  /\ subscribed /\ link # "down"
  /\ cb = <<>>
  /\ noted < MaxNotes
  /\ noted' = noted + 1
  /\ cb' = <<[n |-> noted', from |-> linkFor]>>
  /\ UNCHANGED <<netVars, taken, rxVars, notify_queue_, back, quiet, proxyVars, bleVars>>

\* Bug: a stack for a queue.
HostPush_Stack ==
  /\ cb # <<>>
  /\ notify_queue_' = cb \o notify_queue_
  /\ cb' = <<>>
  /\ UNCHANGED <<netVars, taken, rxVars, back, noted, quiet, proxyVars, bleVars>>

\* The callback gets notify_mutex_ and pushes.
HostPush ==
  /\ cb # <<>>
  /\ notify_queue_' = notify_queue_ \o cb
  /\ cb' = <<>>
  /\ UNCHANGED <<netVars, taken, rxVars, back, noted, quiet, proxyVars, bleVars>>

HostLinkDown ==
  /\ LinkDown
  /\ UNCHANGED <<netVars, taken, rxVars, noteVars, quiet, proxyVars>>

-----------------------------------------------------------------------------
(* TcpProxy::loop(): no client.                                            *)

\* client_.stop(): the socket and what it had buffered are gone.
Stop(why) ==
  /\ conn' = [conn EXCEPT ![client_] = why]
  /\ wire' = [wire EXCEPT ![client_] = <<>>]
  /\ UNCHANGED <<peer, backlog, sent>>

\* client_.connected(), available() or read() finds out about the peer's FIN.
SeeClose ==
  /\ pc \in {"top", "poll", "drain"}
  /\ pc = "poll" => rx_state_ # "WRITE_PENDING"
  /\ Connected
  /\ peer[client_] = "fin"
  /\ Stop("closed")
  /\ UNCHANGED <<taken, rxVars, noteVars, quiet, proxyVars, bleVars>>

\* Bug: the BLE link is left open.
on_client_disconnected_KeepLink ==
  /\ pc = "top"
  /\ ~Connected
  /\ ble_open_
  /\ ble_open_' = FALSE
  /\ notify_queue_' = <<>>
  /\ pc' = "accept"
  /\ UNCHANGED <<netVars, taken, rxVars, back, cb, noted, quiet, client_, bleVars>>

\* Bug: the queue is not cleared.
on_client_disconnected_KeepQueue ==
  /\ pc = "top"
  /\ ~Connected
  /\ ble_open_
  /\ disconnect_mower
  /\ UNCHANGED spent
  /\ ble_open_' = FALSE
  /\ pc' = "accept"
  /\ UNCHANGED <<netVars, taken, rxVars, noteVars, quiet, client_>>

on_client_disconnected_ ==
  /\ pc = "top"
  /\ ~Connected
  /\ ble_open_
  /\ disconnect_mower
  /\ UNCHANGED spent
  /\ ble_open_' = FALSE
  /\ notify_queue_' = <<>>
  /\ pc' = "accept"
  /\ UNCHANGED <<netVars, taken, rxVars, back, cb, noted, quiet, client_>>

\* accept() finds nobody, and the pass of loop() is over.
AcceptNobody ==
  /\ pc = "accept"
  /\ backlog = <<>>
  /\ pc' = "top"
  /\ UNCHANGED <<netVars, taken, rxVars, noteVars, quiet, client_, ble_open_, bleVars>>

\* Bug: the next client inherits the frame the last one left unfinished.
FreshRx_Inherited == UNCHANGED rxVars

FreshRx == rx_state_' = "WAIT_LEN" /\ rx_len_' = 0 /\ rx_buf_' = <<>>

\* on_client_connected_(), up to connect_mower()'s first wait or early return.
on_client_connected_ ==
  /\ pc = "accept" \/ (pc = "top" /\ ~Connected /\ ~ble_open_)
  /\ backlog # <<>>
  /\ client_' = Head(backlog)
  /\ backlog' = Tail(backlog)
  /\ conn' = [conn EXCEPT ![Head(backlog)] = "active"]
  /\ FreshRx
  /\ quiet' = 0
  /\ ble_open_' = TRUE
  /\ connect_mower
  /\ pc' = IF is_connected THEN "top" ELSE "connect"
  /\ UNCHANGED <<peer, wire, sent, taken, noteVars>>

\* connect_mower() goes on; when it has succeeded loop() returns.
Connecting ==
  /\ pc = "connect"
  /\ ConnectStep(client_)
  /\ pc' = IF at' = "idle" THEN "top" ELSE "connect"
  /\ UNCHANGED <<netVars, taken, rxVars, noteVars, quiet, client_, ble_open_>>

\* connect_mower() returned false.  notify_queue_ is left as it is, and with
\* ble_open_ down on_client_disconnected_() will not run for this client.
ConnectFailed ==
  /\ pc = "connect"
  /\ at = "failed" /\ Alive
  /\ disconnect_mower
  /\ Feed
  /\ ble_open_' = FALSE
  /\ Stop("refused")
  /\ pc' = "top"
  /\ UNCHANGED <<taken, rxVars, noteVars, quiet, client_>>

-----------------------------------------------------------------------------
(* TcpProxy::loop(): a client is connected.                                *)

\* Bugs: a client is not idle while a frame is held, or while BLE is down.
IdleExpired_NotHeld == quiet > IdleTimeout /\ rx_state_ # "WRITE_PENDING"
IdleExpired_LinkUp == quiet > IdleTimeout /\ is_connected

IdleExpired == quiet > IdleTimeout

\* The idle watchdog's safety stop.
IdleStop ==
  /\ pc = "top"
  /\ Connected
  /\ IdleExpired
  /\ Stop("closed")
  /\ UNCHANGED <<taken, rxVars, noteVars, quiet, proxyVars, bleVars>>

Poll ==
  /\ pc = "top"
  /\ Connected
  /\ ~IdleExpired
  /\ pc' = "poll"
  /\ UNCHANGED <<netVars, taken, rxVars, noteVars, quiet, client_, ble_open_, bleVars>>

Polling == pc = "poll"
Unread == wire[client_]

\* Fewer than two bytes, or none of the body, have arrived: poll_socket_()
\* returns.  Bytes sent may still be in the network, so it always may.
NothingToRead ==
  /\ Polling
  /\ rx_state_ # "WRITE_PENDING"
  /\ pc' = "drain"
  /\ UNCHANGED <<netVars, taken, rxVars, noteVars, quiet, client_, ble_open_, bleVars>>

\* Bug: one byte over is let through.
TooLarge_OffByOne(n) == n > MaxFrameLen + 1

TooLarge(n) == n > MaxFrameLen

ReadHeader ==
  /\ Polling
  /\ rx_state_ = "WAIT_LEN"
  /\ Len(Unread) >= 2
  /\ rx_len_' = HeaderLen(Unread)
  /\ \/ /\ rx_len_' = 0                           \* skip empty frames
        /\ wire' = [wire EXCEPT ![client_] = SubSeq(@, 3, Len(@))]
        /\ taken' = [taken EXCEPT ![client_] = @ \o Encode(<<>>)]
        /\ UNCHANGED <<conn, rx_state_, pc>>
     \/ /\ TooLarge(rx_len_')
        /\ wire' = [wire EXCEPT ![client_] = <<>>]
        /\ conn' = [conn EXCEPT ![client_] = "closed"]
        /\ pc' = "drain"
        /\ UNCHANGED <<taken, rx_state_>>
     \/ /\ rx_len_' > 0 /\ ~TooLarge(rx_len_')
        /\ wire' = [wire EXCEPT ![client_] = SubSeq(@, 3, Len(@))]
        /\ rx_state_' = "READ_DATA"
        /\ UNCHANGED <<conn, taken, pc>>
  /\ rx_buf_' = <<>>
  /\ UNCHANGED <<peer, backlog, sent, noteVars, quiet, client_, ble_open_, bleVars>>

\* Bug: everything available is read into the frame's buffer.
Want_All == Len(Unread)

Want == rx_len_ - Len(rx_buf_)

\* Some of the body has arrived; with the last byte the frame is complete.
ReadData ==
  /\ Polling
  /\ rx_state_ = "READ_DATA"
  /\ \E got \in 1 .. Len(Unread) :
       /\ got <= Want
       /\ rx_buf_' = rx_buf_ \o SubSeq(Unread, 1, got)
       /\ wire' = [wire EXCEPT ![client_] = SubSeq(@, got + 1, Len(@))]
  /\ IF Len(rx_buf_') = rx_len_
       THEN rx_state_' = "WRITE_PENDING"
       ELSE UNCHANGED rx_state_
  /\ UNCHANGED <<conn, peer, backlog, sent, taken, rx_len_, noteVars, quiet, proxyVars,
                 bleVars>>

\* try_write_pending_() finds the link down and drops the client.
WriteLinkDown ==
  /\ Polling
  /\ rx_state_ = "WRITE_PENDING"
  /\ ~is_connected
  /\ Stop("closed")
  /\ pc' = "drain"
  /\ UNCHANGED <<taken, rxVars, noteVars, quiet, client_, ble_open_, bleVars>>

\* The GATT write is accepted, and poll_socket_() goes round again.
WriteAccepted ==
  /\ Polling
  /\ rx_state_ = "WRITE_PENDING"
  /\ CanWrite
  /\ taken' = [taken EXCEPT ![client_] = @ \o Encode(rx_buf_)]
  /\ quiet' = 0
  /\ rx_state_' = "WAIT_LEN" /\ rx_len_' = 0 /\ rx_buf_' = <<>>
  /\ UNCHANGED <<netVars, noteVars, proxyVars, bleVars>>

\* Bug: a frame refused is dropped.
WriteRefused_Drops ==
  /\ Polling
  /\ rx_state_ = "WRITE_PENDING"
  /\ is_connected
  /\ FreshRx
  /\ pc' = "drain"
  /\ UNCHANGED <<netVars, taken, noteVars, quiet, client_, ble_open_, bleVars>>

\* The whole burst of attempts was refused: the frame is held.
WriteRefused ==
  /\ Polling
  /\ rx_state_ = "WRITE_PENDING"
  /\ is_connected
  /\ pc' = "drain"
  /\ UNCHANGED <<netVars, taken, rxVars, noteVars, quiet, client_, ble_open_, bleVars>>

\* drain_notify_queue_(): one frame popped and sent, or dropped because the
\* client is not connected any more.  The header and the body are two writes
\* whose results nobody reads, so either may be cut short.
DrainNote ==
  /\ pc = "drain"
  /\ notify_queue_ # <<>>
  /\ notify_queue_' = Tail(notify_queue_)
  /\ IF Connected
       THEN \E whole \in {TRUE, ~ShortWrites} :
              back' = [back EXCEPT ![client_] =
                         Append(@, [note |-> Head(notify_queue_), whole |-> whole])]
       ELSE UNCHANGED back
  /\ UNCHANGED <<netVars, taken, rxVars, cb, noted, quiet, proxyVars, bleVars>>

Drained ==
  /\ pc = "drain"
  /\ notify_queue_ = <<>>
  /\ pc' = "top"
  /\ UNCHANGED <<netVars, taken, rxVars, noteVars, quiet, client_, ble_open_, bleVars>>

-----------------------------------------------------------------------------
\* The task watchdog panics: the HC33 reboots and every socket is dead.
Panic ==
  /\ ~Alive
  /\ BleReboot
  /\ conn' = [c \in Conns |-> IF conn[c] \in {"waiting", "active"} THEN "closed" ELSE conn[c]]
  /\ wire' = [c \in Conns |-> <<>>]
  /\ backlog' = <<>>
  /\ client_' = None
  /\ ble_open_' = FALSE
  /\ FreshRx
  /\ notify_queue_' = <<>>
  /\ cb' = <<>>
  /\ pc' = "top"
  /\ UNCHANGED <<peer, sent, taken, back, noted, quiet>>

LoopTask ==
  \/ on_client_disconnected_
  \/ AcceptNobody
  \/ on_client_connected_
  \/ Connecting
  \/ ConnectFailed
  \/ IdleStop
  \/ Poll
  \/ NothingToRead
  \/ ReadHeader
  \/ ReadData
  \/ WriteLinkDown
  \/ WriteAccepted
  \/ WriteRefused
  \/ DrainNote
  \/ Drained

Next ==
  \/ LoopTask
  \/ SeeClose
  \/ HostNotify
  \/ HostPush
  \/ HostLinkDown
  \/ Panic
  \/ Tick
  \/ \E c \in Conns : OpenConnection(c) \/ Send(c) \/ Leave(c)

Spec == Init /\ [][Next]_vars

\* The loop and host tasks keep running (a task that does not is what the task
\* watchdog reboots for), time passes, and a termination asked for completes.
\* Nothing is assumed of the clients, the mower or the radio.
Fairness ==
  /\ WF_vars(LoopTask)
  /\ WF_vars(HostPush)
  /\ WF_vars(HostLinkDown /\ link = "closing")
  /\ WF_vars(Panic)
  /\ WF_vars(Tick)

FairSpec == Spec /\ Fairness

-----------------------------------------------------------------------------
(* Properties.                                                             *)

\* What has left the socket and is not in `taken`.
Held == IF rx_state_ = "WAIT_LEN" THEN <<>> ELSE Header(rx_len_) \o rx_buf_

\* The mower gets the frames a client sent, whole, in order, none lost and none
\* twice, up to where the session ended.
LosslessInOrder == \A c \in Conns : IsPrefix(taken[c], sent[c])

\* While a session lasts no byte goes missing: a frame the BLE stack refuses is
\* held, and the socket is not read past it.
NothingLost ==
  Connected => sent[client_] = taken[client_] \o Held \o wire[client_]

\* A frame is written only over the link that was opened for the client that
\* sent it: BluFi numbers the frames of a link, so no two clients share one.
WritesOnOwnLink ==
  [][rx_state_ = "WRITE_PENDING" /\ taken' # taken
       => link # "down" /\ linkFor = client_]_vars

\* There is no BLE link that no client session owns.
OwnedLink == link = "up" => ble_open_ /\ linkFor = client_

\* Notifications reach a client in the order the mower sent them, none twice.
NotifyOrder ==
  \A c \in Conns : \A i, j \in 1 .. Len(back[c]) :
    i < j => back[c][i].note.n < back[c][j].note.n

\* After a session is closed and its queue cleared, at most the one notification
\* whose callback was running then is left of it for the next client to get.
AtMostOneStale ==
  Cardinality({i \in 1 .. Len(notify_queue_) :
                 LET c == notify_queue_[i].from
                 IN  conn[c] = "closed" /\ (c # client_ \/ ~ble_open_)}) <= 1

\* The HC33 implements the frame pipe.
Pipe == INSTANCE FramePipe
          WITH owner <- IF Connected THEN client_ ELSE None,
               over  <- {c \in Conns : conn[c] \in {"closed", "refused"}}

ImplementsFramePipe == Pipe!Spec

\* A client that has gone, with or without a FIN, does not keep the mower's link.
SafetyStop ==
  \A c \in Conns :
    (link = "up" /\ linkFor = c /\ peer[c] # "here") ~> (link # "up" \/ linkFor # c)

\* A client whose BLE link has died is dropped, so that it can start afresh.
DeadLinkDropsClient ==
  \A c \in Conns :
    (client_ = c /\ Connected /\ pc # "connect" /\ link = "down") ~> (conn[c] = "closed")

-----------------------------------------------------------------------------
(* What the documents say of the code and the code does not do.            *)

\* "30 s timeout chosen so planned slow ops in loop() don't trip".
PlannedOpsFitWatchdog == Alive

\* "Wire format (both directions): [2-byte BE length N][N bytes payload]".
ReturnFramesWhole == \A c \in Conns : \A i \in 1 .. Len(back[c]) : back[c][i].whole

=============================================================================
