------------------------------ MODULE FramePipe ------------------------------
(***************************************************************************)
(* What the HC33 promises a client and the mower, with no BLE, no buffers  *)
(* and no timers: a pipe with one owner at a time.  The bytes a client     *)
(* sends are a sequence of frames, each a 2-byte big-endian length and     *)
(* that many bytes; the pipe takes the owner's frames one by one, whole    *)
(* and in order, and never one of a client that is over.                   *)
(***************************************************************************)
EXTENDS FrameFormat

CONSTANTS
  Conns,        \* the client connections
  None,         \* no connection
  Frames,       \* the payloads a client may send
  MaxFrameLen   \* a longer frame is a protocol violation

VARIABLES
  owner,   \* the connection the pipe serves, or None
  over,    \* connections that will not be served any more
  sent,    \* every byte each client has sent
  taken    \* the bytes of the frames that have gone through

pipeVars == <<owner, over, sent, taken>>

Init ==
  /\ owner = None
  /\ over = {}
  /\ sent = [c \in Conns |-> <<>>]
  /\ taken = [c \in Conns |-> <<>>]

Send(c) ==
  /\ c \notin over
  /\ \E f \in Frames : sent' = [sent EXCEPT ![c] = @ \o Encode(f)]
  /\ UNCHANGED <<owner, over, taken>>

Open(c) ==
  /\ owner = None
  /\ c \notin over
  /\ owner' = c
  /\ UNCHANGED <<over, sent, taken>>

\* The owner's next frame goes through, whole.
Take(c) ==
  /\ owner = c
  /\ LET done == Len(taken[c])
         len  == HeaderLen(SubSeq(sent[c], done + 1, done + 2))
     IN  /\ done + 2 <= Len(sent[c])
         /\ len <= MaxFrameLen
         /\ done + 2 + len <= Len(sent[c])
         /\ taken' = [taken EXCEPT ![c] = SubSeq(sent[c], 1, done + 2 + len)]
  /\ UNCHANGED <<owner, over, sent>>

\* The owner is dropped, and with it any others (the HC33 may reboot).
Close ==
  /\ owner' = None
  /\ over' \in SUBSET Conns
  /\ over \cup ({owner} \ {None}) \subseteq over'
  /\ UNCHANGED <<sent, taken>>

Next == Close \/ \E c \in Conns : Send(c) \/ Open(c) \/ Take(c)

Spec == Init /\ [][Next]_pipeVars
=============================================================================
