----------------------------- MODULE BleCentral -----------------------------
(***************************************************************************)
(* The BLE side of the HC33 proxy (firmware/src/ble_central.cpp): one GATT *)
(* link to the mower, opened and closed for the one consumer TcpProxy.     *)
(*                                                                         *)
(* connect_mower() blocks the loop task, so it is a sequence of steps, and *)
(* `at` is the step it has reached.  The NimBLE host task runs beside it   *)
(* and reports a lost or terminated link whenever it likes (LinkDown).     *)
(* disconnect() only asks for the termination: until the host task has     *)
(* processed the event the link is "closing" and isConnected() is true.    *)
(*                                                                         *)
(* Time: `spent` is how long the present pass of loop() has kept the task  *)
(* watchdog waiting, in units the constants are given in.                  *)
(***************************************************************************)
EXTENDS Integers

CONSTANTS
  Conns,        \* the consumers (TCP connections) a link can be opened for
  None,         \* not a consumer
  ScanTime,     \* SCAN_TIMEOUT_MS
  ConnectTime,  \* BLE_CONNECT_TIMEOUT_MS
  WdtTimeout    \* the task watchdog's timeout

ASSUME BleAssumption ==
  /\ None \notin Conns
  /\ ScanTime \in Nat /\ ConnectTime \in Nat /\ WdtTimeout \in Nat

VARIABLES
  link,          \* "down", "up" or "closing" (terminate asked for, no event yet)
  linkFor,       \* the consumer the link was opened for
  write_char_,   \* write_char_ and notify_char_ are not null
  subscribed,    \* NimBLE holds our notify callback for this link
  addr_known_,
  at,            \* the step connect_mower() has reached
  spent

bleVars == <<link, linkFor, write_char_, subscribed, addr_known_, at, spent>>

ConnectSteps == {"scan", "connect", "rescan", "reconnect", "discover"}

BleTypeOK ==
  /\ link \in {"down", "up", "closing"}
  /\ linkFor \in Conns \cup {None}
  /\ write_char_ \in BOOLEAN
  /\ subscribed \in BOOLEAN
  /\ addr_known_ \in BOOLEAN
  /\ at \in ConnectSteps \cup {"idle", "failed"}
  /\ spent \in Nat

BleInit ==
  /\ link = "down"
  /\ linkFor = None
  /\ write_char_ = FALSE
  /\ subscribed = FALSE
  /\ addr_known_ = FALSE
  /\ at = "idle"
  /\ spent = 0

is_connected == link # "down"

-----------------------------------------------------------------------------
(* connect_mower(), step by step.  A step that waits for the radio costs    *)
(* nothing or its whole window; past WdtTimeout the task is dead and takes  *)
(* no further step.                                                         *)

Alive == spent <= WdtTimeout

\* The call returns, loop() with it, and the next pass feeds the watchdog.
Feed == spent' = 0

\* The call itself: the early return, or a fresh client object and the choice
\* between the cached address and a scan.
connect_mower ==
  \/ /\ is_connected
     /\ UNCHANGED bleVars
  \/ /\ ~is_connected
     /\ write_char_' = FALSE
     /\ subscribed' = FALSE
     /\ at' = IF addr_known_ THEN "connect" ELSE "scan"
     /\ UNCHANGED <<link, linkFor, addr_known_, spent>>

ScanHit ==
  /\ at \in {"scan", "rescan"} /\ Alive
  /\ addr_known_' = TRUE
  /\ at' = IF at = "scan" THEN "connect" ELSE "reconnect"
  /\ \E t \in {0, ScanTime} : spent' = spent + t
  /\ UNCHANGED <<link, linkFor, write_char_, subscribed>>

ScanMiss ==
  /\ at \in {"scan", "rescan"} /\ Alive
  /\ at' = "failed"
  /\ spent' = spent + ScanTime
  /\ UNCHANGED <<link, linkFor, write_char_, subscribed, addr_known_>>

GattConnected(c) ==
  /\ at \in {"connect", "reconnect"} /\ Alive
  /\ link' = "up"
  /\ linkFor' = c
  /\ at' = "discover"
  /\ \E t \in {0, ConnectTime} : spent' = spent + t
  /\ UNCHANGED <<write_char_, subscribed, addr_known_>>

\* The first failure forgets the address and rescans, the second gives up.
GattConnectFailed ==
  /\ at \in {"connect", "reconnect"} /\ Alive
  /\ addr_known_' = (addr_known_ /\ at = "reconnect")
  /\ at' = IF at = "connect" THEN "rescan" ELSE "failed"
  /\ \E t \in {0, ConnectTime} : spent' = spent + t
  /\ UNCHANGED <<link, linkFor, write_char_, subscribed>>

Discovered ==
  /\ at = "discover" /\ Alive
  /\ link = "up"
  /\ write_char_' = TRUE
  /\ subscribed' = TRUE
  /\ at' = "idle"
  /\ Feed
  /\ UNCHANGED <<link, linkFor, addr_known_>>

Terminate == link' = IF link = "up" THEN "closing" ELSE link

\* No service, no characteristic, no notify property, or a subscription that
\* failed, by which time NimBLE may already hold the callback.
DiscoverFailed ==
  /\ at = "discover" /\ Alive
  /\ write_char_' \in BOOLEAN
  /\ subscribed' \in {FALSE, write_char_'}
  /\ at' = "failed"
  /\ Terminate
  /\ UNCHANGED <<linkFor, addr_known_, spent>>

ConnectStep(c) ==
  \/ ScanHit
  \/ ScanMiss
  \/ GattConnected(c)
  \/ GattConnectFailed
  \/ Discovered
  \/ DiscoverFailed

\* Bug: the characteristic outlives the session.
disconnect_mower_KeepChar ==
  /\ subscribed' = FALSE
  /\ Terminate
  /\ at' = "idle"
  /\ UNCHANGED <<linkFor, write_char_, addr_known_>>

disconnect_mower ==
  /\ subscribed' = FALSE
  /\ write_char_' = FALSE
  /\ Terminate
  /\ at' = "idle"
  /\ UNCHANGED <<linkFor, addr_known_>>

\* write() may succeed: with no characteristic it returns false at once, and
\* the stack takes a write as long as it has the connection.
CanWrite == write_char_ /\ is_connected

-----------------------------------------------------------------------------
(* The NimBLE host task. *)

\* The mower or the radio dropped the link, or the termination completed.
LinkDown ==
  /\ link # "down"
  /\ link' = "down"
  /\ UNCHANGED <<linkFor, write_char_, subscribed, addr_known_, at, spent>>

\* A reboot: nothing of this survives.
BleReboot ==
  /\ link' = "down"
  /\ linkFor' = None
  /\ write_char_' = FALSE
  /\ subscribed' = FALSE
  /\ addr_known_' = FALSE
  /\ at' = "idle"
  /\ spent' = 0
=============================================================================
