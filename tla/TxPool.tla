------------------------------- MODULE TxPool -------------------------------
(***************************************************************************)
(* The pool of HaLow TX packets (mmpktmem_heap.c in the driver overlay)    *)
(* and the link output that draws on it (halow_tx_nonblock.cpp).           *)
(*                                                                         *)
(* The pool is a counter of packets on the heap, a flag that pauses the    *)
(* data path when the pool is nearly full, and two reserved blocks for     *)
(* commands.  Any task of the driver allocates or frees at any time and no *)
(* lock is held: counter and flag are atomic one by one, and each of the   *)
(* steps below is one such access.  `task` is where a task's call is.      *)
(***************************************************************************)
EXTENDS Integers, FiniteSets

CONSTANTS
  Blocks,         \* MMPKTMEM_TX_POOL_N_BLOCKS
  CommandBlocks,  \* TX_COMMAND_POOL_N_BLOCKS
  TxTasks,
  Tcpip           \* the one of them that calls the link output

\* 20 blocks; no more tasks of the driver than that touch the pool at a time.
ASSUME PoolAssumption ==
  /\ Blocks \in Nat /\ CommandBlocks \in Nat
  /\ IsFiniteSet(TxTasks) /\ Cardinality(TxTasks) + 2 <= Blocks
  /\ Tcpip \in TxTasks

VARIABLES
  allocated,   \* tx_data_pool_allocated
  paused,      \* tx_data_pool_tx_paused
  told,        \* what the driver read when it was last called back
  packets,     \* data packets handed out and not yet given back
  free_list,   \* command blocks on the free list
  commands,    \* command blocks handed out
  task

poolVars == <<allocated, paused, told, packets, free_list, commands, task>>

\* Packets that their task has yet to return to its caller.
Making == {"made", "pausing", "telling_pause"}

TaskStates == Making \union
  {"idle", "waiting", "reserved", "adding", "added", "refused",
   "dropped", "unpausing", "telling_ready"}

PoolTypeOK ==
  /\ allocated \in Int
  /\ paused \in BOOLEAN /\ told \in BOOLEAN
  /\ packets \in Nat
  /\ free_list \in 0..CommandBlocks /\ commands \in 0..CommandBlocks
  /\ task \in [TxTasks -> TaskStates]

PoolInit ==
  /\ allocated = 0
  /\ paused = FALSE /\ told = FALSE
  /\ packets = 0
  /\ free_list = CommandBlocks /\ commands = 0
  /\ task = [t \in TxTasks |-> "idle"]

Goes(t, here, there) == task[t] = here /\ task' = [task EXCEPT ![t] = there]

-----------------------------------------------------------------------------
(* hc33_halow_linkoutput(): waits for the data path, for s_timeout_ms.     *)

LinkOutput ==
  /\ Goes(Tcpip, "idle", "waiting")
  /\ UNCHANGED <<allocated, paused, told, packets, free_list, commands>>

\* Not ready in time: the packet is dropped, for TCP to send again.
Busy ==
  /\ told
  /\ Goes(Tcpip, "waiting", "idle")
  /\ UNCHANGED <<allocated, paused, told, packets, free_list, commands>>

Ready ==
  /\ ~told
  /\ Goes(Tcpip, "waiting", "adding")
  /\ UNCHANGED <<allocated, paused, told, packets, free_list, commands>>

-----------------------------------------------------------------------------
(* mmhal_wlan_alloc_mmpkt_for_tx().                                        *)

\* A command, or a packet of another data path than the link output.
AllocData(t) ==
  /\ t # Tcpip
  /\ Goes(t, "idle", "adding")
  /\ UNCHANGED <<allocated, paused, told, packets, free_list, commands>>

AllocCommand(t) ==
  /\ t # Tcpip /\ free_list > 0
  /\ free_list' = free_list - 1
  /\ Goes(t, "idle", "reserved")
  /\ UNCHANGED <<allocated, paused, told, packets, commands>>

CommandFits(t) ==
  /\ Goes(t, "reserved", "idle")
  /\ commands' = commands + 1
  /\ UNCHANGED <<allocated, paused, told, packets, free_list>>

\* Too big for the block, which goes back; the data pool is tried.
CommandTooBig(t) ==
  /\ Goes(t, "reserved", "adding")
  /\ free_list' = free_list + 1
  /\ UNCHANGED <<allocated, paused, told, packets, commands>>

\* Bug: one packet more than the pool holds.
FetchAdd_OneTooMany(t) ==
  /\ task[t] = "adding"
  /\ allocated' = allocated + 1
  /\ task' = [task EXCEPT ![t] = IF allocated > Blocks THEN "refused" ELSE "added"]
  /\ UNCHANGED <<paused, told, packets, free_list, commands>>

FetchAdd(t) ==
  /\ task[t] = "adding"
  /\ allocated' = allocated + 1
  /\ task' = [task EXCEPT ![t] = IF allocated >= Blocks THEN "refused" ELSE "added"]
  /\ UNCHANGED <<paused, told, packets, free_list, commands>>

\* The pool is full, or the heap is: the count is taken back.
GiveUp(t) ==
  /\ task[t] \in {"refused", "added"}
  /\ allocated' = allocated - 1
  /\ task' = [task EXCEPT ![t] = "idle"]
  /\ UNCHANGED <<paused, told, packets, free_list, commands>>

OnHeap(t) ==
  /\ Goes(t, "added", "made")
  /\ UNCHANGED <<allocated, paused, told, packets, free_list, commands>>

\* The packet goes to the caller, and with mmwlan_tx_pkt() to the driver.
HandOut(t) ==
  /\ task' = [task EXCEPT ![t] = "idle"]
  /\ packets' = packets + 1

TestPause(t) ==
  /\ task[t] = "made"
  /\ IF allocated > Blocks - 1
       THEN Goes(t, "made", "pausing") /\ UNCHANGED packets
       ELSE HandOut(t)
  /\ UNCHANGED <<allocated, paused, told, free_list, commands>>

SetPaused(t) ==
  /\ task[t] = "pausing"
  /\ paused' = TRUE
  /\ IF paused THEN HandOut(t) ELSE Goes(t, "pausing", "telling_pause") /\ UNCHANGED packets
  /\ UNCHANGED <<allocated, told, free_list, commands>>

\* Bug: the driver is told what this task has done, not what holds now.
TellPause_ByEvent(t) ==
  /\ task[t] = "telling_pause"
  /\ told' = TRUE
  /\ HandOut(t)
  /\ UNCHANGED <<allocated, paused, free_list, commands>>

\* tx_flow_control_cb(): the driver asks tx_flow_control_state().
TellPause(t) ==
  /\ task[t] = "telling_pause"
  /\ told' = paused
  /\ HandOut(t)
  /\ UNCHANGED <<allocated, paused, free_list, commands>>

-----------------------------------------------------------------------------
(* tx_data_pool_pkt_free() and tx_command_reserved_free().                 *)

FetchSub(t) ==
  /\ packets > 0
  /\ packets' = packets - 1
  /\ allocated' = allocated - 1
  /\ Goes(t, "idle", "dropped")
  /\ UNCHANGED <<paused, told, free_list, commands>>

\* Bug: unpauses only as the count passes the threshold.
TestUnpause_AtEdge(t) ==
  /\ task[t] = "dropped"
  /\ task' = [task EXCEPT ![t] = IF allocated = Blocks - 3 THEN "unpausing" ELSE "idle"]
  /\ UNCHANGED <<allocated, paused, told, packets, free_list, commands>>

TestUnpause(t) ==
  /\ task[t] = "dropped"
  /\ task' = [task EXCEPT ![t] = IF allocated < Blocks - 2 THEN "unpausing" ELSE "idle"]
  /\ UNCHANGED <<allocated, paused, told, packets, free_list, commands>>

SetReady(t) ==
  /\ task[t] = "unpausing"
  /\ paused' = FALSE
  /\ task' = [task EXCEPT ![t] = IF paused THEN "telling_ready" ELSE "idle"]
  /\ UNCHANGED <<allocated, told, packets, free_list, commands>>

TellReady(t) ==
  /\ Goes(t, "telling_ready", "idle")
  /\ told' = paused
  /\ UNCHANGED <<allocated, paused, packets, free_list, commands>>

FreeCommand(t) ==
  /\ task[t] = "idle" /\ commands > 0
  /\ commands' = commands - 1
  /\ free_list' = free_list + 1
  /\ UNCHANGED <<allocated, paused, told, packets, task>>

PoolStep(t) ==
  \/ AllocData(t) \/ AllocCommand(t) \/ CommandFits(t) \/ CommandTooBig(t)
  \/ FetchAdd(t) \/ GiveUp(t) \/ OnHeap(t) \/ TestPause(t) \/ SetPaused(t) \/ TellPause(t)
  \/ FetchSub(t) \/ TestUnpause(t) \/ SetReady(t) \/ TellReady(t) \/ FreeCommand(t)

PoolNext ==
  \/ LinkOutput \/ Busy \/ Ready
  \/ \E t \in TxTasks : PoolStep(t)

PoolSpec == PoolInit /\ [][PoolNext]_poolVars

-----------------------------------------------------------------------------
(* Properties.                                                             *)

At(states) == {t \in TxTasks : task[t] \in states}

\* However allocations and frees overlap, there are never more packets on the
\* heap than the pool has blocks, and the counter neither leaks nor loses one.
WithinThePool ==
  /\ allocated = packets + Cardinality(At(Making \union {"added", "refused"}))
  /\ packets + Cardinality(At(Making)) <= Blocks

\* A paused data path has a packet out whose return will unpause it, or a task
\* on its way to: the path is never left paused with nothing to wake it.
PauseEnds ==
  paused => packets > 0 \/ At(Making \union {"dropped", "unpausing"}) # {}

\* When no call-back is under way, what the driver was last told is the flag's
\* value: two call-backs that overtake each other leave no stale verdict.
ToldTheTruth ==
  At({"telling_pause", "telling_ready"}) = {} => told = paused
=============================================================================
