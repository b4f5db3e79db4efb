----------------------------- MODULE BoardProofs -----------------------------
(***************************************************************************)
(* What the proxy rests on in the HC33's firmware, of which MCBoard checks *)
(* small instances: the uplink and its softAP, for any number of attempts to *)
(* associate, and the pool of TX packets, for any tasks and sizes.         *)
(***************************************************************************)
EXTENDS Uplink, TxPool, FiniteSetTheorems, TLAPS

-----------------------------------------------------------------------------
(* The uplink.                                                             *)

\* setup() runs once: until it is done the sync's static has its initial value,
\* and the AP is not up.
SetUpOnce ==
  /\ at \in Connects \union {"reboot"} => polled = "setup"
  /\ polled \in {"setup", "connected"}
  /\ polled = "setup" /\ at # "loop" => last_state = "disabled"

\* A soft_ap_begin() runs only while the flag is down.
BeginsWhenDown == s_softap_up => at = "loop"

\* At each step of soft_ap_begin(), the ones before it have been done.
StepsDone ==
  /\ at \in Begins \ {"mode"} => ap.mode
  /\ at \in {"offer", "softAP", "dhcps", "napt"} => ap.ip
  /\ at \in {"dhcps", "napt"} => ap.radio
  /\ at = "napt" => ap.dhcps

\* The loop has a flag that is up only after an edge up, and an AP that is on
\* the air with the flag down only after a begin that failed.
LoopKnows ==
  at = "loop" => /\ s_softap_up => last_state # "connecting"
                 /\ ap.radio /\ ~s_softap_up => begun = "failed"

UplinkInv ==
  /\ UplinkTypeOK
  /\ SetUpOnce /\ BeginsWhenDown /\ StepsDone /\ LoopKnows
  /\ UpMeansServing

\* No AP at all is an AP's state.
LEMMA NoApType ==
  /\ NoAp \in ApState
  /\ ~NoAp.radio
BY DEF NoAp, ApState

\* What the invariants look at, but for one part.
SameBut(part, s, t) ==
  \A f \in {"mode", "dhcps", "ip", "radio", "napt"} \ {part} : t[f] = s[f]

\* A part of the AP that is set leaves the others as they are.
LEMMA ApSet ==
  ASSUME NEW s \in ApState, NEW b \in BOOLEAN
  PROVE  /\ \A t : t = [s EXCEPT !.mode = b] => t \in ApState /\ t.mode = b /\ SameBut("mode", s, t)
         /\ \A t : t = [s EXCEPT !.dhcps = b] => t \in ApState /\ t.dhcps = b /\ SameBut("dhcps", s, t)
         /\ \A t : t = [s EXCEPT !.ip = b] => t \in ApState /\ t.ip = b /\ SameBut("ip", s, t)
         /\ \A t : t = [s EXCEPT !.radio = b] => t \in ApState /\ t.radio = b /\ SameBut("radio", s, t)
         /\ \A t : t = [s EXCEPT !.napt = b] => t \in ApState /\ t.napt = b /\ SameBut("napt", s, t)
         /\ \A t : t = [s EXCEPT !.starting = b] => t \in ApState /\ SameBut("starting", s, t)
BY DEF ApState, SameBut

\* So does another resolver.
LEMMA ApOffers ==
  ASSUME NEW s \in ApState, NEW o \in {"itself", "lease", "other"}, NEW t,
         t = [s EXCEPT !.offer = o]
  PROVE  t \in ApState /\ SameBut("offer", s, t)
BY DEF ApState, SameBut

LEMMA UplinkInvInit == UplinkInit => UplinkInv
<1> SUFFICES ASSUME UplinkInit PROVE UplinkInv
  OBVIOUS
<1> USE UplinkAssumption, NoApType DEF UplinkInit, Connects, Begins, Sta
<1>1. UplinkTypeOK
  <2>1. 1 \in 1..MaxAttempts
    OBVIOUS
  <2> QED
    BY <2>1 DEF UplinkTypeOK
<1> QED
  BY <1>1 DEF UplinkInv, SetUpOnce, BeginsWhenDown, StepsDone, LoopKnows, UpMeansServing

\* The event task and the link.
LEMMA UplinkInvOthers == UplinkInv /\ (LinkUp \/ LinkDown \/ Lease \/ ApStarted) => UplinkInv'
<1> SUFFICES ASSUME UplinkInv, LinkUp \/ LinkDown \/ Lease \/ ApStarted PROVE UplinkInv'
  OBVIOUS
<1> USE DEF UplinkInv, UplinkTypeOK, SetUpOnce, BeginsWhenDown, StepsDone, LoopKnows,
            UpMeansServing, Connects, Begins, Sta
<1>1. CASE LinkUp
  BY <1>1 DEF LinkUp
<1>2. CASE LinkDown
  BY <1>2 DEF LinkDown
<1>3. CASE Lease
  BY <1>3 DEF Lease
<1>4. CASE ApStarted
  <2>1. PICK s : s = [ap EXCEPT !.starting = FALSE] /\ ap' = [s EXCEPT !.dhcps = TRUE]
    BY <1>4 DEF ApStarted
  <2>2. s \in ApState /\ SameBut("starting", ap, s)
    BY <2>1, ApSet
  <2>3. ap' \in ApState /\ ap'.dhcps = TRUE /\ SameBut("dhcps", s, ap')
    BY <2>1, <2>2, ApSet
  <2> QED
    BY <1>4, <2>2, <2>3 DEF ApStarted, SameBut
<1> QED
  BY <1>1, <1>2, <1>3, <1>4

\* The next attempt is one of the attempts.
LEMMA UplinkAttempt ==
  ASSUME NEW here, attempt \in 1..MaxAttempts, NextAttempt(here)
  PROVE  attempt' \in 1..MaxAttempts /\ at' \in {"enable", "reboot"}
BY UplinkAssumption DEF NextAttempt, ConnectStep

LEMMA UplinkInvConnect == UplinkInv /\ NetConnect => UplinkInv'
<1> SUFFICES ASSUME UplinkInv, NetConnect PROVE UplinkInv'
  OBVIOUS
<1> USE DEF UplinkInv, UplinkTypeOK, SetUpOnce, BeginsWhenDown, StepsDone, LoopKnows,
            UpMeansServing, Connects, Begins, Sta
<1>1. CASE halow_init
  BY <1>1 DEF halow_init, ConnectStep
<1>2. CASE EnableOk
  BY <1>2 DEF EnableOk, ConnectStep
<1>3. CASE EnableFails
  BY <1>3, UplinkAttempt DEF EnableFails, NextAttempt, ConnectStep
<1>4. CASE SeesConnected
  BY <1>4 DEF SeesConnected, ConnectStep
<1>5. CASE Stuck
  BY <1>5, UplinkAttempt DEF Stuck, NextAttempt, ConnectStep
<1>6. CASE Check
  BY <1>6, UplinkAttempt DEF Check, NextAttempt, ConnectStep
<1>7. CASE AddressBound
  BY <1>7 DEF AddressBound, ConnectStep
<1>8. CASE NoAddress
  BY <1>8 DEF NoAddress, ConnectStep
<1> QED
  BY <1>1, <1>2, <1>3, <1>4, <1>5, <1>6, <1>7, <1>8 DEF NetConnect

LEMMA UplinkInvReboot == UplinkInv /\ (Restart \/ Panic) => UplinkInv'
<1> SUFFICES ASSUME UplinkInv, StartsOver PROVE UplinkInv'
  BY DEF Restart, Panic
<1> USE UplinkAssumption, NoApType DEF StartsOver, Connects, Begins, Sta
<1>1. UplinkTypeOK'
  <2>1. 1 \in 1..MaxAttempts
    OBVIOUS
  <2> QED
    BY <2>1 DEF UplinkTypeOK
<1> QED
  BY <1>1 DEF UplinkInv, SetUpOnce, BeginsWhenDown, StepsDone, LoopKnows, UpMeansServing

LEMMA UplinkInvBegin == UplinkInv /\ soft_ap_begin => UplinkInv'
<1> SUFFICES ASSUME UplinkInv, soft_ap_begin PROVE UplinkInv'
  OBVIOUS
<1> USE DEF UplinkInv, UplinkTypeOK, SetUpOnce, BeginsWhenDown, StepsDone, LoopKnows,
            UpMeansServing, Connects, Begins, Sta
<1>1. CASE Mode
  <2>1. CASE ap.mode
    BY <1>1, <2>1 DEF Mode, Does
  <2>2. CASE ~ap.mode
    <3>1. PICK s : s = [ap EXCEPT !.mode = TRUE] /\ ap' = [s EXCEPT !.starting = TRUE]
      BY <1>1, <2>2 DEF Mode, Does
    <3>2. s \in ApState /\ s.mode = TRUE /\ SameBut("mode", ap, s)
      BY <3>1, ApSet
    <3>3. ap' \in ApState /\ SameBut("starting", s, ap')
      BY <3>1, <3>2, ApSet
    <3> QED
      BY <1>1, <3>2, <3>3 DEF Mode, Does, SameBut
  <2> QED
    BY <2>1, <2>2
<1>2. CASE StopDhcps
  <2>1. ap' \in ApState /\ SameBut("dhcps", ap, ap')
    BY <1>2, ApSet DEF StopDhcps, Does
  <2> QED
    BY <1>2, <2>1 DEF StopDhcps, Does, SameBut
<1>3. CASE SetIpInfo
  <2>1. ap' \in ApState /\ ap'.ip = TRUE /\ SameBut("ip", ap, ap')
    BY <1>3, ApSet DEF SetIpInfo, Does
  <2> QED
    BY <1>3, <2>1 DEF SetIpInfo, Does, SameBut
<1>4. CASE Offer
  <2>1. CASE ap.dhcps
    BY <1>4, <2>1 DEF Offer, Does
  <2>2. CASE ~ap.dhcps
    <3>1. ap' \in ApState /\ SameBut("offer", ap, ap')
      BY <1>4, <2>2, ApOffers DEF Offer, Does
    <3> QED
      BY <1>4, <3>1 DEF Offer, Does, SameBut
  <2> QED
    BY <2>1, <2>2
<1>5. CASE SoftAP
  <2>1. ap' \in ApState /\ ap'.radio = TRUE /\ SameBut("radio", ap, ap')
    BY <1>5, ApSet DEF SoftAP, Does
  <2> QED
    BY <1>5, <2>1 DEF SoftAP, Does, SameBut
<1>6. CASE StartDhcps
  <2>1. ap' \in ApState /\ ap'.dhcps = TRUE /\ SameBut("dhcps", ap, ap')
    BY <1>6, ApSet DEF StartDhcps, Does
  <2> QED
    BY <1>6, <2>1 DEF StartDhcps, Does, SameBut
<1>7. CASE EnableNapt
  <2>1. ap' \in ApState /\ ap'.napt = TRUE /\ SameBut("napt", ap, ap')
    BY <1>7, ApSet DEF EnableNapt
  <2> QED
    BY <1>7, <2>1 DEF EnableNapt, Return, SameBut
<1>8. ASSUME NEW here \in {"mode", "stop_dhcps", "ip_info", "softAP", "dhcps", "napt"}, FailAt(here)
      PROVE  UplinkInv'
  BY <1>8 DEF FailAt, Return
<1> QED
  BY <1>1, <1>2, <1>3, <1>4, <1>5, <1>6, <1>7, <1>8 DEF soft_ap_begin

LEMMA UplinkInvSync == UplinkInv /\ halow_softap_sync => UplinkInv'
<1> SUFFICES ASSUME UplinkInv, halow_softap_sync PROVE UplinkInv'
  OBVIOUS
<1> USE DEF UplinkInv, UplinkTypeOK, SetUpOnce, BeginsWhenDown, StepsDone, LoopKnows,
            UpMeansServing, Connects, Begins, Sta
<1>1. CASE SyncDown /\ s_softap_up
  BY <1>1, NoApType DEF SyncDown, soft_ap_stop
<1>2. CASE SyncDown /\ ~s_softap_up
  BY <1>2 DEF SyncDown
<1>3. CASE SyncUp
  BY <1>3 DEF SyncUp
<1> QED
  BY <1>1, <1>2, <1>3 DEF halow_softap_sync

LEMMA UplinkInvStep == UplinkInv /\ [UplinkNext]_upVars => UplinkInv'
<1> SUFFICES ASSUME UplinkInv, [UplinkNext]_upVars PROVE UplinkInv'
  OBVIOUS
<1>1. CASE UNCHANGED upVars
  BY <1>1 DEF upVars, UplinkInv, UplinkTypeOK, SetUpOnce, BeginsWhenDown, StepsDone, LoopKnows,
              UpMeansServing
<1> QED
  BY <1>1, UplinkInvOthers, UplinkInvConnect, UplinkInvReboot, UplinkInvBegin, UplinkInvSync
  DEF UplinkNext, LoopTask

LEMMA UplinkInvAlways == UplinkSpec => []UplinkInv
BY UplinkInvInit, UplinkInvStep, PTL DEF UplinkSpec

\* The types of soft_ap.cpp's and main.cpp's state.
THEOREM UplinkTypes == UplinkSpec => []UplinkTypeOK
<1>1. UplinkInv => UplinkTypeOK
  BY DEF UplinkInv
<1> QED
  BY <1>1, UplinkInvAlways, PTL

\* soft_ap_begin(): the flag is up only over a softAP that every step has served,
\* whatever fails, and whenever the association and the event task move.
THEOREM SoftApServes == UplinkSpec => []UpMeansServing
<1>1. UplinkInv => UpMeansServing
  BY DEF UplinkInv
<1> QED
  BY <1>1, UplinkInvAlways, PTL

\* halow_softap_sync(): no AP is left on the air after the edge down, but for one
\* whose soft_ap_begin() failed.
THEOREM NoApWithoutUplink == UplinkSpec => []OnAirMeansUplink
<1>1. UplinkInv => OnAirMeansUplink
  BY DEF UplinkInv, LoopKnows, OnAirMeansUplink
<1> QED
  BY <1>1, UplinkInvAlways, PTL

-----------------------------------------------------------------------------
(* The pool of TX packets.                                                 *)

Count(states) == Cardinality(At(states))

Counted == Making \union {"added", "refused"}
Kept    == Making \union {"added"}

\* The counter has the packets and the calls that have added to it and are under
\* way; the ones that may end with a packet fit in the pool; no command block is
\* lost.
Ledger ==
  /\ allocated = packets + Count(Counted)
  /\ packets + Count(Kept) <= Blocks
  /\ free_list + commands + Count({"reserved"}) = CommandBlocks

PoolInv == PoolTypeOK /\ Ledger

-----------------------------------------------------------------------------
(* Counting the tasks.                                                     *)

LEMMA CountNat == \A S : IsFiniteSet(At(S)) /\ Count(S) \in Nat
<1> TAKE S
<1>1. At(S) \subseteq TxTasks /\ IsFiniteSet(TxTasks)
  BY PoolAssumption DEF At
<1> QED
  BY <1>1, FS_Subset, FS_CardinalityType DEF Count

LEMMA KeptAreCounted == Count(Kept) <= Count(Counted)
<1>1. At(Kept) \subseteq At(Counted)
  BY DEF At, Kept, Counted
<1> QED
  BY <1>1, CountNat, FS_Subset DEF Count

\* A task that goes from one state to another is counted in and out.
LEMMA Moved ==
  ASSUME NEW S, NEW t \in TxTasks, NEW there,
         task \in [TxTasks -> TaskStates], task' = [task EXCEPT ![t] = there]
  PROVE  Count(S)' = IF there \in S THEN (IF task[t] \in S THEN Count(S) ELSE Count(S) + 1)
                                    ELSE (IF task[t] \in S THEN Count(S) - 1 ELSE Count(S))
<1>1. IsFiniteSet(At(S)) /\ Count(S) \in Nat
  BY CountNat
<1>2. t \in At(S) <=> task[t] \in S
  BY DEF At
<1>3. CASE there \in S
  <2>1. At(S)' = At(S) \union {t}
    BY <1>3 DEF At
  <2> QED
    BY <1>1, <1>2, <1>3, <2>1, FS_AddElement DEF Count
<1>4. CASE there \notin S
  <2>1. At(S)' = At(S) \ {t}
    BY <1>4 DEF At
  <2> QED
    BY <1>1, <1>2, <1>4, <2>1, FS_RemoveElement DEF Count
<1> QED
  BY <1>3, <1>4

LEMMA StaysPut == ASSUME task' = task PROVE \A S : Count(S)' = Count(S)
BY DEF Count, At

-----------------------------------------------------------------------------
(* The counter.                                                            *)

LEMMA LedgerInit == PoolInit => PoolInv
<1> SUFFICES ASSUME PoolInit PROVE PoolInv
  OBVIOUS
<1>1. \A S : "idle" \notin S => Count(S) = 0
  <2> SUFFICES ASSUME NEW S, "idle" \notin S PROVE Count(S) = 0
    OBVIOUS
  <2>1. At(S) = {}
    BY DEF At, PoolInit
  <2> QED
    BY <2>1, FS_EmptySet DEF Count
<1>2. Count(Counted) = 0 /\ Count(Kept) = 0 /\ Count({"reserved"}) = 0
  BY <1>1 DEF Counted, Kept, Making
<1>3. PoolTypeOK
  <2>1. task \in [TxTasks -> TaskStates]
    BY DEF PoolInit, TaskStates
  <2>2. CommandBlocks \in 0..CommandBlocks /\ 0 \in 0..CommandBlocks
    BY PoolAssumption
  <2>3. allocated \in Int /\ packets \in Nat
    BY DEF PoolInit
  <2>4. free_list \in 0..CommandBlocks /\ commands \in 0..CommandBlocks
    BY <2>2 DEF PoolInit
  <2>5. paused \in BOOLEAN /\ told \in BOOLEAN
    BY Zenon DEF PoolInit
  <2> QED
    BY <2>1, <2>3, <2>4, <2>5 DEF PoolTypeOK
<1> QED
  BY <1>2, <1>3, PoolAssumption DEF PoolInv, Ledger, PoolInit, PoolTypeOK

\* What a step makes of the three counts.
LEMMA Recounted ==
  ASSUME PoolInv, NEW t \in TxTasks, NEW there \in TaskStates,
         task' = [task EXCEPT ![t] = there]
  PROVE  /\ task' \in [TxTasks -> TaskStates]
         /\ Count(Counted) \in Nat /\ Count(Kept) \in Nat /\ Count({"reserved"}) \in Nat
         /\ Count({"reserved"})' \in Nat
         /\ Count(Kept) <= Count(Counted)
         /\ Count(Counted)' =
              IF there \in Counted THEN (IF task[t] \in Counted THEN Count(Counted) ELSE Count(Counted) + 1)
              ELSE (IF task[t] \in Counted THEN Count(Counted) - 1 ELSE Count(Counted))
         /\ Count(Kept)' =
              IF there \in Kept THEN (IF task[t] \in Kept THEN Count(Kept) ELSE Count(Kept) + 1)
              ELSE (IF task[t] \in Kept THEN Count(Kept) - 1 ELSE Count(Kept))
         /\ Count({"reserved"})' =
              IF there = "reserved"
              THEN (IF task[t] = "reserved" THEN Count({"reserved"}) ELSE Count({"reserved"}) + 1)
              ELSE (IF task[t] = "reserved" THEN Count({"reserved"}) - 1 ELSE Count({"reserved"}))
<1>1. task \in [TxTasks -> TaskStates]
  BY DEF PoolInv, PoolTypeOK
<1>2. \A S : Count(S) \in Nat /\ Count(S)' \in Nat
  <2>1. (\A S : IsFiniteSet(At(S)) /\ Count(S) \in Nat)'
    BY CountNat, PTL
  <2> QED
    BY CountNat, <2>1
<1> QED
  BY <1>1, <1>2, Moved, KeptAreCounted

\* What the three counts and the numbers make of the invariant.
LEMMA Balanced ==
  ASSUME PoolInv,
         task' \in [TxTasks -> TaskStates], paused' \in BOOLEAN, told' \in BOOLEAN,
         packets' \in Nat, free_list' \in Nat, commands' \in Nat,
         allocated' = packets' + Count(Counted)', packets' + Count(Kept)' <= Blocks,
         free_list' + commands' + Count({"reserved"})' = CommandBlocks
  PROVE  PoolInv'
<1>1. (\A S : IsFiniteSet(At(S)) /\ Count(S) \in Nat)'
  BY CountNat, PTL
<1>2. Count(Counted)' \in Nat /\ Count({"reserved"})' \in Nat
  BY <1>1
<1>3. free_list' \in 0..CommandBlocks /\ commands' \in 0..CommandBlocks /\ allocated' \in Int
  BY <1>2, PoolAssumption
<1> QED
  BY <1>3 DEF PoolInv, PoolTypeOK, Ledger

\* A step of the pool changes numbers and, but for FreeCommand, moves one task.
LEMMA LedgerStep == PoolInv /\ [PoolNext]_poolVars => PoolInv'
<1> SUFFICES ASSUME PoolInv, [PoolNext]_poolVars PROVE PoolInv'
  OBVIOUS
<1> USE PoolAssumption DEF Goes
<1> DEFINE C == Count(Counted)  K == Count(Kept)  R == Count({"reserved"})
<1>0. /\ C \in Nat /\ K \in Nat /\ R \in Nat /\ K <= C
      /\ packets \in Nat /\ free_list \in Nat /\ commands \in Nat
      /\ paused \in BOOLEAN /\ told \in BOOLEAN /\ task \in [TxTasks -> TaskStates]
      /\ allocated = packets + C /\ packets + K <= Blocks
      /\ free_list + commands + R = CommandBlocks
  BY CountNat, KeptAreCounted DEF PoolInv, PoolTypeOK, Ledger
<1>1. CASE UNCHANGED poolVars
  BY <1>1, StaysPut DEF poolVars, PoolInv, PoolTypeOK, Ledger
<1>2. CASE LinkOutput
  <2>1. task' = [task EXCEPT ![Tcpip] = "waiting"] /\ task[Tcpip] = "idle"
    BY <1>2 DEF LinkOutput
  <2>2. /\ task' \in [TxTasks -> TaskStates]
        /\ C' = C /\ K' = K /\ R' = R
    BY <2>1, Recounted DEF TaskStates, Counted, Kept, Making
  <2> QED
    BY <1>0, <1>2, <2>2, Balanced DEF LinkOutput
<1>3. CASE Busy
  <2>1. task' = [task EXCEPT ![Tcpip] = "idle"] /\ task[Tcpip] = "waiting"
    BY <1>3 DEF Busy
  <2>2. /\ task' \in [TxTasks -> TaskStates]
        /\ C' = C /\ K' = K /\ R' = R
    BY <2>1, Recounted DEF TaskStates, Counted, Kept, Making
  <2> QED
    BY <1>0, <1>3, <2>2, Balanced DEF Busy
<1>4. CASE Ready
  <2>1. task' = [task EXCEPT ![Tcpip] = "adding"] /\ task[Tcpip] = "waiting"
    BY <1>4 DEF Ready
  <2>2. /\ task' \in [TxTasks -> TaskStates]
        /\ C' = C /\ K' = K /\ R' = R
    BY <2>1, Recounted DEF TaskStates, Counted, Kept, Making
  <2> QED
    BY <1>0, <1>4, <2>2, Balanced DEF Ready
<1>5. ASSUME NEW t \in TxTasks, AllocData(t) PROVE PoolInv'
  <2>1. task' = [task EXCEPT ![t] = "adding"] /\ task[t] = "idle"
    BY <1>5 DEF AllocData
  <2>2. /\ task' \in [TxTasks -> TaskStates]
        /\ C' = C /\ K' = K /\ R' = R
    BY <2>1, Recounted DEF TaskStates, Counted, Kept, Making
  <2> QED
    BY <1>0, <1>5, <2>2, Balanced DEF AllocData
<1>6. ASSUME NEW t \in TxTasks, AllocCommand(t) PROVE PoolInv'
  <2>1. task' = [task EXCEPT ![t] = "reserved"] /\ task[t] = "idle"
    BY <1>6 DEF AllocCommand
  <2>2. /\ task' \in [TxTasks -> TaskStates]
        /\ C' = C /\ K' = K /\ R' = R + 1
    BY <2>1, Recounted DEF TaskStates, Counted, Kept, Making
  <2> QED
    BY <1>0, <1>6, <2>2, Balanced DEF AllocCommand
<1>7. ASSUME NEW t \in TxTasks, CommandFits(t) PROVE PoolInv'
  <2>1. task' = [task EXCEPT ![t] = "idle"] /\ task[t] = "reserved"
    BY <1>7 DEF CommandFits
  <2>2. /\ task' \in [TxTasks -> TaskStates]
        /\ C' = C /\ K' = K /\ R' = R - 1
    BY <2>1, Recounted DEF TaskStates, Counted, Kept, Making
  <2> QED
    BY <1>0, <1>7, <2>2, Balanced DEF CommandFits
<1>8. ASSUME NEW t \in TxTasks, CommandTooBig(t) PROVE PoolInv'
  <2>1. task' = [task EXCEPT ![t] = "adding"] /\ task[t] = "reserved"
    BY <1>8 DEF CommandTooBig
  <2>2. /\ task' \in [TxTasks -> TaskStates]
        /\ C' = C /\ K' = K /\ R' = R - 1
    BY <2>1, Recounted DEF TaskStates, Counted, Kept, Making
  <2> QED
    BY <1>0, <1>8, <2>2, Balanced DEF CommandTooBig
<1>9. ASSUME NEW t \in TxTasks, FetchAdd(t) PROVE PoolInv'
  <2>1. CASE allocated >= Blocks
    <3>1. task' = [task EXCEPT ![t] = "refused"] /\ task[t] = "adding"
      BY <1>9, <2>1 DEF FetchAdd
    <3>2. /\ task' \in [TxTasks -> TaskStates]
          /\ C' = C + 1 /\ K' = K /\ R' = R
      BY <3>1, Recounted DEF TaskStates, Counted, Kept, Making
    <3> QED
      BY <1>0, <1>9, <3>2, <2>1, Balanced DEF FetchAdd
  <2>2. CASE ~(allocated >= Blocks)
    <3>1. task' = [task EXCEPT ![t] = "added"] /\ task[t] = "adding"
      BY <1>9, <2>2 DEF FetchAdd
    <3>2. /\ task' \in [TxTasks -> TaskStates]
          /\ C' = C + 1 /\ K' = K + 1 /\ R' = R
      BY <3>1, Recounted DEF TaskStates, Counted, Kept, Making
    <3> QED
      BY <1>0, <1>9, <3>2, <2>2, Balanced DEF FetchAdd
  <2> QED
    BY <2>1, <2>2
<1>10. ASSUME NEW t \in TxTasks, GiveUp(t) PROVE PoolInv'
  <2>1. CASE task[t] = "refused"
    <3>1. task' = [task EXCEPT ![t] = "idle"] /\ task[t] = "refused"
      BY <1>10, <2>1 DEF GiveUp
    <3>2. /\ task' \in [TxTasks -> TaskStates]
          /\ C' = C - 1 /\ K' = K /\ R' = R
      BY <3>1, Recounted DEF TaskStates, Counted, Kept, Making
    <3> QED
      BY <1>0, <1>10, <3>2, <2>1, Balanced DEF GiveUp
  <2>2. CASE task[t] = "added"
    <3>1. task' = [task EXCEPT ![t] = "idle"] /\ task[t] = "added"
      BY <1>10, <2>2 DEF GiveUp
    <3>2. /\ task' \in [TxTasks -> TaskStates]
          /\ C' = C - 1 /\ K' = K - 1 /\ R' = R
      BY <3>1, Recounted DEF TaskStates, Counted, Kept, Making
    <3> QED
      BY <1>0, <1>10, <3>2, <2>2, Balanced DEF GiveUp
  <2> QED
    BY <2>1, <2>2, <1>10 DEF GiveUp
<1>11. ASSUME NEW t \in TxTasks, OnHeap(t) PROVE PoolInv'
  <2>1. task' = [task EXCEPT ![t] = "made"] /\ task[t] = "added"
    BY <1>11 DEF OnHeap
  <2>2. /\ task' \in [TxTasks -> TaskStates]
        /\ C' = C /\ K' = K /\ R' = R
    BY <2>1, Recounted DEF TaskStates, Counted, Kept, Making
  <2> QED
    BY <1>0, <1>11, <2>2, Balanced DEF OnHeap
<1>12. ASSUME NEW t \in TxTasks, TestPause(t) PROVE PoolInv'
  <2>1. CASE allocated > Blocks - 1
    <3>1. task' = [task EXCEPT ![t] = "pausing"] /\ task[t] = "made"
      BY <1>12, <2>1 DEF TestPause, HandOut
    <3>2. /\ task' \in [TxTasks -> TaskStates]
          /\ C' = C /\ K' = K /\ R' = R
      BY <3>1, Recounted DEF TaskStates, Counted, Kept, Making
    <3> QED
      BY <1>0, <1>12, <3>2, <2>1, Balanced DEF TestPause, HandOut
  <2>2. CASE ~(allocated > Blocks - 1)
    <3>1. task' = [task EXCEPT ![t] = "idle"] /\ task[t] = "made"
      BY <1>12, <2>2 DEF TestPause, HandOut
    <3>2. /\ task' \in [TxTasks -> TaskStates]
          /\ C' = C - 1 /\ K' = K - 1 /\ R' = R
      BY <3>1, Recounted DEF TaskStates, Counted, Kept, Making
    <3> QED
      BY <1>0, <1>12, <3>2, <2>2, Balanced DEF TestPause, HandOut
  <2> QED
    BY <2>1, <2>2
<1>13. ASSUME NEW t \in TxTasks, SetPaused(t) PROVE PoolInv'
  <2>1. CASE paused
    <3>1. task' = [task EXCEPT ![t] = "idle"] /\ task[t] = "pausing"
      BY <1>13, <2>1 DEF SetPaused, HandOut
    <3>2. /\ task' \in [TxTasks -> TaskStates]
          /\ C' = C - 1 /\ K' = K - 1 /\ R' = R
      BY <3>1, Recounted DEF TaskStates, Counted, Kept, Making
    <3> QED
      BY <1>0, <1>13, <3>2, <2>1, Balanced DEF SetPaused, HandOut
  <2>2. CASE ~paused
    <3>1. task' = [task EXCEPT ![t] = "telling_pause"] /\ task[t] = "pausing"
      BY <1>13, <2>2 DEF SetPaused, HandOut
    <3>2. /\ task' \in [TxTasks -> TaskStates]
          /\ C' = C /\ K' = K /\ R' = R
      BY <3>1, Recounted DEF TaskStates, Counted, Kept, Making
    <3> QED
      BY <1>0, <1>13, <3>2, <2>2, Balanced DEF SetPaused, HandOut
  <2> QED
    BY <2>1, <2>2
<1>14. ASSUME NEW t \in TxTasks, TellPause(t) PROVE PoolInv'
  <2>1. task' = [task EXCEPT ![t] = "idle"] /\ task[t] = "telling_pause"
    BY <1>14 DEF TellPause, HandOut
  <2>2. /\ task' \in [TxTasks -> TaskStates]
        /\ C' = C - 1 /\ K' = K - 1 /\ R' = R
    BY <2>1, Recounted DEF TaskStates, Counted, Kept, Making
  <2> QED
    BY <1>0, <1>14, <2>2, Balanced DEF TellPause, HandOut
<1>15. ASSUME NEW t \in TxTasks, FetchSub(t) PROVE PoolInv'
  <2>1. task' = [task EXCEPT ![t] = "dropped"] /\ task[t] = "idle"
    BY <1>15 DEF FetchSub
  <2>2. /\ task' \in [TxTasks -> TaskStates]
        /\ C' = C /\ K' = K /\ R' = R
    BY <2>1, Recounted DEF TaskStates, Counted, Kept, Making
  <2> QED
    BY <1>0, <1>15, <2>2, Balanced DEF FetchSub
<1>16. ASSUME NEW t \in TxTasks, TestUnpause(t) PROVE PoolInv'
  <2>1. CASE allocated < Blocks - 2
    <3>1. task' = [task EXCEPT ![t] = "unpausing"] /\ task[t] = "dropped"
      BY <1>16, <2>1 DEF TestUnpause
    <3>2. /\ task' \in [TxTasks -> TaskStates]
          /\ C' = C /\ K' = K /\ R' = R
      BY <3>1, Recounted DEF TaskStates, Counted, Kept, Making
    <3> QED
      BY <1>0, <1>16, <3>2, <2>1, Balanced DEF TestUnpause
  <2>2. CASE ~(allocated < Blocks - 2)
    <3>1. task' = [task EXCEPT ![t] = "idle"] /\ task[t] = "dropped"
      BY <1>16, <2>2 DEF TestUnpause
    <3>2. /\ task' \in [TxTasks -> TaskStates]
          /\ C' = C /\ K' = K /\ R' = R
      BY <3>1, Recounted DEF TaskStates, Counted, Kept, Making
    <3> QED
      BY <1>0, <1>16, <3>2, <2>2, Balanced DEF TestUnpause
  <2> QED
    BY <2>1, <2>2
<1>17. ASSUME NEW t \in TxTasks, SetReady(t) PROVE PoolInv'
  <2>1. CASE paused
    <3>1. task' = [task EXCEPT ![t] = "telling_ready"] /\ task[t] = "unpausing"
      BY <1>17, <2>1 DEF SetReady
    <3>2. /\ task' \in [TxTasks -> TaskStates]
          /\ C' = C /\ K' = K /\ R' = R
      BY <3>1, Recounted DEF TaskStates, Counted, Kept, Making
    <3> QED
      BY <1>0, <1>17, <3>2, <2>1, Balanced DEF SetReady
  <2>2. CASE ~paused
    <3>1. task' = [task EXCEPT ![t] = "idle"] /\ task[t] = "unpausing"
      BY <1>17, <2>2 DEF SetReady
    <3>2. /\ task' \in [TxTasks -> TaskStates]
          /\ C' = C /\ K' = K /\ R' = R
      BY <3>1, Recounted DEF TaskStates, Counted, Kept, Making
    <3> QED
      BY <1>0, <1>17, <3>2, <2>2, Balanced DEF SetReady
  <2> QED
    BY <2>1, <2>2
<1>18. ASSUME NEW t \in TxTasks, TellReady(t) PROVE PoolInv'
  <2>1. task' = [task EXCEPT ![t] = "idle"] /\ task[t] = "telling_ready"
    BY <1>18 DEF TellReady
  <2>2. /\ task' \in [TxTasks -> TaskStates]
        /\ C' = C /\ K' = K /\ R' = R
    BY <2>1, Recounted DEF TaskStates, Counted, Kept, Making
  <2> QED
    BY <1>0, <1>18, <2>2, Balanced DEF TellReady
<1>19. ASSUME NEW t \in TxTasks, FreeCommand(t) PROVE PoolInv'
  <2>1. task' = task /\ C' = C /\ K' = K /\ R' = R
    BY <1>19, StaysPut DEF FreeCommand
  <2> QED
    BY <1>0, <1>19, <2>1, Balanced DEF FreeCommand
<1> QED
  BY <1>1, <1>2, <1>3, <1>4, <1>5, <1>6, <1>7, <1>8, <1>9, <1>10, <1>11, <1>12, <1>13, <1>14, <1>15, <1>16, <1>17, <1>18, <1>19
  DEF PoolNext, PoolStep

LEMMA LedgerAlways == PoolSpec => []PoolInv
BY LedgerInit, LedgerStep, PTL DEF PoolSpec

-----------------------------------------------------------------------------
(* The pause.                                                              *)

Wakers == Making \union {"dropped", "unpausing"}

\* The one step that could take the last waker away: a free that found the pool
\* still too full to unpause.  With no packet out and nobody else on its way, what
\* the counter shows are calls under way, and there are fewer tasks than that.
LEMMA LastFree ==
  ASSUME PoolInv, NEW t \in TxTasks, TestUnpause(t), packets = 0,
         \A u \in TxTasks \ {t} : task[u] \notin Making
  PROVE  task'[t] = "unpausing"
<1>1. task[t] = "dropped" /\ task \in [TxTasks -> TaskStates]
  BY DEF TestUnpause, PoolInv, PoolTypeOK
<1>2. At(Counted) \subseteq TxTasks \ {t}
  BY <1>1 DEF At, Counted, Making
<1>3. IsFiniteSet(TxTasks \ {t}) /\ Cardinality(TxTasks \ {t}) = Cardinality(TxTasks) - 1
  BY PoolAssumption, FS_RemoveElement
<1>4. Count(Counted) <= Cardinality(TxTasks) - 1
  BY <1>2, <1>3, FS_Subset DEF Count
<1>5. Cardinality(TxTasks) \in Nat
  BY PoolAssumption, FS_CardinalityType
<1>6. allocated < Blocks - 2
  BY <1>4, <1>5, CountNat, PoolAssumption DEF PoolInv, PoolTypeOK, Ledger
<1> QED
  BY <1>1, <1>6 DEF TestUnpause

LEMMA PauseStep == PoolInv /\ PauseEnds /\ [PoolNext]_poolVars => PauseEnds'
<1> SUFFICES ASSUME PoolInv, PauseEnds, [PoolNext]_poolVars, paused'
             PROVE  packets' > 0 \/ \E u \in TxTasks : task'[u] \in Wakers
  BY DEF PauseEnds, At, Wakers
<1>1. packets \in Nat /\ task \in [TxTasks -> TaskStates]
  BY DEF PoolInv, PoolTypeOK
<1>2. paused => packets > 0 \/ \E u \in TxTasks : task[u] \in Wakers
  BY DEF PauseEnds, At, Wakers
<1> USE DEF Goes, Making, Wakers
<1>3. CASE UNCHANGED poolVars
  BY <1>2, <1>3 DEF poolVars
<1>4. CASE LinkOutput \/ Busy \/ Ready
  BY <1>1, <1>2, <1>4, PoolAssumption DEF LinkOutput, Busy, Ready
<1>5. ASSUME NEW t \in TxTasks,
             \/ AllocData(t) \/ AllocCommand(t) \/ CommandFits(t) \/ CommandTooBig(t) \/ FetchAdd(t)
             \/ GiveUp(t) \/ OnHeap(t) \/ TellReady(t) \/ FreeCommand(t)
      PROVE  packets' > 0 \/ \E u \in TxTasks : task'[u] \in Wakers
  BY <1>1, <1>2, <1>5 DEF AllocData, AllocCommand, CommandFits, CommandTooBig, FetchAdd,
                          GiveUp, OnHeap, TellReady, FreeCommand
<1>6. ASSUME NEW t \in TxTasks, TestPause(t) \/ SetPaused(t) \/ TellPause(t)
      PROVE  packets' > 0 \/ \E u \in TxTasks : task'[u] \in Wakers
  <2>1. CASE HandOut(t)
    BY <1>1, <2>1 DEF HandOut
  <2>2. CASE task' = [task EXCEPT ![t] = "pausing"] \/ task' = [task EXCEPT ![t] = "telling_pause"]
    BY <1>1, <2>2
  <2> QED
    BY <1>6, <2>1, <2>2 DEF TestPause, SetPaused, TellPause
<1>7. ASSUME NEW t \in TxTasks, FetchSub(t)
      PROVE  packets' > 0 \/ \E u \in TxTasks : task'[u] \in Wakers
  BY <1>1, <1>7 DEF FetchSub
<1>8. ASSUME NEW t \in TxTasks, TestUnpause(t)
      PROVE  packets' > 0 \/ \E u \in TxTasks : task'[u] \in Wakers
  <2>1. CASE packets = 0 /\ \A u \in TxTasks \ {t} : task[u] \notin Making
    BY <1>8, <2>1, LastFree
  <2>2. CASE packets # 0
    BY <1>1, <1>8, <2>2 DEF TestUnpause
  <2>3. CASE \E u \in TxTasks \ {t} : task[u] \in Making
    BY <1>1, <1>8, <2>3 DEF TestUnpause
  <2> QED
    BY <2>1, <2>2, <2>3
<1>9. ASSUME NEW t \in TxTasks, SetReady(t) PROVE FALSE
  BY <1>9 DEF SetReady
<1> QED
  BY <1>3, <1>4, <1>5, <1>6, <1>7, <1>8, <1>9 DEF PoolNext, PoolStep

LEMMA ToldStep == PoolInv /\ ToldTheTruth /\ [PoolNext]_poolVars => ToldTheTruth'
<1> SUFFICES ASSUME PoolInv, ToldTheTruth, [PoolNext]_poolVars,
                    \A u \in TxTasks : task'[u] \notin {"telling_pause", "telling_ready"}
             PROVE  told' = paused'
  BY DEF ToldTheTruth, At
<1>1. task \in [TxTasks -> TaskStates]
  BY DEF PoolInv, PoolTypeOK
<1>2. (\A u \in TxTasks : task[u] \notin {"telling_pause", "telling_ready"}) => told = paused
  BY DEF ToldTheTruth, At
<1> USE DEF Goes
<1>3. CASE UNCHANGED poolVars
  BY <1>2, <1>3 DEF poolVars
<1>4. CASE LinkOutput \/ Busy \/ Ready
  BY <1>1, <1>2, <1>4, PoolAssumption DEF LinkOutput, Busy, Ready
<1>5. ASSUME NEW t \in TxTasks,
             \/ AllocData(t) \/ AllocCommand(t) \/ CommandFits(t) \/ CommandTooBig(t) \/ FetchAdd(t)
             \/ GiveUp(t) \/ OnHeap(t) \/ FetchSub(t) \/ TestUnpause(t) \/ FreeCommand(t)
      PROVE  told' = paused'
  BY <1>1, <1>2, <1>5 DEF AllocData, AllocCommand, CommandFits, CommandTooBig, FetchAdd,
                          GiveUp, OnHeap, FetchSub, TestUnpause, FreeCommand
<1>6. ASSUME NEW t \in TxTasks, TestPause(t)
      PROVE  told' = paused'
  BY <1>1, <1>2, <1>6 DEF TestPause, HandOut
<1>7. ASSUME NEW t \in TxTasks, SetPaused(t)
      PROVE  told' = paused'
  <2>1. paused
    <3> SUFFICES ASSUME ~paused PROVE FALSE
      OBVIOUS
    <3>1. task' = [task EXCEPT ![t] = "telling_pause"]
      BY <1>7 DEF SetPaused
    <3> QED
      BY <1>1, <3>1
  <2>2. \A u \in TxTasks : task[u] \notin {"telling_pause", "telling_ready"}
    BY <1>1, <1>7, <2>1 DEF SetPaused, HandOut
  <2>3. told' = told /\ paused' = TRUE /\ paused \in BOOLEAN
    BY <1>7 DEF SetPaused, PoolInv, PoolTypeOK
  <2> QED
    BY <1>2, <2>1, <2>2, <2>3, Zenon
<1>8. ASSUME NEW t \in TxTasks, SetReady(t)
      PROVE  told' = paused'
  <2>1. ~paused
    <3> SUFFICES ASSUME paused PROVE FALSE
      OBVIOUS
    <3>1. task' = [task EXCEPT ![t] = "telling_ready"]
      BY <1>8 DEF SetReady
    <3> QED
      BY <1>1, <3>1
  <2>2. \A u \in TxTasks : task[u] \notin {"telling_pause", "telling_ready"}
    BY <1>1, <1>8, <2>1 DEF SetReady
  <2>3. told' = told /\ paused' = FALSE /\ paused \in BOOLEAN
    BY <1>8 DEF SetReady, PoolInv, PoolTypeOK
  <2> QED
    BY <1>2, <2>1, <2>2, <2>3, Zenon
<1>9. ASSUME NEW t \in TxTasks, TellPause(t) \/ TellReady(t)
      PROVE  told' = paused'
  BY <1>9 DEF TellPause, TellReady
<1> QED
  BY <1>3, <1>4, <1>5, <1>6, <1>7, <1>8, <1>9 DEF PoolNext, PoolStep

-----------------------------------------------------------------------------
(* The theorems.                                                           *)

\* The types of mmpktmem_heap.c's state: no command block is made or lost, so the
\* free list holds what has not been handed out.
THEOREM PoolTypes == PoolSpec => []PoolTypeOK
<1>1. PoolInv => PoolTypeOK
  BY DEF PoolInv
<1> QED
  BY <1>1, LedgerAlways, PTL

\* tx_data_pool_pkt_alloc() and _free(): the counter and the heap never have more
\* packets than MMPKTMEM_TX_POOL_N_BLOCKS, and none is lost from the count.
THEOREM PoolHolds == PoolSpec => []WithinThePool
<1>1. PoolInv => WithinThePool
  <2> SUFFICES ASSUME PoolInv PROVE WithinThePool
    OBVIOUS
  <2>1. At(Making) \subseteq At(Kept)
    BY DEF At, Kept
  <2>2. Count(Making) <= Count(Kept)
    BY <2>1, CountNat, FS_Subset DEF Count
  <2>3. packets + Count(Making) <= Blocks
    BY <2>2, CountNat, PoolAssumption DEF PoolInv, PoolTypeOK, Ledger
  <2> QED
    BY <2>3 DEF PoolInv, Ledger, WithinThePool, Count, Counted
<1> QED
  BY <1>1, LedgerAlways, PTL

\* A data path that tx_data_pool_pkt_alloc() has paused is never left with no
\* packet out and no task under way that unpauses it.
THEOREM NoPauseForEver == PoolSpec => []PauseEnds
<1>1. PoolInit => PauseEnds
  BY DEF PoolInit, PauseEnds
<1> QED
  BY <1>1, PauseStep, LedgerAlways, PTL DEF PoolSpec

\* The driver's tx_flow_control_cb(): once no call of it is under way, what it was
\* told last is the pool's flag.
THEOREM LastWordIsTrue == PoolSpec => []ToldTheTruth
<1>1. PoolInit => ToldTheTruth
  BY DEF PoolInit, ToldTheTruth
<1> QED
  BY <1>1, ToldStep, LedgerAlways, PTL DEF PoolSpec
=============================================================================
