--------------------------- MODULE JoystickProofs ---------------------------
(***************************************************************************)
(* The gate, the lock and the joystick, for any number of WebSockets and   *)
(* of frames: the counter behind the gate is right, one task at a time is  *)
(* in the socket, and the three promises of the joystick hold.             *)
(***************************************************************************)
EXTENDS Joystick, FiniteSetTheorems, SequenceTheorems, TLAPS

-----------------------------------------------------------------------------
(* The inductive invariant.                                                *)

\* The control sends in flight.
Flying == {t \in Control : phase[t] # "none"}

\* Counted, not only equal in number: Cardinality says nothing of an infinite set.
GateInv ==
  /\ IsFiniteSet(Flying)
  /\ GateTellsTruth

\* The lock's queue holds each task that writes or waits to, once, and the one
\* that writes is its head.
LockInv ==
  /\ \A i, j \in DOMAIN lockq : lockq[i] = lockq[j] => i = j
  /\ \A t \in Tasks :
       phase[t] \in {"queued", "writing"} <=> \E i \in DOMAIN lockq : lockq[i] = t
  /\ \A t \in Tasks : phase[t] = "writing" => lockq[1] = t

\* No two tasks are between the first byte of a frame and the end of its drain().
OneWriter ==
  \A t, u \in Tasks : phase[t] = "writing" /\ phase[u] = "writing" => t = u

LinkInv == GateTypeOK /\ LockInv /\ GateInv

\* Where the two tasks of a WebSocket are, and their calls of send().
TasksInv(w) ==
  /\ sender[w] = "send" <=> phase[Sender(w)] # "none"
  /\ sender[w] = "cancelled" <=> handler[w] \in {"stopping", "sending", "gone"}
  /\ handler[w] = "sending" <=> phase[Handler(w)] # "none"

\* The last command written is the one of the task that is in drain(); a sender
\* that has a move to write does not believe that nothing moves.
StopInv(w) ==
  /\ phase[Sender(w)] = "writing" => last[w] = cmd[w].kind
  /\ phase[Handler(w)] = "writing" => last[w] = "stop"
  /\ sender[w] = "send" /\ cmd[w].kind = "move" => ~stopped[w]
  /\ stopped[w] => last[w] = "stop"
  /\ handler[w] = "gone" /\ ~failed[w] => last[w] = "stop"

\* The mailbox holds the newest frame; while a command older than that is still
\* unwritten no older one has been written.
StaleInv(w) ==
  /\ pending[w] # <<>> => pending[w][1].n = newest[w].n
  /\ sender[w] = "send" /\ phase[Sender(w)] # "writing" /\ cmd[w].n < newest[w].n
       => late[w] = 0
  /\ late[w] <= 1

StickInv == \A w \in Sockets : TasksInv(w) /\ StopInv(w) /\ StaleInv(w)

\* A probe under way is one of the round that is still counted.
ProbeInv == phase[Probe] # "none" => probing > 0

JoystickInv == LinkInv /\ TypeOK /\ StickInv /\ ProbeInv

-----------------------------------------------------------------------------
(* Sequences: what RemoveFirst leaves.                                     *)

LEMMA LeastElement ==
  ASSUME NEW T, T \subseteq Nat, T # {}
  PROVE  Min(T) \in T
<1>1. PICK x \in T : \A y \in T : ~ (<<y, x>> \in OpToRel(<, Nat))
  BY NatLessThanWellFounded, WFMin
<1>2. \A y, z \in Nat : y < z => <<y, z>> \in OpToRel(<, Nat)
  BY DEF OpToRel
<1>3. \A y \in T : ~ (y < x)
  BY <1>1, <1>2, Zenon
<1>4. \A y \in T : x <= y
  BY <1>3
<1> QED
  BY <1>4 DEF Min

\* r is the sequence q without its k-th element.
LeavesOut(r, q, k) ==
  /\ Len(r) = Len(q) - 1
  /\ \A i \in 1 .. Len(q) - 1 : r[i] = IF i < k THEN q[i] ELSE q[i + 1]

LEMMA RemoveFirstShape ==
  ASSUME NEW S, NEW q \in Seq(S), NEW e
  PROVE  \/ (\A i \in 1 .. Len(q) : q[i] # e) /\ RemoveFirst(q, e) = q
         \/ \E k \in 1 .. Len(q) :
              /\ q[k] = e
              /\ RemoveFirst(q, e) \in Seq(S)
              /\ LeavesOut(RemoveFirst(q, e), q, k)
<1>1. CASE \A i \in 1 .. Len(q) : q[i] # e
  BY <1>1 DEF RemoveFirst
<1>2. CASE \E i \in 1 .. Len(q) : q[i] = e
  <2> DEFINE I == {i \in 1 .. Len(q) : q[i] = e}
             k == Min(I)
             before == SubSeq(q, 1, k - 1)
             after  == SubSeq(q, k + 1, Len(q))
  <2>1. I # {} /\ I \subseteq Nat
    BY <1>2
  <2>2. k \in I
    BY <2>1, LeastElement
  <2>3. RemoveFirst(q, e) = before \o after
    BY <1>2, <2>1 DEF RemoveFirst, RemoveAt, SelectInSeq
  <2>4. k \in 1 .. Len(q) /\ q[k] = e /\ Len(q) \in Nat
    BY <2>2
  <2> HIDE DEF k
  <2>5. /\ before \in Seq(S) /\ Len(before) = k - 1
        /\ \A i \in 1 .. k - 1 : before[i] = q[i]
    <3>1. \A i \in 1 .. k - 1 : q[i] \in S
      BY <2>4, ElementOfSeq
    <3> QED
      BY <2>4, <3>1, SubSeqProperties
  <2>6. /\ after \in Seq(S) /\ Len(after) = Len(q) - k
        /\ \A i \in 1 .. Len(q) - k : after[i] = q[k + i]
    <3>1. \A i \in k + 1 .. Len(q) : q[i] \in S
      BY <2>4, ElementOfSeq
    <3>2. /\ SubSeq(q, k + 1, Len(q)) \in Seq(S)
          /\ Len(SubSeq(q, k + 1, Len(q)))
               = IF k + 1 <= Len(q) THEN Len(q) - (k + 1) + 1 ELSE 0
          /\ \A i \in 1 .. Len(q) - (k + 1) + 1 :
               SubSeq(q, k + 1, Len(q))[i] = q[(k + 1) + i - 1]
      BY <2>4, <3>1, SubSeqProperties
    <3> QED
      BY <2>4, <3>2
  <2> HIDE DEF before, after
  <2>7. /\ before \o after \in Seq(S)
        /\ Len(before \o after) = Len(before) + Len(after)
        /\ \A i \in 1 .. Len(before) + Len(after) :
             (before \o after)[i] = IF i <= Len(before) THEN before[i]
                                                        ELSE after[i - Len(before)]
    BY <2>5, <2>6, ConcatProperties
  <2>8. ASSUME NEW i \in 1 .. Len(q) - 1
        PROVE  (before \o after)[i] = IF i < k THEN q[i] ELSE q[i + 1]
    <3>1. CASE i < k
      BY <2>4, <2>5, <2>6, <2>7, <3>1
    <3>2. CASE ~(i < k)
      <4>1. (before \o after)[i] = after[i - (k - 1)]
        BY <2>4, <2>5, <2>6, <2>7, <3>2
      <4>2. i - (k - 1) \in 1 .. Len(q) - k /\ k + (i - (k - 1)) = i + 1
        BY <2>4, <3>2
      <4> QED
        BY <2>6, <3>2, <4>1, <4>2
    <3> QED
      BY <3>1, <3>2
  <2>9. /\ before \o after \in Seq(S)
        /\ Len(before \o after) = Len(q) - 1
    BY <2>4, <2>5, <2>6, <2>7
  <2> QED
    BY <2>3, <2>4, <2>8, <2>9 DEF LeavesOut
<1> QED
  BY <1>1, <1>2

-----------------------------------------------------------------------------
(* The lock.                                                               *)

Busy == {"yield", "connect", "queued", "writing"}

LEMMA AcquireLock ==
  ASSUME GateTypeOK, LockInv, NEW t \in Tasks, phase[t] \notin {"queued", "writing"}, Acquire(t)
  PROVE  /\ lockq' \in Seq(Tasks)
         /\ LockInv'
         /\ \E p \in {"queued", "writing"} : phase' = [phase EXCEPT ![t] = p]
<1>1. /\ lockq' \in Seq(Tasks) /\ Len(lockq) \in Nat
      /\ Len(lockq') = Len(lockq) + 1
      /\ \A i \in 1 .. Len(lockq) : lockq'[i] = lockq[i] /\ lockq[i] \in Tasks
      /\ lockq'[Len(lockq) + 1] = t
  BY AppendProperties, ElementOfSeq, LenProperties DEF Acquire, GateTypeOK
<1>2. \A i \in 1 .. Len(lockq) : lockq[i] # t
  BY <1>1, LenProperties DEF LockInv, GateTypeOK
<1>3. PICK p \in {"queued", "writing"} :
        phase' = [phase EXCEPT ![t] = p] /\ (p = "writing" <=> lockq = <<>>)
  BY DEF Acquire
<1>4. DOMAIN lockq = 1 .. Len(lockq) /\ DOMAIN lockq' = 1 .. Len(lockq) + 1
  BY <1>1, LenProperties DEF GateTypeOK
<1>5. (\A i, j \in DOMAIN lockq : lockq[i] = lockq[j] => i = j)'
  BY <1>1, <1>2, <1>4 DEF LockInv
<1>6. ASSUME NEW u \in Tasks
      PROVE  phase'[u] \in {"queued", "writing"} <=> \E i \in DOMAIN lockq' : lockq'[i] = u
  <2>1. CASE u = t
    BY <1>1, <1>3, <1>4, <2>1 DEF GateTypeOK
  <2>2. CASE u # t
    <3>1. phase'[u] = phase[u]
      BY <1>3, <2>2 DEF GateTypeOK
    <3> QED
      BY <1>1, <1>4, <2>2, <3>1 DEF LockInv
  <2> QED
    BY <2>1, <2>2
<1>7. ASSUME NEW u \in Tasks, phase'[u] = "writing"
      PROVE  lockq'[1] = u
  <2>1. CASE u = t
    <3>1. lockq = <<>>
      BY <1>3, <1>7, <2>1 DEF GateTypeOK
    <3> QED
      BY <1>1, <2>1, <3>1
  <2>2. CASE u # t
    <3>1. phase[u] = "writing"
      BY <1>3, <1>7, <2>2 DEF GateTypeOK
    <3>2. lockq[1] = u /\ 1 \in DOMAIN lockq
      BY <1>1, <1>4, <3>1 DEF LockInv
    <3> QED
      BY <1>1, <1>4, <3>2
  <2> QED
    BY <2>1, <2>2
<1> QED
  BY <1>1, <1>3, <1>5, <1>6, <1>7 DEF LockInv

LEMMA EnterLock ==
  ASSUME GateTypeOK, LockInv, NEW t \in Tasks, phase[t] \notin {"queued", "writing"}, Enter(t)
  PROVE  /\ lockq' \in Seq(Tasks)
         /\ LockInv'
         /\ \E p \in {"connect", "queued", "writing"} : phase' = [phase EXCEPT ![t] = p]
<1>1. CASE Acquire(t)
  BY <1>1, AcquireLock
<1>2. CASE phase' = [phase EXCEPT ![t] = "connect"] /\ UNCHANGED lockq
  <2>1. \A u \in Tasks : u # t => phase'[u] = phase[u]
    BY <1>2 DEF GateTypeOK
  <2>2. phase'[t] = "connect"
    BY <1>2 DEF GateTypeOK
  <2>3. LockInv'
    BY <1>2, <2>1, <2>2 DEF LockInv
  <2> QED
    BY <1>2, <2>3 DEF GateTypeOK
<1> QED
  BY <1>1, <1>2 DEF Enter

LEMMA YieldLock ==
  ASSUME GateTypeOK, LockInv, NEW t \in Tasks, phase[t] \notin {"queued", "writing"},
         phase' = [phase EXCEPT ![t] = "yield"], lockq' = lockq
  PROVE  LockInv'
<1>1. \A u \in Tasks : u # t => phase'[u] = phase[u]
  BY DEF GateTypeOK
<1>2. phase'[t] = "yield"
  BY DEF GateTypeOK
<1> QED
  BY <1>1, <1>2 DEF LockInv

LEMMA HandoverLock ==
  ASSUME GateTypeOK, LockInv, NEW t \in Tasks, _send_frame(t)
  PROVE  LockInv'
<1>1. phase' = [phase EXCEPT ![t] = "writing"] /\ lockq' = lockq /\ phase[t] = "queued"
  BY DEF _send_frame
<1>2. lockq[1] = t
  <2>1. lockq # <<>> /\ lockq \in Seq(Tasks)
    BY <1>1 DEF LockInv, GateTypeOK
  <2> QED
    BY <2>1 DEF _send_frame
<1>3. \A u \in Tasks : u # t => phase'[u] = phase[u]
  BY <1>1 DEF GateTypeOK
<1>4. phase'[t] = "writing"
  BY <1>1 DEF GateTypeOK
<1> QED
  BY <1>1, <1>2, <1>3, <1>4 DEF LockInv

LEMMA UnwindLock ==
  ASSUME GateTypeOK, LockInv, NEW t \in Tasks, Unwind(t)
  PROVE  lockq' \in Seq(Tasks) /\ LockInv'
<1>1. /\ phase' = [phase EXCEPT ![t] = "none"] /\ lockq' = RemoveFirst(lockq, t)
      /\ lockq \in Seq(Tasks) /\ Len(lockq) \in Nat /\ DOMAIN lockq = 1 .. Len(lockq)
  BY LenProperties DEF Unwind, GateTypeOK
<1>2. phase'[t] = "none" /\ \A u \in Tasks : u # t => phase'[u] = phase[u]
  BY <1>1 DEF GateTypeOK
<1>3. CASE (\A i \in 1 .. Len(lockq) : lockq[i] # t) /\ lockq' = lockq
  BY <1>1, <1>2, <1>3 DEF LockInv
<1>4. ASSUME NEW k \in 1 .. Len(lockq), lockq[k] = t,
             lockq' \in Seq(Tasks), LeavesOut(lockq', lockq, k)
      PROVE  LockInv'
  <2> USE DEF LeavesOut
  <2>1. DOMAIN lockq' = 1 .. Len(lockq) - 1
    BY <1>1, <1>4, LenProperties
  <2>2. \A i \in 1 .. Len(lockq) : i # k => lockq[i] # t
    BY <1>1, <1>4 DEF LockInv
  <2>3. ASSUME NEW i \in DOMAIN lockq', NEW j \in DOMAIN lockq', lockq'[i] = lockq'[j]
        PROVE  i = j
    <3> DEFINE was(n) == IF n < k THEN n ELSE n + 1
    <3>1. was(i) \in DOMAIN lockq /\ was(j) \in DOMAIN lockq
      BY <1>1, <2>1
    <3>2. lockq[was(i)] = lockq[was(j)]
      BY <1>4, <2>1, <2>3
    <3>3. was(i) = was(j)
      BY <3>1, <3>2 DEF LockInv
    <3> QED
      BY <1>1, <2>1, <3>3
  <2>4. ASSUME NEW u \in Tasks
        PROVE  phase'[u] \in {"queued", "writing"} <=> \E i \in DOMAIN lockq' : lockq'[i] = u
    <3>1. CASE u = t
      <4>1. \A i \in DOMAIN lockq' : lockq'[i] # t
        BY <1>1, <1>4, <2>1, <2>2
      <4> QED
        BY <1>2, <3>1, <4>1
    <3>2. CASE u # t
      <4>1. ASSUME NEW i \in DOMAIN lockq, lockq[i] = u
            PROVE  \E j \in DOMAIN lockq' : lockq'[j] = u
        <5>1. i # k
          BY <1>4, <3>2, <4>1
        <5>2. CASE i < k
          BY <1>1, <1>4, <2>1, <4>1, <5>2
        <5>3. CASE i > k
          <6>1. i - 1 \in DOMAIN lockq' /\ ~(i - 1 < k)
            BY <1>1, <2>1, <5>3
          <6>2. lockq'[i - 1] = lockq[i]
            BY <1>1, <1>4, <2>1, <6>1
          <6> QED
            BY <4>1, <6>1, <6>2
        <5> QED
          BY <1>1, <5>1, <5>2, <5>3
      <4>2. ASSUME NEW j \in DOMAIN lockq', lockq'[j] = u
            PROVE  \E i \in DOMAIN lockq : lockq[i] = u
        BY <1>1, <1>4, <2>1, <4>2
      <4> QED
        BY <1>2, <3>2, <4>1, <4>2 DEF LockInv
    <3> QED
      BY <3>1, <3>2
  <2>5. ASSUME NEW u \in Tasks, phase'[u] = "writing"
        PROVE  lockq'[1] = u
    <3>1. u # t /\ phase[u] = "writing"
      BY <1>2, <2>5
    <3>2. lockq[1] = u
      BY <3>1 DEF LockInv
    <3>3. 1 < k /\ 1 \in 1 .. Len(lockq) - 1
      BY <1>1, <1>4, <3>1, <3>2
    <3> QED
      BY <1>4, <3>2, <3>3
  <2> QED
    BY <2>3, <2>4, <2>5 DEF LockInv
<1>5. \/ (\A i \in 1 .. Len(lockq) : lockq[i] # t) /\ lockq' = lockq
      \/ \E k \in 1 .. Len(lockq) :
           lockq[k] = t /\ lockq' \in Seq(Tasks) /\ LeavesOut(lockq', lockq, k)
  BY <1>1, RemoveFirstShape
<1> QED
  BY <1>1, <1>3, <1>4, <1>5

-----------------------------------------------------------------------------
(* The gate.                                                               *)

LEMMA TakesOff ==
  ASSUME GateTypeOK, GateInv, NEW t \in Control, phase[t] = "none",
         NEW p \in Busy, phase' = [phase EXCEPT ![t] = p],
         control_inflight' = control_inflight + 1, control_idle' = FALSE
  PROVE  GateInv'
<1>1. Flying' = Flying \union {t} /\ t \notin Flying
  BY GateAssumption DEF GateTypeOK, Flying, Busy
<1>2. /\ IsFiniteSet(Flying') /\ Cardinality(Flying') = Cardinality(Flying) + 1
      /\ Flying' # {}
  BY <1>1, FS_AddElement DEF GateInv
<1> QED
  BY <1>1, <1>2 DEF GateInv, GateTellsTruth, Flying

LEMMA Lands ==
  ASSUME GateTypeOK, GateInv, NEW t \in Tasks, phase[t] # "none", Unwind(t)
  PROVE  GateInv' /\ control_inflight' \in Nat /\ control_idle' \in BOOLEAN
<1>1. /\ phase' = [phase EXCEPT ![t] = "none"]
      /\ control_inflight' = control_inflight - (IF t \in Control THEN 1 ELSE 0)
      /\ control_idle' = (control_idle \/ (t \in Control /\ control_inflight' <= 0))
  BY DEF Unwind
<1>2. IsFiniteSet(Flying) /\ Cardinality(Flying) \in Nat /\ (Cardinality(Flying) = 0 <=> Flying = {})
  BY FS_CardinalityType, FS_EmptySet DEF GateInv
<1>3. control_inflight = Cardinality(Flying) /\ (control_idle <=> Flying = {})
  BY DEF GateInv, GateTellsTruth, Flying
<1>4. CASE t \in Control
  <2>1. Flying' = Flying \ {t} /\ t \in Flying
    BY <1>1, <1>4 DEF GateTypeOK, Flying
  <2>2. IsFiniteSet(Flying') /\ Cardinality(Flying') = Cardinality(Flying) - 1
    BY <1>2, <2>1, FS_RemoveElement
  <2>3. Cardinality(Flying') \in Nat /\ (Cardinality(Flying') = 0 <=> Flying' = {})
    BY <2>2, FS_CardinalityType, FS_EmptySet
  <2>4. control_inflight' = Cardinality(Flying')
    BY <1>1, <1>3, <1>4, <2>2
  <2>5. ~control_idle
    BY <1>3, <2>1
  <2>6. control_inflight' <= 0 <=> Flying' = {}
    BY <2>3, <2>4
  <2>7. control_idle' <=> Flying' = {}
    BY <1>1, <1>4, <2>5, <2>6, Zenon
  <2>8. control_idle' \in BOOLEAN
    BY <1>1, <1>4, <2>5, Zenon
  <2> QED
    BY <2>2, <2>3, <2>4, <2>7, <2>8 DEF GateInv, GateTellsTruth, Flying
<1>5. CASE t \notin Control
  <2>1. Flying' = Flying
    BY <1>1, <1>5 DEF GateTypeOK, Flying
  <2>2. control_inflight' = control_inflight
    BY <1>1, <1>5 DEF GateTypeOK
  <2>3. control_idle' = control_idle /\ control_idle' \in BOOLEAN
    BY <1>1, <1>5, Zenon DEF GateTypeOK
  <2> QED
    BY <1>2, <1>3, <2>1, <2>2, <2>3 DEF GateInv, GateTellsTruth, Flying, GateTypeOK
<1> QED
  BY <1>4, <1>5

LEMMA StaysUp ==
  ASSUME GateTypeOK, GateInv, NEW t \in Tasks, t \in Control => phase[t] # "none",
         NEW p \in Busy, phase' = [phase EXCEPT ![t] = p],
         UNCHANGED <<control_inflight, control_idle>>
  PROVE  GateInv'
<1>1. Flying' = Flying
  BY DEF GateTypeOK, Flying, Busy
<1> QED
  BY <1>1 DEF GateInv, GateTellsTruth, Flying

\* What the three ways through the gate and the lock do to `phase`, and that they
\* keep what holds of both.
LEMMA SendStep ==
  ASSUME LinkInv, NEW t \in Tasks, send(t)
  PROVE  /\ LinkInv'
         /\ phase[t] = "none"
         /\ \E p \in Busy : phase' = [phase EXCEPT ![t] = p]
<1>1. GateTypeOK /\ LockInv /\ GateInv /\ phase[t] = "none"
  BY DEF LinkInv, send
<1>2. ASSUME NEW p \in Busy, phase' = [phase EXCEPT ![t] = p], lockq' \in Seq(Tasks), LockInv',
             \/ /\ t \in Control /\ control_inflight' = control_inflight + 1
                /\ control_idle' = FALSE
             \/ t \notin Control /\ UNCHANGED <<control_inflight, control_idle>>
      PROVE  LinkInv'
  <2>1. GateTypeOK'
    <3>1. control_idle' \in BOOLEAN
      BY <1>1, <1>2, Zenon DEF GateTypeOK
    <3>2. control_inflight' \in Nat
      BY <1>1, <1>2 DEF GateTypeOK
    <3>3. phase' \in [Tasks -> {"none", "yield", "connect", "queued", "writing"}]
      BY <1>1, <1>2 DEF GateTypeOK, Busy
    <3> QED
      BY <1>2, <3>1, <3>2, <3>3 DEF GateTypeOK
  <2>2. GateInv'
    BY <1>1, <1>2, TakesOff, StaysUp
  <2> QED
    BY <1>2, <2>1, <2>2 DEF LinkInv
<1>3. \/ Enter(t)
      \/ phase' = [phase EXCEPT ![t] = "yield"] /\ lockq' = lockq
  BY DEF send
<1>4. \/ /\ t \in Control /\ control_inflight' = control_inflight + 1
         /\ control_idle' = FALSE
      \/ t \notin Control /\ UNCHANGED <<control_inflight, control_idle>>
  BY DEF send
<1>5. CASE Enter(t)
  <2>1. /\ lockq' \in Seq(Tasks) /\ LockInv'
        /\ \E p \in {"connect", "queued", "writing"} : phase' = [phase EXCEPT ![t] = p]
    BY <1>1, <1>5, EnterLock
  <2> QED
    BY <1>1, <1>2, <1>4, <2>1 DEF Busy
<1>6. CASE phase' = [phase EXCEPT ![t] = "yield"] /\ lockq' = lockq
  <2>1. LockInv' /\ lockq' \in Seq(Tasks)
    BY <1>1, <1>6, YieldLock DEF GateTypeOK
  <2> QED
    BY <1>1, <1>2, <1>4, <1>6, <2>1 DEF Busy
<1> QED
  BY <1>3, <1>5, <1>6

LEMMA AdvancesStep ==
  ASSUME LinkInv, NEW t \in Tasks, Advances(t)
  PROVE  /\ LinkInv'
         /\ phase[t] \in {"yield", "connect", "queued"}
         /\ \E p \in Busy : phase' = [phase EXCEPT ![t] = p]
<1>1. GateTypeOK /\ LockInv /\ GateInv
  BY DEF LinkInv
<1>2. /\ phase[t] \in {"yield", "connect", "queued"}
      /\ UNCHANGED <<control_inflight, control_idle>>
  BY DEF Advances, Yielded, Connected, _send_frame
<1>3. /\ lockq' \in Seq(Tasks) /\ LockInv'
      /\ \E p \in Busy : phase' = [phase EXCEPT ![t] = p]
  <2>1. CASE Yielded(t)
    BY <1>1, <2>1, EnterLock DEF Yielded, Busy
  <2>2. CASE Connected(t)
    BY <1>1, <2>2, AcquireLock DEF Connected, Busy
  <2>3. CASE _send_frame(t)
    <3>1. LockInv'
      BY <1>1, <2>3, HandoverLock
    <3> QED
      BY <1>1, <2>3, <3>1 DEF _send_frame, GateTypeOK, Busy
  <2> QED
    BY <2>1, <2>2, <2>3 DEF Advances
<1>4. GateTypeOK'
  BY <1>1, <1>2, <1>3 DEF GateTypeOK, Busy
<1>5. GateInv'
  BY <1>1, <1>2, <1>3, StaysUp
<1> QED
  BY <1>2, <1>3, <1>4, <1>5 DEF LinkInv

LEMMA UnwindStep ==
  ASSUME LinkInv, NEW t \in Tasks, phase[t] # "none", Unwind(t)
  PROVE  LinkInv' /\ phase' = [phase EXCEPT ![t] = "none"]
<1>1. GateTypeOK /\ LockInv /\ GateInv
  BY DEF LinkInv
<1>2. lockq' \in Seq(Tasks) /\ LockInv'
  BY <1>1, UnwindLock
<1>3. GateInv' /\ control_inflight' \in Nat /\ control_idle' \in BOOLEAN
  BY <1>1, Lands
<1>4. phase' = [phase EXCEPT ![t] = "none"]
  BY DEF Unwind
<1>5. GateTypeOK'
  BY <1>1, <1>2, <1>3, <1>4 DEF GateTypeOK
<1> QED
  BY <1>2, <1>3, <1>4, <1>5 DEF LinkInv

LEMMA LinkStays ==
  ASSUME LinkInv, UNCHANGED gateVars
  PROVE  LinkInv'
BY DEF LinkInv, GateTypeOK, LockInv, GateInv, GateTellsTruth, Flying, gateVars

-----------------------------------------------------------------------------
(* The joystick: one lemma per action.                                     *)

LEMMA Names ==
  /\ Probe \in Tasks
  /\ \A w \in Sockets :
       /\ Sender(w) \in Tasks /\ Handler(w) \in Tasks
       /\ Sender(w) # Handler(w) /\ Sender(w) # Probe /\ Handler(w) # Probe
       /\ \A v \in Sockets \ {w} :
            /\ Sender(v) # Sender(w) /\ Sender(v) # Handler(w)
            /\ Handler(v) # Sender(w) /\ Handler(v) # Handler(w)
  BY JoystickAssumption DEF Sender, Handler

\* Nothing of v that the invariant speaks of is changed.
Untouched(v) ==
  /\ handler'[v] = handler[v] /\ sender'[v] = sender[v] /\ cmd'[v] = cmd[v]
  /\ stopped'[v] = stopped[v] /\ pending'[v] = pending[v] /\ newest'[v] = newest[v]
  /\ last'[v] = last[v] /\ late'[v] = late[v] /\ failed'[v] = failed[v]
  /\ phase'[Sender(v)] = phase[Sender(v)] /\ phase'[Handler(v)] = phase[Handler(v)]

SocketInv(w) == TasksInv(w) /\ StopInv(w) /\ StaleInv(w)

LEMMA UntouchedKeeps ==
  ASSUME NEW v \in Sockets, SocketInv(v), Untouched(v)
  PROVE  SocketInv(v)'
BY DEF SocketInv, TasksInv, StopInv, StaleInv, Untouched

\* An action on w's variables, with at most one of w's tasks moving at the gate.
LEMMA Only ==
  ASSUME NEW w \in Sockets, StickInv, SocketInv(w)',
         \A v \in Sockets \ {w} : Untouched(v)
  PROVE  StickInv'
BY UntouchedKeeps DEF StickInv, SocketInv

\* Where a task of w moves at the gate the others stay.
LEMMA OthersStay ==
  ASSUME phase \in [Tasks -> {"none", "yield", "connect", "queued", "writing"}],
         NEW w \in Sockets, NEW t \in {Sender(w), Handler(w)},
         NEW p \in {"none", "yield", "connect", "queued", "writing"},
         phase' = [phase EXCEPT ![t] = p]
  PROVE  /\ phase'[t] = p
         /\ \A u \in Tasks \ {t} : phase'[u] = phase[u]
         /\ \A v \in Sockets \ {w} :
              phase'[Sender(v)] = phase[Sender(v)] /\ phase'[Handler(v)] = phase[Handler(v)]
         /\ phase'[Probe] = phase[Probe]
BY Names

LEMMA BrowserStep ==
  ASSUME JoystickInv, NEW w \in Sockets, sendJoystick(w) \/ Leave(w)
  PROVE  JoystickInv'
<1> USE DEF JoystickInv
<1>1. LinkInv'
  BY LinkStays DEF sendJoystick, Leave
<1>2. UNCHANGED <<phase, gateVars, newest, mailVars, handler, senderVars, driving, probeVars, sentVars>>
  BY DEF sendJoystick, Leave, gateVars
<1>3. StickInv' /\ ProbeInv'
  BY <1>2 DEF StickInv, TasksInv, StopInv, StaleInv, ProbeInv, mailVars, senderVars,
     probeVars, sentVars
<1>4. open' \in [Sockets -> BOOLEAN]
  BY DEF sendJoystick, Leave, TypeOK
<1>5. inbox' \in [Sockets -> Seq(Frame)]
  <2>1. CASE sendJoystick(w)
    <3>1. newest[w].n + Len(inbox[w]) + 1 \in Nat
      BY DEF TypeOK, Frame
    <3>2. PICK f \in Frame : inbox' = [inbox EXCEPT ![w] = Append(@, f)]
      BY <2>1, <3>1 DEF sendJoystick, Frame
    <3> QED
      BY <3>2 DEF TypeOK
  <2>2. CASE Leave(w)
    <3>1. inbox' = [inbox EXCEPT ![w] = inbox[w]] \/ inbox' = [inbox EXCEPT ![w] = <<>>]
      BY <2>2 DEF Leave
    <3>2. inbox \in [Sockets -> Seq(Frame)] /\ <<>> \in Seq(Frame)
      BY DEF TypeOK
    <3> QED
      BY <3>1, <3>2
  <2> QED
    BY <2>1, <2>2
<1>6. TypeOK'
  BY <1>1, <1>2, <1>4, <1>5 DEF LinkInv, TypeOK, mailVars, senderVars, probeVars, sentVars
<1> QED
  BY <1>1, <1>3, <1>6

LEMMA ReceiveStep ==
  ASSUME JoystickInv, NEW w \in Sockets, Receive(w)
  PROVE  JoystickInv'
<1> USE DEF JoystickInv
<1>1. LinkInv' /\ phase' = phase /\ ProbeInv'
  BY LinkStays DEF Receive, gateVars, ProbeInv, probeVars
<1> DEFINE frame == Head(inbox[w])
<1>2. frame \in Frame /\ Tail(inbox[w]) \in Seq(Frame)
  BY HeadTailProperties DEF Receive, TypeOK
<1>3. /\ newest' = [newest EXCEPT ![w] = frame]
      /\ pending' = [pending EXCEPT ![w] = <<frame>>]
      /\ driving' = (frame.kind = "move")
      /\ inbox' = [inbox EXCEPT ![w] = Tail(@)]
      /\ have_new' = [have_new EXCEPT ![w] = TRUE]
      /\ late' = [late EXCEPT ![w] = 0]
      /\ UNCHANGED <<open, handler, sender, cmd, stopped, probing, rounds, last, failed>>
  BY DEF Receive, senderVars, probeVars
<1> HIDE DEF frame
<1>4. TypeOK'
  <2>1. GateTypeOK' /\ driving' \in BOOLEAN
    BY <1>1, <1>3 DEF LinkInv
  <2>2. <<frame>> \in Seq(Frame) /\ Len(<<frame>>) = 1
    BY <1>2
  <2> QED
    BY <1>2, <1>3, <2>1, <2>2 DEF TypeOK
<1>5. SocketInv(w)'
  <2>1. newest'[w] = frame /\ pending'[w] = <<frame>> /\ late'[w] = 0
    BY <1>3 DEF TypeOK
  <2>2. TasksInv(w)' /\ StopInv(w)'
    BY <1>1, <1>3 DEF StickInv, TasksInv, StopInv
  <2>3. StaleInv(w)'
    BY <2>1 DEF StaleInv
  <2> QED
    BY <2>2, <2>3 DEF SocketInv
<1>6. \A v \in Sockets \ {w} : Untouched(v)
  BY <1>1, <1>3 DEF Untouched, TypeOK
<1> QED
  BY <1>1, <1>4, <1>5, <1>6, Only

LEMMA DisconnectStep ==
  ASSUME JoystickInv, NEW w \in Sockets, Disconnect(w)
  PROVE  JoystickInv'
<1> USE DEF JoystickInv
<1>1. LinkInv' /\ phase' = phase /\ ProbeInv'
  BY LinkStays DEF Disconnect, gateVars, ProbeInv, probeVars
<1>2. /\ handler[w] = "receive" /\ handler' = [handler EXCEPT ![w] = "cancel"]
      /\ UNCHANGED <<stickVars, mailVars, senderVars, driving, probeVars, sentVars>>
  BY DEF Disconnect
<1> USE DEF stickVars, mailVars, senderVars, probeVars, sentVars
<1>3. TypeOK'
  BY <1>1, <1>2 DEF TypeOK, LinkInv
<1>4. SocketInv(w)'
  BY <1>1, <1>2 DEF SocketInv, StickInv, TasksInv, StopInv, StaleInv, TypeOK
<1>5. \A v \in Sockets \ {w} : Untouched(v)
  BY <1>1, <1>2 DEF Untouched, TypeOK
<1> QED
  BY <1>1, <1>3, <1>4, <1>5, Only

LEMMA SenderCancelledStep ==
  ASSUME JoystickInv, NEW w \in Sockets, SenderCancelled(w)
  PROVE  JoystickInv'
<1> USE DEF JoystickInv
<1>1. /\ handler[w] = "cancel"
      /\ handler' = [handler EXCEPT ![w] = "stopping"]
      /\ sender' = [sender EXCEPT ![w] = "cancelled"]
      /\ cmd' = [cmd EXCEPT ![w] = NoFrame]
      /\ UNCHANGED <<stickVars, mailVars, stopped, driving, probeVars, sentVars>>
  BY DEF SenderCancelled
<1> USE DEF stickVars, mailVars, probeVars, sentVars
<1>2. Sender(w) \in Tasks
  BY Names
<1>3. /\ LinkInv' /\ phase'[Sender(w)] = "none" /\ phase'[Handler(w)] = phase[Handler(w)]
      /\ phase'[Probe] = phase[Probe]
      /\ \A v \in Sockets \ {w} :
           phase'[Sender(v)] = phase[Sender(v)] /\ phase'[Handler(v)] = phase[Handler(v)]
  <2>1. CASE phase[Sender(w)] # "none"
    <3>1. LinkInv' /\ phase' = [phase EXCEPT ![Sender(w)] = "none"]
      BY <1>2, <2>1, UnwindStep DEF SenderCancelled
    <3> QED
      BY <3>1, OthersStay, Names DEF LinkInv, GateTypeOK
  <2>2. CASE phase[Sender(w)] = "none"
    BY <2>2, LinkStays DEF SenderCancelled, gateVars
  <2> QED
    BY <2>1, <2>2
<1>4. TypeOK'
  BY <1>1, <1>3 DEF TypeOK, LinkInv, NoFrame, Frame
<1>5. SocketInv(w)'
  BY <1>1, <1>3 DEF SocketInv, StickInv, TasksInv, StopInv, StaleInv, TypeOK, NoFrame
<1>6. \A v \in Sockets \ {w} : Untouched(v)
  BY <1>1, <1>3 DEF Untouched, TypeOK
<1>7. ProbeInv'
  BY <1>1, <1>3 DEF ProbeInv
<1> QED
  BY <1>3, <1>4, <1>5, <1>6, <1>7, Only

\* What the history variables become when a task of w gets as far as the socket.
LEMMA WrittenStep ==
  ASSUME TypeOK, NEW w \in Sockets, NEW t, NEW command \in Frame, Written(w, t, command)
  PROVE  /\ last' \in [Sockets -> {"move", "stop"}] /\ late' \in [Sockets -> Nat]
         /\ \A v \in Sockets \ {w} : last'[v] = last[v] /\ late'[v] = late[v]
         /\ phase[t] # "writing" /\ phase'[t] = "writing"
              => /\ last'[w] = command.kind
                 /\ late'[w] = IF command.n < newest[w].n THEN late[w] + 1 ELSE late[w]
         /\ ~(phase[t] # "writing" /\ phase'[t] = "writing")
              => last'[w] = last[w] /\ late'[w] = late[w]
<1>1. /\ last \in [Sockets -> {"move", "stop"}] /\ late \in [Sockets -> Nat]
      /\ command.kind \in {"move", "stop"}
  BY DEF TypeOK, Frame
<1>2. CASE phase[t] # "writing" /\ phase'[t] = "writing"
  <2>1. last' = [last EXCEPT ![w] = command.kind]
    BY <1>2 DEF Written
  <2>2. late' = [late EXCEPT ![w] = IF command.n < newest[w].n THEN late[w] + 1 ELSE late[w]]
    BY <1>2 DEF Written
  <2>3. (IF command.n < newest[w].n THEN late[w] + 1 ELSE late[w]) \in Nat
    BY <1>1
  <2> HIDE DEF Frame
  <2>4. last'[w] = command.kind /\ last' \in [Sockets -> {"move", "stop"}]
        /\ \A v \in Sockets \ {w} : last'[v] = last[v]
    BY <1>1, <2>1
  <2>5. /\ late'[w] = IF command.n < newest[w].n THEN late[w] + 1 ELSE late[w]
        /\ late' \in [Sockets -> Nat]
        /\ \A v \in Sockets \ {w} : late'[v] = late[v]
    BY <1>1, <2>2, <2>3
  <2> QED
    BY <1>2, <2>4, <2>5
<1>3. CASE ~(phase[t] # "writing" /\ phase'[t] = "writing")
  BY <1>1, <1>3 DEF Written
<1> QED
  BY <1>2, <1>3

LEMMA FinalStopStep ==
  ASSUME JoystickInv, NEW w \in Sockets, FinalStop(w) \/ FinalStopAdvances(w)
  PROVE  JoystickInv'
<1> USE DEF JoystickInv
<1>1. Handler(w) \in Tasks
  BY Names
<1>2. /\ LinkInv' /\ phase'[Handler(w)] # "none"
      /\ phase'[Sender(w)] = phase[Sender(w)] /\ phase'[Probe] = phase[Probe]
      /\ \A v \in Sockets \ {w} :
           phase'[Sender(v)] = phase[Sender(v)] /\ phase'[Handler(v)] = phase[Handler(v)]
      /\ phase[Handler(w)] # "writing"
      /\ FinalStopAdvances(w) => phase[Handler(w)] # "none"
  <2>1. /\ LinkInv' /\ phase[Handler(w)] # "writing"
        /\ FinalStopAdvances(w) => phase[Handler(w)] # "none"
    BY <1>1, SendStep, AdvancesStep DEF FinalStop, FinalStopAdvances
  <2>2. PICK p \in Busy : phase' = [phase EXCEPT ![Handler(w)] = p]
    BY <1>1, SendStep, AdvancesStep DEF FinalStop, FinalStopAdvances
  <2> QED
    BY <2>1, <2>2, OthersStay, Names DEF LinkInv, GateTypeOK, Busy
<1>3. /\ handler'[w] = "sending" /\ handler' \in [Sockets -> {"receive", "cancel", "stopping", "sending", "gone"}]
      /\ \A v \in Sockets \ {w} : handler'[v] = handler[v]
      /\ sender[w] = "cancelled"
      /\ driving' \in BOOLEAN
  <2>1. CASE FinalStop(w)
    BY <2>1 DEF FinalStop, TypeOK, StickInv, TasksInv
  <2>2. CASE FinalStopAdvances(w)
    <3>1. handler[w] = "sending" /\ handler' = handler /\ driving' = driving
      BY <1>2, <2>2 DEF FinalStopAdvances, StickInv, TasksInv
    <3> QED
      BY <3>1 DEF TypeOK, StickInv, TasksInv
  <2> QED
    BY <2>1, <2>2
<1>4. UNCHANGED <<stickVars, mailVars, senderVars, probeVars, failed>>
  BY DEF FinalStop, FinalStopAdvances
<1> USE DEF stickVars, mailVars, senderVars, probeVars
<1>5. StopCommand(w) \in Frame /\ StopCommand(w).n = newest[w].n /\ StopCommand(w).kind = "stop"
  BY DEF StopCommand, Frame, TypeOK
<1>6. /\ last' \in [Sockets -> {"move", "stop"}] /\ late' \in [Sockets -> Nat]
      /\ \A v \in Sockets \ {w} : last'[v] = last[v] /\ late'[v] = late[v]
      /\ late'[w] = late[w]
      /\ phase'[Handler(w)] = "writing" => last'[w] = "stop"
      /\ phase'[Handler(w)] # "writing" => last'[w] = last[w]
  <2>1. Written(w, Handler(w), StopCommand(w))
    BY DEF FinalStop, FinalStopAdvances
  <2>2. newest[w].n \in Nat
    BY DEF TypeOK, Frame
  <2> QED
    BY <1>2, <1>5, <2>1, <2>2, WrittenStep
<1>7. TypeOK'
  BY <1>2, <1>3, <1>4, <1>6 DEF TypeOK, LinkInv
<1>8. SocketInv(w)'
  BY <1>2, <1>3, <1>4, <1>6 DEF SocketInv, StickInv, TasksInv, StopInv, StaleInv, TypeOK
<1>9. \A v \in Sockets \ {w} : Untouched(v)
  BY <1>2, <1>3, <1>4, <1>6 DEF Untouched, TypeOK
<1>10. ProbeInv'
  BY <1>2, <1>4 DEF ProbeInv
<1> QED
  BY <1>2, <1>7, <1>8, <1>9, <1>10, Only

LEMMA GoneStep ==
  ASSUME JoystickInv, NEW w \in Sockets, Gone(w)
  PROVE  JoystickInv'
<1> USE DEF JoystickInv
<1>1. /\ handler[w] = "sending" /\ handler' = [handler EXCEPT ![w] = "gone"]
      /\ \/ phase[Handler(w)] = "writing" /\ failed' = [failed EXCEPT ![w] = FALSE]
         \/ failed' = [failed EXCEPT ![w] = TRUE]
      /\ UNCHANGED <<stickVars, mailVars, senderVars, driving, probeVars, last, late>>
      /\ Unwind(Handler(w)) /\ phase[Handler(w)] # "none"
  BY DEF Gone, Returns, Raises
<1> USE DEF stickVars, mailVars, senderVars, probeVars
<1>2. /\ LinkInv' /\ phase'[Handler(w)] = "none"
      /\ phase'[Sender(w)] = phase[Sender(w)] /\ phase'[Probe] = phase[Probe]
      /\ \A v \in Sockets \ {w} :
           phase'[Sender(v)] = phase[Sender(v)] /\ phase'[Handler(v)] = phase[Handler(v)]
  <2>1. LinkInv' /\ phase' = [phase EXCEPT ![Handler(w)] = "none"]
    BY <1>1, Names, UnwindStep
  <2> QED
    BY <2>1, OthersStay, Names DEF LinkInv, GateTypeOK
<1>3. TypeOK'
  BY <1>1, <1>2 DEF TypeOK, LinkInv
<1>4. SocketInv(w)'
  BY <1>1, <1>2 DEF SocketInv, StickInv, TasksInv, StopInv, StaleInv, TypeOK
<1>5. \A v \in Sockets \ {w} : Untouched(v)
  BY <1>1, <1>2 DEF Untouched, TypeOK
<1>6. ProbeInv'
  BY <1>1, <1>2 DEF ProbeInv
<1> QED
  BY <1>2, <1>3, <1>4, <1>5, <1>6, Only

\* A command taken from the mailbox is the newest frame.
LEMMA TakeCommandStep ==
  ASSUME JoystickInv, NEW w \in Sockets, TakeMove(w) \/ TakeStop(w)
  PROVE  JoystickInv'
<1> USE DEF JoystickInv
<1> DEFINE frame == Head(pending[w])
<1>1. /\ Running(w) /\ sender[w] = "wait" /\ pending[w] # <<>>
      /\ have_new' = [have_new EXCEPT ![w] = FALSE]
      /\ pending' = [pending EXCEPT ![w] = <<>>]
      /\ cmd' = [cmd EXCEPT ![w] = frame]
      /\ sender' = [sender EXCEPT ![w] = "send"]
      /\ send(Sender(w))
      /\ Written(w, Sender(w), cmd'[w])
      /\ UNCHANGED <<stickVars, handler, driving, probeVars, failed>>
  BY DEF TakeMove, TakeStop, Take
<1>2. \/ frame.kind = "move" /\ stopped' = [stopped EXCEPT ![w] = FALSE]
      \/ frame.kind = "stop" /\ stopped' = stopped /\ ~stopped[w]
  BY DEF TakeMove, TakeStop
<1> USE DEF stickVars, probeVars
<1>3. frame \in Frame /\ frame.n = newest[w].n
  <2>1. frame \in Frame /\ frame = pending[w][1]
    BY <1>1, HeadTailProperties DEF TypeOK
  <2> QED
    BY <1>1, <2>1 DEF StickInv, StaleInv
<1> HIDE DEF frame
<1>4. /\ LinkInv' /\ phase[Sender(w)] = "none" /\ phase'[Sender(w)] # "none"
      /\ phase'[Handler(w)] = phase[Handler(w)] /\ phase'[Probe] = phase[Probe]
      /\ \A v \in Sockets \ {w} :
           phase'[Sender(v)] = phase[Sender(v)] /\ phase'[Handler(v)] = phase[Handler(v)]
  <2>1. LinkInv' /\ phase[Sender(w)] = "none"
    BY <1>1, Names, SendStep
  <2>2. PICK p \in Busy : phase' = [phase EXCEPT ![Sender(w)] = p]
    BY <1>1, Names, SendStep
  <2> QED
    BY <2>1, <2>2, OthersStay, Names DEF LinkInv, GateTypeOK, Busy
<1>5. cmd'[w] = frame
  BY <1>1 DEF TypeOK
<1>6. /\ last' \in [Sockets -> {"move", "stop"}] /\ late' \in [Sockets -> Nat]
      /\ \A v \in Sockets \ {w} : last'[v] = last[v] /\ late'[v] = late[v]
      /\ late'[w] = late[w]
      /\ phase'[Sender(w)] = "writing" => last'[w] = frame.kind
      /\ phase'[Sender(w)] # "writing" => last'[w] = last[w]
  <2>1. newest[w].n \in Nat /\ ~(frame.n < newest[w].n)
    BY <1>3 DEF TypeOK, Frame
  <2> QED
    BY <1>1, <1>3, <1>4, <1>5, <2>1, WrittenStep
<1>7. TypeOK'
  <2>1. GateTypeOK'
    BY <1>4 DEF LinkInv
  <2>2. stopped' \in [Sockets -> BOOLEAN]
    BY <1>2 DEF TypeOK
  <2>3. cmd' \in [Sockets -> Frame]
    BY <1>1, <1>3 DEF TypeOK
  <2>4. pending' \in [Sockets -> Seq(Frame)] /\ \A v \in Sockets : Len(pending'[v]) <= 1
    BY <1>1 DEF TypeOK
  <2>5. /\ have_new' \in [Sockets -> BOOLEAN]
        /\ sender' \in [Sockets -> {"wait", "send", "backoff", "cancelled"}]
    BY <1>1 DEF TypeOK
  <2> QED
    BY <1>1, <1>6, <2>1, <2>2, <2>3, <2>4, <2>5 DEF TypeOK
<1>8. SocketInv(w)'
  <2>1. ~stopped'[w] /\ sender'[w] = "send" /\ pending'[w] = <<>> /\ newest' = newest
    BY <1>1, <1>2 DEF TypeOK
  <2>2. handler[w] \notin {"stopping", "sending", "gone"} /\ handler' = handler
        /\ phase'[Handler(w)] = "none"
    BY <1>1, <1>4 DEF StickInv, TasksInv
  <2>3. TasksInv(w)' /\ StopInv(w)'
    BY <1>4, <1>5, <1>6, <2>1, <2>2 DEF TasksInv, StopInv
  <2>4. ~(frame.n < newest[w].n)
    BY <1>3 DEF TypeOK, Frame
  <2>5. StaleInv(w)'
    BY <1>5, <1>6, <2>1, <2>4 DEF StickInv, StaleInv
  <2> QED
    BY <2>3, <2>5 DEF SocketInv
<1>9. \A v \in Sockets \ {w} : Untouched(v)
  <2>1. \A v \in Sockets \ {w} : stopped'[v] = stopped[v]
    BY <1>2 DEF TypeOK
  <2> QED
    BY <1>1, <1>4, <1>6, <2>1 DEF Untouched, TypeOK
<1>10. ProbeInv'
  BY <1>1, <1>4 DEF ProbeInv
<1> QED
  BY <1>4, <1>7, <1>8, <1>9, <1>10, Only

LEMMA TakeNothingStep ==
  ASSUME JoystickInv, NEW w \in Sockets, TakeNothing(w)
  PROVE  JoystickInv'
<1> USE DEF JoystickInv
<1>1. LinkInv' /\ phase' = phase /\ ProbeInv'
  BY LinkStays DEF TakeNothing, gateVars, ProbeInv, probeVars
<1>2. /\ have_new' = [have_new EXCEPT ![w] = FALSE]
      /\ pending' = [pending EXCEPT ![w] = <<>>]
      /\ UNCHANGED <<stickVars, handler, senderVars, driving, probeVars, sentVars>>
  BY DEF TakeNothing, Take
<1> USE DEF stickVars, senderVars, probeVars, sentVars
<1>3. TypeOK'
  BY <1>1, <1>2 DEF TypeOK, LinkInv
<1>4. SocketInv(w)'
  BY <1>1, <1>2 DEF SocketInv, StickInv, TasksInv, StopInv, StaleInv, TypeOK
<1>5. \A v \in Sockets \ {w} : Untouched(v)
  BY <1>1, <1>2 DEF Untouched, TypeOK
<1> QED
  BY <1>1, <1>3, <1>4, <1>5, Only

LEMMA SendAdvancesStep ==
  ASSUME JoystickInv, NEW w \in Sockets, SendAdvances(w)
  PROVE  JoystickInv'
<1> USE DEF JoystickInv
<1>1. /\ Running(w) /\ Advances(Sender(w)) /\ Written(w, Sender(w), cmd[w])
      /\ UNCHANGED <<stickVars, mailVars, handler, senderVars, driving, probeVars, failed>>
  BY DEF SendAdvances
<1> USE DEF stickVars, mailVars, senderVars, probeVars
<1>2. /\ LinkInv' /\ phase[Sender(w)] \notin {"none", "writing"} /\ phase'[Sender(w)] # "none"
      /\ phase'[Handler(w)] = phase[Handler(w)] /\ phase'[Probe] = phase[Probe]
      /\ \A v \in Sockets \ {w} :
           phase'[Sender(v)] = phase[Sender(v)] /\ phase'[Handler(v)] = phase[Handler(v)]
  <2>1. LinkInv' /\ phase[Sender(w)] \notin {"none", "writing"}
    BY <1>1, Names, AdvancesStep
  <2>2. PICK p \in Busy : phase' = [phase EXCEPT ![Sender(w)] = p]
    BY <1>1, Names, AdvancesStep
  <2> QED
    BY <2>1, <2>2, OthersStay, Names DEF LinkInv, GateTypeOK, Busy
<1>3. sender[w] = "send" /\ handler[w] \notin {"stopping", "sending", "gone"}
      /\ phase[Handler(w)] = "none"
  BY <1>1, <1>2 DEF StickInv, TasksInv
<1>4. /\ last' \in [Sockets -> {"move", "stop"}] /\ late' \in [Sockets -> Nat]
      /\ \A v \in Sockets \ {w} : last'[v] = last[v] /\ late'[v] = late[v]
      /\ phase'[Sender(w)] = "writing" =>
           /\ last'[w] = cmd[w].kind
           /\ late'[w] = IF cmd[w].n < newest[w].n THEN late[w] + 1 ELSE late[w]
      /\ phase'[Sender(w)] # "writing" => last'[w] = last[w] /\ late'[w] = late[w]
  <2>1. cmd[w] \in Frame
    BY DEF TypeOK
  <2> QED
    BY <1>1, <1>2, <2>1, WrittenStep
<1>5. TypeOK'
  BY <1>1, <1>2, <1>4 DEF TypeOK, LinkInv
<1>6. SocketInv(w)'
  <2>1. cmd[w].kind \in {"move", "stop"}
    BY DEF TypeOK, Frame
  <2>2. TasksInv(w)' /\ StopInv(w)'
    BY <1>1, <1>2, <1>3, <1>4, <2>1 DEF StickInv, TasksInv, StopInv
  <2>3. StaleInv(w)'
    BY <1>1, <1>2, <1>3, <1>4 DEF StickInv, StaleInv
  <2> QED
    BY <2>2, <2>3 DEF SocketInv
<1>7. \A v \in Sockets \ {w} : Untouched(v)
  BY <1>1, <1>2, <1>4 DEF Untouched
<1>8. ProbeInv'
  BY <1>1, <1>2 DEF ProbeInv
<1> QED
  BY <1>2, <1>5, <1>6, <1>7, <1>8, Only

LEMMA SendOverStep ==
  ASSUME JoystickInv, NEW w \in Sockets, Sent(w) \/ SendFailed(w)
  PROVE  JoystickInv'
<1> USE DEF JoystickInv
<1>1. /\ Running(w) /\ Unwind(Sender(w)) /\ phase[Sender(w)] # "none"
      /\ cmd' = [cmd EXCEPT ![w] = NoFrame]
      /\ UNCHANGED <<stickVars, mailVars, handler, driving, probeVars, last, late>>
      /\ \/ /\ phase[Sender(w)] = "writing"
            /\ sender' = [sender EXCEPT ![w] = "wait"]
            /\ failed' = [failed EXCEPT ![w] = FALSE]
            /\ stopped' = [stopped EXCEPT ![w] = (cmd[w].kind = "stop")]
         \/ /\ sender' = [sender EXCEPT ![w] = "backoff"]
            /\ failed' = [failed EXCEPT ![w] = TRUE]
            /\ stopped' = stopped
  BY DEF Sent, SendFailed, Returns, Raises
<1> USE DEF stickVars, mailVars, probeVars
<1>2. /\ LinkInv' /\ phase'[Sender(w)] = "none"
      /\ phase'[Handler(w)] = phase[Handler(w)] /\ phase'[Probe] = phase[Probe]
      /\ \A v \in Sockets \ {w} :
           phase'[Sender(v)] = phase[Sender(v)] /\ phase'[Handler(v)] = phase[Handler(v)]
  <2>1. LinkInv' /\ phase' = [phase EXCEPT ![Sender(w)] = "none"]
    BY <1>1, Names, UnwindStep
  <2> QED
    BY <2>1, OthersStay, Names DEF LinkInv, GateTypeOK
<1>3. sender[w] = "send" /\ handler[w] \notin {"stopping", "sending", "gone"}
      /\ phase[Handler(w)] = "none"
  BY <1>1, <1>2 DEF StickInv, TasksInv, Running
<1>4. TypeOK'
  <2>1. NoFrame \in Frame
    BY DEF NoFrame, Frame
  <2>2. cmd' \in [Sockets -> Frame]
    BY <1>1, <2>1 DEF TypeOK
  <2>3. /\ stopped' \in [Sockets -> BOOLEAN] /\ failed' \in [Sockets -> BOOLEAN]
        /\ sender' \in [Sockets -> {"wait", "send", "backoff", "cancelled"}]
    BY <1>1 DEF TypeOK
  <2> QED
    BY <1>1, <1>2, <2>2, <2>3 DEF TypeOK, LinkInv
<1>5. SocketInv(w)'
  <2>1. cmd'[w].kind = "stop" /\ sender'[w] \in {"wait", "backoff"}
    BY <1>1 DEF TypeOK, NoFrame
  <2>2. stopped'[w] => last[w] = "stop"
    <3>1. CASE phase[Sender(w)] = "writing" /\ stopped' = [stopped EXCEPT ![w] = (cmd[w].kind = "stop")]
      BY <3>1 DEF StickInv, StopInv, TypeOK
    <3>2. CASE stopped' = stopped
      BY <3>2 DEF StickInv, StopInv
    <3> QED
      BY <1>1, <3>1, <3>2
  <2>3. TasksInv(w)'
    BY <1>1, <1>2, <1>3, <2>1 DEF TasksInv
  <2>4. StopInv(w)'
    BY <1>1, <1>2, <1>3, <2>1, <2>2 DEF StopInv
  <2>5. StaleInv(w)'
    BY <1>1, <2>1 DEF StickInv, StaleInv
  <2> QED
    BY <2>3, <2>4, <2>5 DEF SocketInv
<1>6. \A v \in Sockets \ {w} : Untouched(v)
  BY <1>1, <1>2 DEF Untouched, TypeOK
<1>7. ProbeInv'
  BY <1>1, <1>2 DEF ProbeInv
<1> QED
  BY <1>2, <1>4, <1>5, <1>6, <1>7, Only

LEMMA BackedOffStep ==
  ASSUME JoystickInv, NEW w \in Sockets, BackedOff(w)
  PROVE  JoystickInv'
<1> USE DEF JoystickInv
<1>1. LinkInv' /\ phase' = phase /\ ProbeInv'
  BY LinkStays DEF BackedOff, gateVars, ProbeInv, probeVars
<1>2. /\ sender[w] = "backoff" /\ sender' = [sender EXCEPT ![w] = "wait"]
      /\ UNCHANGED <<stickVars, mailVars, handler, cmd, stopped, driving, probeVars, sentVars>>
  BY DEF BackedOff
<1> USE DEF stickVars, mailVars, probeVars, sentVars
<1>3. TypeOK'
  BY <1>1, <1>2 DEF TypeOK, LinkInv
<1>4. SocketInv(w)'
  BY <1>1, <1>2 DEF SocketInv, StickInv, TasksInv, StopInv, StaleInv, TypeOK
<1>5. \A v \in Sockets \ {w} : Untouched(v)
  BY <1>1, <1>2 DEF Untouched, TypeOK
<1> QED
  BY <1>1, <1>3, <1>4, <1>5, Only

LEMMA ProbeStep ==
  ASSUME JoystickInv, StartProbes \/ ProbeTask
  PROVE  JoystickInv'
<1> USE DEF JoystickInv
<1>1. UNCHANGED <<stickVars, mailVars, handler, senderVars, driving, sentVars>>
  BY DEF StartProbes, ProbeTask, NextProbe, ProbeAdvances, ProbeOver
<1>2. /\ LinkInv'
      /\ \E p \in Busy \union {"none"} : phase' = [phase EXCEPT ![Probe] = p]
      /\ probing' \in 0 .. 4 /\ rounds' \in Nat
      /\ phase'[Probe] # "none" => probing' > 0
  <2>1. CASE StartProbes \/ NextProbe
    <3>1. send(Probe) /\ probing' \in 0 .. 4 /\ rounds' \in Nat /\ probing' > 0
      BY <2>1 DEF StartProbes, NextProbe, TypeOK, probeVars
    <3> QED
      BY <3>1, Names, SendStep
  <2>2. CASE ProbeAdvances
    <3>1. Advances(Probe) /\ probing' = probing /\ rounds' = rounds
      BY <2>2 DEF ProbeAdvances, probeVars
    <3>2. /\ LinkInv' /\ phase[Probe] # "none"
          /\ \E p \in Busy : phase' = [phase EXCEPT ![Probe] = p]
      BY <3>1, Names, AdvancesStep
    <3> QED
      BY <3>1, <3>2 DEF ProbeInv, TypeOK
  <2>3. CASE ProbeOver
    <3>1. Unwind(Probe) /\ phase[Probe] # "none" /\ rounds' = rounds
      BY <2>3 DEF ProbeOver, Returns, Raises
    <3>2. LinkInv' /\ phase' = [phase EXCEPT ![Probe] = "none"]
      BY <3>1, Names, UnwindStep
    <3>3. probing \in 0 .. 4 /\ probing > 0 /\ rounds \in Nat
      BY <3>1 DEF ProbeInv, TypeOK
    <3>4. probing' \in 0 .. 4
      BY <2>3, <3>3 DEF ProbeOver
    <3>5. phase'[Probe] = "none"
      BY <3>2, Names DEF LinkInv, GateTypeOK
    <3> QED
      BY <3>1, <3>2, <3>3, <3>4, <3>5
  <2> QED
    BY <2>1, <2>2, <2>3 DEF ProbeTask
<1>3. \A w \in Sockets : phase'[Sender(w)] = phase[Sender(w)] /\ phase'[Handler(w)] = phase[Handler(w)]
  BY <1>2, Names DEF LinkInv, GateTypeOK
<1> USE DEF stickVars, mailVars, senderVars, sentVars
<1>4. TypeOK'
  BY <1>1, <1>2 DEF TypeOK, LinkInv
<1>5. StickInv'
  BY <1>1, <1>3, UntouchedKeeps DEF StickInv, SocketInv, Untouched
<1> QED
  BY <1>2, <1>4, <1>5 DEF ProbeInv

LEMMA HoldExpiresStep ==
  ASSUME JoystickInv, HoldExpires
  PROVE  JoystickInv'
<1> USE DEF JoystickInv
<1>1. LinkInv' /\ phase' = phase
  BY LinkStays DEF HoldExpires, gateVars
<1> USE DEF stickVars, mailVars, senderVars, probeVars, sentVars
<1>2. TypeOK'
  BY <1>1 DEF TypeOK, LinkInv, HoldExpires
<1>3. StickInv' /\ ProbeInv'
  BY <1>1, UntouchedKeeps DEF StickInv, SocketInv, Untouched, HoldExpires, ProbeInv
<1> QED
  BY <1>1, <1>2, <1>3

LEMMA JoystickInit == Init => JoystickInv
<1> SUFFICES ASSUME Init PROVE JoystickInv
  OBVIOUS
<1> USE DEF Init, GateInit
<1>1. Flying = {} /\ IsFiniteSet(Flying) /\ Cardinality(Flying) = 0
  <2>1. Flying = {}
    BY GateAssumption DEF Flying
  <2> QED
    BY <2>1, FS_EmptySet
<1>2. GateTypeOK /\ GateInv
  BY <1>1 DEF GateTypeOK, GateInv, GateTellsTruth, Flying
<1>3. LockInv
  BY DEF LockInv
<1>4. TypeOK
  <2>1. NoFrame \in Frame
    BY DEF NoFrame, Frame
  <2>2. /\ <<>> \in Seq(Frame) /\ inbox \in [Sockets -> Seq(Frame)]
        /\ pending \in [Sockets -> Seq(Frame)]
        /\ \A w \in Sockets : Len(pending[w]) <= 1
    OBVIOUS
  <2>3. cmd \in [Sockets -> Frame] /\ newest \in [Sockets -> Frame]
    BY <2>1
  <2>4. /\ open \in [Sockets -> BOOLEAN] /\ have_new \in [Sockets -> BOOLEAN]
        /\ stopped \in [Sockets -> BOOLEAN] /\ failed \in [Sockets -> BOOLEAN]
        /\ driving \in BOOLEAN
    OBVIOUS
  <2>5. /\ handler \in [Sockets -> {"receive", "cancel", "stopping", "sending", "gone"}]
        /\ sender \in [Sockets -> {"wait", "send", "backoff", "cancelled"}]
        /\ last \in [Sockets -> {"move", "stop"}] /\ late \in [Sockets -> Nat]
        /\ probing \in 0 .. 4 /\ rounds \in Nat
    OBVIOUS
  <2> HIDE DEF Init
  <2> QED
    BY <1>2, <2>2, <2>3, <2>4, <2>5 DEF TypeOK
<1>5. StickInv /\ ProbeInv
  BY Names DEF StickInv, TasksInv, StopInv, StaleInv, ProbeInv, NoFrame
<1> QED
  BY <1>2, <1>3, <1>4, <1>5 DEF JoystickInv, LinkInv

LEMMA JoystickNext == JoystickInv /\ [Next]_vars => JoystickInv'
<1> SUFFICES ASSUME JoystickInv, [Next]_vars PROVE JoystickInv'
  OBVIOUS
<1>1. ASSUME NEW w \in Sockets, sendJoystick(w) \/ Leave(w) PROVE JoystickInv'
  BY <1>1, BrowserStep
<1>2. ASSUME NEW w \in Sockets, HandlerTask(w) PROVE JoystickInv'
  BY <1>2, ReceiveStep, DisconnectStep, FinalStopStep, GoneStep DEF HandlerTask
<1>3. ASSUME NEW w \in Sockets, SenderTask(w) PROVE JoystickInv'
  BY <1>3, SenderCancelledStep, TakeCommandStep, TakeNothingStep, SendAdvancesStep,
     SendOverStep, BackedOffStep DEF SenderTask
<1>4. CASE StartProbes \/ ProbeTask
  BY <1>4, ProbeStep
<1>5. CASE HoldExpires
  BY <1>5, HoldExpiresStep
<1>6. CASE UNCHANGED vars
  <2>1. LinkInv' /\ phase' = phase /\ ProbeInv'
    BY <1>6, LinkStays DEF vars, gateVars, JoystickInv, ProbeInv, probeVars
  <2> USE DEF vars, stickVars, mailVars, senderVars, probeVars, sentVars
  <2>2. TypeOK'
    BY <1>6, <2>1 DEF TypeOK, LinkInv, JoystickInv
  <2>3. StickInv'
    BY <1>6, <2>1, UntouchedKeeps DEF StickInv, SocketInv, Untouched, JoystickInv
  <2> QED
    BY <2>1, <2>2, <2>3 DEF JoystickInv
<1> QED
  BY <1>1, <1>2, <1>3, <1>4, <1>5, <1>6 DEF Next

-----------------------------------------------------------------------------
(* The theorems.                                                           *)

\* Everything the other theorems rest on: the types of the joystick, the gate and
\* the lock, and where each task of joystick_ws() may be.
THEOREM JoystickInvariant == Spec => []JoystickInv
  BY JoystickInit, JoystickNext, PTL DEF Spec

\* The variables of joystick_ws(), of send() and of the watchdog's probes keep their
\* types, the lock's queue among them.
THEOREM JoystickTypes == Spec => []TypeOK
  BY JoystickInvariant, PTL DEF JoystickInv

\* _control_inflight counts the control sends in flight and _control_idle is set
\* exactly when there is none, however many senders come, go, fail or are cancelled.
THEOREM GateIsRight == Spec => []GateTellsTruth
<1>1. JoystickInv => GateTellsTruth
  BY DEF JoystickInv, LinkInv, GateInv
<1> QED
  BY <1>1, JoystickInvariant, PTL

\* _send_lock keeps frames whole: two tasks are never between the write of a frame
\* and the end of its drain() at once.
THEOREM OneTaskWrites == Spec => []OneWriter
<1>1. JoystickInv => OneWriter
  BY DEF JoystickInv, LinkInv, LockInv, OneWriter
<1> QED
  BY <1>1, JoystickInvariant, PTL

\* At most one command older than the newest stick frame is written after it.
THEOREM AtMostOneIsLate == Spec => []OneStale
<1>1. JoystickInv => OneStale
  BY DEF JoystickInv, StickInv, StaleInv, OneStale
<1> QED
  BY <1>1, JoystickInvariant, PTL

\* The sender's `stopped` flag is only set over a stop that was the last command
\* written, so that no release is skipped as needless.
THEOREM StoppedIsTrue == Spec => []StoppedMeansStopped
<1>1. JoystickInv => StoppedMeansStopped
  BY DEF JoystickInv, StickInv, StopInv, StoppedMeansStopped
<1> QED
  BY <1>1, JoystickInvariant, PTL

\* No move of the cancelled sender follows the final stop of joystick_ws().
THEOREM TheStopIsLast == Spec => []StopIsLast
<1>1. JoystickInv => StopIsLast
  BY DEF JoystickInv, StickInv, StopInv, StopIsLast
<1> QED
  BY <1>1, JoystickInvariant, PTL
=============================================================================
