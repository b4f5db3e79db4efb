--------------------------- MODULE BrowserLinkProofs ---------------------------
(***************************************************************************)
(* The page's end of the joystick link, for any number of sockets and of   *)
(* mowers.                                                                 *)
(***************************************************************************)
EXTENDS BrowserLink, TLAPS

\* Of the sockets sk only w may be live, for the mower m, and with its handlers.
LinkOK(sk, w, m) ==
  \A s \in Socks : sk[s].state \in {"connecting", "open"}
    => s = w /\ sk[s].fresh /\ sk[s].mower = m /\ sk[s].attached

\* No open one of the sockets sk has carried a motion last.
Quiet(sk) == \A s \in Socks : sk[s].state = "open" => sk[s].last # "move"

\* Some callback will see to the link.
Minded(sk, w, timer) == timer \/ (w # None /\ sk[w].attached /\ sk[w].fresh)

LinkTypes ==
  /\ sock \in [Socks -> SockState] /\ ws \in Socks \union {None}
  /\ wsTimer \in BOOLEAN /\ wsConnectGuard \in Socks \union {None} /\ recent \in BOOLEAN

BrowserInv ==
  /\ BrowserTypeOK
  /\ LinkOK(sock, ws, wsMower)
  /\ NeverAbandoned
  /\ hidden => ~joyTimer
  /\ ~joyTimer => Quiet(sock)

-----------------------------------------------------------------------------
(* The sockets.                                                            *)

LEMMA ClosedType == Closed \in SockState /\ Closed.state = "none"
BY DEF Closed, SockState

\* A socket's part that is set leaves the other parts, and the other sockets, as
\* they are.
LEMMA StateSet ==
  ASSUME NEW sk \in [Socks -> SockState], NEW s \in Socks,
         NEW x \in {"none", "connecting", "open", "closing"}, NEW t, t = [sk EXCEPT ![s].state = x]
  PROVE  /\ t \in [Socks -> SockState] /\ \A r \in Socks \ {s} : t[r] = sk[r]
         /\ t[s].state = x /\ t[s].attached = sk[s].attached /\ t[s].fresh = sk[s].fresh
         /\ t[s].mower = sk[s].mower /\ t[s].last = sk[s].last
<1>1. sk[s] \in SockState
  OBVIOUS
<1> QED
  BY <1>1 DEF SockState

LEMMA FrameSet ==
  ASSUME NEW sk \in [Socks -> SockState], NEW s \in Socks,
         NEW x \in {"none", "zero", "move"}, NEW t, t = [sk EXCEPT ![s].last = x]
  PROVE  /\ t \in [Socks -> SockState] /\ \A r \in Socks \ {s} : t[r] = sk[r]
         /\ t[s].last = x /\ t[s].attached = sk[s].attached /\ t[s].fresh = sk[s].fresh
         /\ t[s].mower = sk[s].mower /\ t[s].state = sk[s].state
<1>1. sk[s] \in SockState
  OBVIOUS
<1> QED
  BY <1>1 DEF SockState

LEMMA DetachedSet ==
  ASSUME NEW sk \in [Socks -> SockState], NEW s \in Socks
  PROVE  /\ Detached(sk, s) \in [Socks -> SockState]
         /\ \A r \in Socks \ {s} : Detached(sk, s)[r] = sk[r]
         /\ Detached(sk, s)[s].state = sk[s].state
<1>1. sk[s] \in SockState
  OBVIOUS
<1>2. /\ [sk[s] EXCEPT !.attached = FALSE] \in SockState
      /\ [sk[s] EXCEPT !.attached = FALSE].state = sk[s].state
  BY <1>1 DEF SockState
<1> QED
  BY <1>1, <1>2 DEF Detached

\* A teardown leaves no socket live.
LEMMA TornDownDead ==
  ASSUME BrowserTypeOK, LinkOK(sock, ws, wsMower)
  PROVE  /\ TornDown \in [Socks -> SockState]
         /\ \A s \in Socks : TornDown[s].state \notin {"connecting", "open"}
<1> SUFFICES ASSUME NEW s \in Socks
             PROVE  TornDown[s] \in SockState /\ TornDown[s].state \notin {"connecting", "open"}
  BY DEF TornDown
<1>1. sock[s] \in SockState
  BY DEF BrowserTypeOK
<1>2. CASE s # ws
  <2>1. TornDown[s] = [sock[s] EXCEPT !.fresh = FALSE]
    BY <1>2 DEF TornDown
  <2> QED
    BY <1>1, <1>2, <2>1 DEF SockState, LinkOK
<1>3. CASE s = ws
  <2>1. PICK x \in {"none", "zero", "move"} :
          TornDown[s] = [[sock[s] EXCEPT !.fresh = FALSE] EXCEPT !.attached = FALSE, !.state = "closing", !.last = x]
    <3>1. sock[s].last \in {"none", "zero", "move"} /\ [sock[s] EXCEPT !.fresh = FALSE].last = sock[s].last
      BY <1>1 DEF SockState
    <3> QED
      BY <1>3, <3>1 DEF TornDown
  <2> QED
    BY <1>1, <2>1 DEF SockState
<1> QED
  BY <1>2, <1>3

-----------------------------------------------------------------------------
(* Connecting.                                                             *)

\* Of all the ways connectJoystickWs() may go, none makes a second socket live, or
\* leaves the link of a page that may have one unminded.
LEMMA Connecting ==
  ASSUME NEW m \in PageMowers \union {None}, NEW w \in Socks \union {None}, NEW timer \in BOOLEAN,
         NEW guard \in Socks \union {None}, NEW sk \in [Socks -> SockState], NEW ready \in BOOLEAN,
         recent \in BOOLEAN, LinkOK(sk, w, m),
         connectJoystickWs(m, w, timer, guard, sk, ready)
  PROVE  /\ LinkTypes'
         /\ LinkOK(sock', ws', m)
         /\ Quiet(sk) => Quiet(sock')
         /\ m # None /\ ready /\ ~hidden' /\ onLine' => Minded(sock', ws', wsTimer')
<1>1. CASE ~MayConnect(m, w, sk, ready)
  <2>1. sock' = sk /\ ws' = w /\ wsTimer' = timer /\ recent' = recent /\ wsConnectGuard' = guard
    BY <1>1 DEF connectJoystickWs, Stays
  <2>2. m # None /\ ready /\ ~hidden' /\ onLine' => w \in Socks /\ sk[w].attached /\ sk[w].fresh
    BY <1>1, BrowserAssumption DEF MayConnect, Is, LinkOK
  <2> QED
    BY <2>1, <2>2, BrowserAssumption DEF LinkTypes, Minded
<1>2. CASE MayConnect(m, w, sk, ready) /\ recent
  BY <1>2 DEF connectJoystickWs, Stays, LinkTypes, Minded
<1>3. CASE MayConnect(m, w, sk, ready) /\ ~recent
  <2>1. \A s \in Socks : sk[s].state \notin {"connecting", "open"}
    BY <1>3, BrowserAssumption DEF MayConnect, Is, LinkOK
  <2>2. recent' = TRUE
    BY <1>3 DEF connectJoystickWs
  <2>3. CASE ws' = w /\ sock' = sk /\ wsConnectGuard' = guard /\ wsTimer' = TRUE
    BY <2>2, <2>3 DEF LinkTypes, Minded
  <2>4. ASSUME NEW s \in Socks,
               sock' = [sk EXCEPT ![s] = [state |-> "connecting", attached |-> TRUE,
                                          fresh |-> TRUE, mower |-> m, last |-> "none"]],
               ws' = s, wsConnectGuard' = s, wsTimer' = timer
        PROVE  /\ LinkTypes' /\ LinkOK(sock', ws', m)
               /\ Quiet(sk) => Quiet(sock')
               /\ Minded(sock', ws', wsTimer')
    <3>1. /\ sock' \in [Socks -> SockState] /\ \A r \in Socks \ {s} : sock'[r] = sk[r]
          /\ sock'[s].state = "connecting" /\ sock'[s].attached = TRUE
          /\ sock'[s].fresh = TRUE /\ sock'[s].mower = m
      BY <2>4 DEF SockState
    <3> QED
      BY <2>1, <2>2, <2>4, <3>1, BrowserAssumption DEF LinkTypes, LinkOK, Quiet, Minded
  <2> QED
    BY <1>3, <2>3, <2>4 DEF connectJoystickWs
<1> QED
  BY <1>1, <1>2, <1>3

LEMMA Ensuring ==
  ASSUME BrowserInv, NEW force \in BOOLEAN, ensureJoystickWs(force)
  PROVE  /\ LinkTypes' /\ wsMower' = wsMower
         /\ LinkOK(sock', ws', wsMower)
         /\ Quiet(sock) => Quiet(sock')
         /\ wsMower # None /\ nipple = "ready" /\ ~hidden' /\ onLine' => Minded(sock', ws', wsTimer')
<1> USE DEF BrowserInv, BrowserTypeOK
<1>1. CASE wsMower = None \/ hidden' \/ (~force /\ Is(ws, sock, {"connecting", "open"}))
  <2>1. UNCHANGED linkVars
    BY <1>1 DEF ensureJoystickWs
  <2>2. wsMower # None /\ ~hidden' => ws \in Socks /\ sock[ws].attached /\ sock[ws].fresh
    BY <1>1, BrowserAssumption DEF Is, LinkOK
  <2> QED
    BY <2>1, <2>2, BrowserAssumption DEF linkVars, LinkTypes, Minded, LinkOK, Quiet
<1>2. CASE ~(wsMower = None \/ hidden' \/ (~force /\ Is(ws, sock, {"connecting", "open"})))
  <2> DEFINE w == IF force THEN None ELSE ws
             sk == IF force /\ ws # None THEN Detached(Closing(sock, ws), ws) ELSE sock
  <2>1. wsMower' = wsMower /\ connectJoystickWs(wsMower, w, FALSE, wsConnectGuard, sk, nipple = "ready")
    BY <1>2 DEF ensureJoystickWs
  <2>2. sk \in [Socks -> SockState] /\ LinkOK(sk, w, wsMower) /\ (Quiet(sock) => Quiet(sk))
    <3>1. CASE force /\ ws # None
      <4>1. ws \in Socks
        BY <3>1
      <4>2. PICK c \in [Socks -> SockState] : c = Closing(sock, ws)
        BY <4>1, StateSet DEF Closing
      <4>3. (\A r \in Socks \ {ws} : c[r] = sock[r]) /\ c[ws].state = "closing"
        BY <4>1, <4>2, StateSet DEF Closing
      <4>4. sk = Detached(c, ws)
        BY <3>1, <4>2
      <4>5. /\ sk \in [Socks -> SockState] /\ \A r \in Socks \ {ws} : sk[r] = c[r]
            /\ sk[ws].state = "closing"
        BY <4>1, <4>3, <4>4, DetachedSet
      <4> QED
        BY <4>1, <4>3, <4>5 DEF LinkOK, Quiet
    <3>2. CASE ~force \/ ws = None
      BY <3>2 DEF LinkOK
    <3> QED
      BY <3>1, <3>2
  <2>3. w \in Socks \union {None} /\ (nipple = "ready") \in BOOLEAN
    OBVIOUS
  <2> HIDE DEF w, sk
  <2> QED
    BY <2>1, <2>2, <2>3, Connecting
<1> QED
  BY <1>1, <1>2

\* A callback that sees to the link as it should keeps the invariant.
LEMMA Callback ==
  ASSUME BrowserInv, LinkTypes', wsMower' \in PageMowers \union {None},
         joyTimer' \in BOOLEAN, stick' \in {"absent", "free", "held"},
         nipple' \in {"absent", "loading", "ready"}, tries' \in 0..MaxNippleTries,
         hidden' \in BOOLEAN, onLine' \in BOOLEAN,
         LinkOK(sock', ws', wsMower'),
         wsMower' # None /\ nipple' = "ready" /\ ~hidden' /\ onLine' => Minded(sock', ws', wsTimer'),
         hidden' => ~joyTimer', ~joyTimer' => Quiet(sock')
  PROVE  BrowserInv'
BY DEF BrowserInv, BrowserTypeOK, LinkTypes, NeverAbandoned, Minded, LinkOK, Quiet

LEMMA BrowserInvInit == BrowserInit => BrowserInv
<1> SUFFICES ASSUME BrowserInit PROVE BrowserInv
  OBVIOUS
<1>1. sock \in [Socks -> SockState] /\ \A s \in Socks : sock[s].state = "none"
  BY ClosedType DEF BrowserInit
<1>2. 0 \in 0..MaxNippleTries
  BY BrowserAssumption
<1> QED
  BY <1>1, <1>2 DEF BrowserInit, BrowserInv, BrowserTypeOK, NeverAbandoned, LinkOK, Quiet

-----------------------------------------------------------------------------
(* The socket's callbacks.                                                 *)

LEMMA BrowserInvOpen == ASSUME BrowserInv, NEW s \in Socks, onopen(s) PROVE BrowserInv'
<1> USE DEF BrowserInv, BrowserTypeOK
<1>1. s = ws /\ sock[s].fresh /\ sock[s].mower = wsMower /\ sock[s].attached
  BY DEF onopen, LinkOK
<1>2. PICK up \in [Socks -> SockState] : up = [sock EXCEPT ![s].state = "open"]
  BY StateSet
<1>3. /\ \A r \in Socks \ {s} : up[r] = sock[r]
      /\ up[s].state = "open" /\ up[s].attached = sock[s].attached /\ up[s].fresh = sock[s].fresh
      /\ up[s].mower = sock[s].mower
  BY <1>2, StateSet
<1>4. sock' = IF joyTimer THEN up ELSE Sent(up, s, "zero")
  BY <1>1, <1>2 DEF onopen
<1>5. UNCHANGED <<ws, wsMower, wsTimer, recent, stickVars, nippleVars, hidden, onLine>> /\ wsConnectGuard' = None
  BY DEF onopen
<1>6. CASE joyTimer
  <2>1. LinkTypes' /\ LinkOK(sock', ws', wsMower') /\ Minded(sock', ws', wsTimer')
    BY <1>1, <1>3, <1>4, <1>5, <1>6, BrowserAssumption DEF LinkTypes, LinkOK, Minded
  <2> QED
    BY <1>5, <1>6, <2>1, Callback DEF stickVars, nippleVars
<1>7. CASE ~joyTimer
  <2>1. /\ sock' \in [Socks -> SockState] /\ \A r \in Socks \ {s} : sock'[r] = up[r]
        /\ sock'[s].last = "zero" /\ sock'[s].attached = up[s].attached /\ sock'[s].fresh = up[s].fresh
        /\ sock'[s].mower = up[s].mower
    BY <1>4, <1>7, FrameSet DEF Sent
  <2>2. LinkTypes' /\ LinkOK(sock', ws', wsMower') /\ Minded(sock', ws', wsTimer')
    BY <1>1, <1>3, <1>5, <2>1, BrowserAssumption DEF LinkTypes, LinkOK, Minded
  <2>3. Quiet(sock')
    BY <1>3, <1>7, <2>1 DEF Quiet
  <2> QED
    BY <1>5, <1>7, <2>2, <2>3, Callback DEF stickVars, nippleVars
<1> QED
  BY <1>6, <1>7

LEMMA BrowserInvClose == ASSUME BrowserInv, NEW s \in Socks, onclose(s) PROVE BrowserInv'
<1> USE DEF BrowserInv, BrowserTypeOK
<1>1. sock' = [sock EXCEPT ![s] = Closed]
  BY DEF onclose
<1>2. /\ sock' \in [Socks -> SockState] /\ sock'[s].state = "none"
      /\ \A r \in Socks \ {s} : sock'[r] = sock[r]
  BY <1>1, ClosedType
<1>3. ws' = ws \/ (s = ws /\ ws' = None)
  BY DEF onclose
<1>4. sock[s].fresh \in BOOLEAN
  BY DEF SockState
<1>5. LinkTypes' /\ LinkOK(sock', ws', wsMower')
  BY <1>2, <1>3, <1>4 DEF onclose, LinkTypes, LinkOK
<1>6. ~joyTimer' => Quiet(sock')
  BY <1>2 DEF onclose, Quiet, stickVars
<1>7. wsMower # None /\ nipple = "ready" /\ ~hidden /\ onLine => Minded(sock', ws', wsTimer')
  <2> SUFFICES ASSUME wsMower # None, nipple = "ready", ~hidden, onLine PROVE Minded(sock', ws', wsTimer')
    OBVIOUS
  <2>1. wsTimer \/ (ws # None /\ sock[ws].attached /\ sock[ws].fresh)
    BY DEF NeverAbandoned
  <2>2. CASE wsTimer
    BY <2>2 DEF onclose, Minded
  <2>3. CASE ws # None /\ sock[ws].attached /\ sock[ws].fresh
    BY <1>2, <2>3 DEF onclose, Minded
  <2> QED
    BY <2>1, <2>2, <2>3
<1> QED
  BY <1>5, <1>6, <1>7, Callback DEF onclose, stickVars, nippleVars

LEMMA BrowserInvTimers == BrowserInv /\ (GuardFires \/ RetryFires \/ FloorPasses) => BrowserInv'
<1> SUFFICES ASSUME BrowserInv, GuardFires \/ RetryFires \/ FloorPasses PROVE BrowserInv'
  OBVIOUS
<1> USE DEF BrowserInv, BrowserTypeOK
<1>1. CASE GuardFires
  <2>1. CASE wsConnectGuard = ws /\ Is(ws, sock, {"connecting"})
    <3>1. ws \in Socks
      BY <2>1 DEF Is
    <3>2. sock' = [sock EXCEPT ![ws].state = "closing"]
      BY <1>1, <2>1 DEF GuardFires, Closing
    <3>3. /\ sock' \in [Socks -> SockState] /\ \A r \in Socks \ {ws} : sock'[r] = sock[r]
          /\ sock'[ws].state = "closing" /\ sock'[ws].attached = sock[ws].attached
          /\ sock'[ws].fresh = sock[ws].fresh
      BY <3>1, <3>2, StateSet
    <3>4. LinkTypes' /\ LinkOK(sock', ws', wsMower')
      BY <1>1, <3>1, <3>3 DEF GuardFires, LinkTypes, LinkOK
    <3>5. wsMower # None /\ nipple = "ready" /\ ~hidden /\ onLine => Minded(sock', ws', wsTimer')
      BY <1>1, <3>1, <3>3 DEF GuardFires, NeverAbandoned, Minded
    <3>6. ~joyTimer => Quiet(sock')
      BY <3>1, <3>3 DEF Quiet
    <3> QED
      BY <1>1, <3>4, <3>5, <3>6, Callback DEF GuardFires, stickVars, nippleVars
  <2>2. CASE ~(wsConnectGuard = ws /\ Is(ws, sock, {"connecting"}))
    BY <1>1, <2>2 DEF GuardFires, LinkOK, Quiet, NeverAbandoned, stickVars, nippleVars
  <2> QED
    BY <2>1, <2>2
<1>2. CASE RetryFires
  <2>1. connectJoystickWs(wsMower, ws, FALSE, wsConnectGuard, sock, nipple = "ready")
    BY <1>2 DEF RetryFires
  <2>2. /\ LinkTypes' /\ LinkOK(sock', ws', wsMower) /\ (Quiet(sock) => Quiet(sock'))
        /\ wsMower # None /\ nipple = "ready" /\ ~hidden' /\ onLine' => Minded(sock', ws', wsTimer')
    BY <2>1, Connecting
  <2> QED
    BY <1>2, <2>2, Callback DEF RetryFires, stickVars, nippleVars
<1>3. CASE FloorPasses
  BY <1>3 DEF FloorPasses, LinkOK, Quiet, NeverAbandoned, stickVars, nippleVars
<1> QED
  BY <1>1, <1>2, <1>3

-----------------------------------------------------------------------------
(* The stick.                                                              *)

LEMMA Stopping ==
  ASSUME BrowserInv, Motionless
  PROVE  /\ LinkTypes' /\ wsMower' = wsMower /\ joyTimer' = FALSE
         /\ LinkOK(sock', ws', wsMower) /\ Quiet(sock')
         /\ Minded(sock, ws, wsTimer) => Minded(sock', ws', wsTimer')
<1> USE DEF BrowserInv, BrowserTypeOK
<1>1. UNCHANGED <<ws, wsMower, wsTimer, wsConnectGuard, recent>> /\ joyTimer' = FALSE
  BY DEF Motionless
<1>2. CASE Is(ws, sock, {"open"})
  <2>1. ws \in Socks /\ sock[ws].state = "open"
    BY <1>2 DEF Is
  <2>2. sock' = [sock EXCEPT ![ws].last = "zero"]
    BY <1>2 DEF Motionless, Sent
  <2>3. /\ sock' \in [Socks -> SockState] /\ \A r \in Socks \ {ws} : sock'[r] = sock[r]
        /\ sock'[ws].last = "zero" /\ sock'[ws].attached = sock[ws].attached
        /\ sock'[ws].fresh = sock[ws].fresh /\ sock'[ws].mower = sock[ws].mower
        /\ sock'[ws].state = sock[ws].state
    BY <2>1, <2>2, FrameSet
  <2> QED
    BY <1>1, <2>1, <2>3 DEF LinkTypes, LinkOK, Quiet, Minded
<1>3. CASE ~Is(ws, sock, {"open"})
  <2>1. sock' = sock
    BY <1>3 DEF Motionless
  <2>2. \A s \in Socks : sock[s].state # "open"
    BY <1>3, BrowserAssumption DEF Is, LinkOK
  <2> QED
    BY <1>1, <2>1, <2>2 DEF LinkTypes, LinkOK, Quiet, Minded
<1> QED
  BY <1>2, <1>3

LEMMA Failsafe ==
  ASSUME BrowserInv, joystickFailsafeStop
  PROVE  /\ LinkTypes' /\ wsMower' = wsMower /\ joyTimer' = FALSE
         /\ LinkOK(sock', ws', wsMower) /\ Quiet(sock')
         /\ Minded(sock, ws, wsTimer) => Minded(sock', ws', wsTimer')
<1>1. CASE joyTimer
  BY <1>1, Stopping DEF joystickFailsafeStop
<1>2. CASE ~joyTimer
  <2>1. UNCHANGED <<joyTimer, linkVars>> /\ joyTimer = FALSE
    BY <1>2 DEF joystickFailsafeStop, BrowserInv, BrowserTypeOK
  <2> QED
    BY <1>2, <2>1 DEF linkVars, LinkTypes, LinkOK, Quiet, Minded, BrowserInv, BrowserTypeOK
<1> QED
  BY <1>1, <1>2

LEMMA Moving ==
  ASSUME BrowserInv, sendMove, hidden' = hidden, onLine' = onLine
  PROVE  /\ LinkTypes' /\ wsMower' = wsMower
         /\ LinkOK(sock', ws', wsMower)
         /\ wsMower # None /\ nipple = "ready" /\ ~hidden' /\ onLine' => Minded(sock', ws', wsTimer')
<1> USE DEF BrowserInv, BrowserTypeOK
<1>1. CASE Is(ws, sock, {"open"})
  <2>1. ws \in Socks /\ sock[ws].state = "open"
    BY <1>1 DEF Is
  <2>2. sock' = [sock EXCEPT ![ws].last = "move"]
    BY <1>1 DEF sendMove, Sent
  <2>3. /\ sock' \in [Socks -> SockState] /\ \A r \in Socks \ {ws} : sock'[r] = sock[r]
        /\ sock'[ws].attached = sock[ws].attached
        /\ sock'[ws].fresh = sock[ws].fresh /\ sock'[ws].mower = sock[ws].mower
        /\ sock'[ws].state = sock[ws].state
    BY <2>1, <2>2, FrameSet
  <2>4. UNCHANGED <<ws, wsMower, wsTimer, wsConnectGuard, recent>>
    BY <1>1 DEF sendMove
  <2>5. LinkTypes' /\ LinkOK(sock', ws', wsMower)
    BY <2>1, <2>3, <2>4 DEF LinkTypes, LinkOK
  <2>6. Minded(sock', ws', wsTimer')
    BY <2>1, <2>3, <2>4, BrowserAssumption DEF LinkOK, Minded
  <2> QED
    BY <2>4, <2>5, <2>6
<1>2. CASE UNCHANGED linkVars
  BY <1>2 DEF linkVars, LinkTypes, LinkOK, Minded, NeverAbandoned
<1>3. CASE ensureJoystickWs(FALSE)
  BY <1>3, Ensuring
<1> QED
  BY <1>1, <1>2, <1>3 DEF sendMove

LEMMA BrowserInvStick == BrowserInv /\ (StickMoves \/ StickEnds \/ Heartbeat \/ Halt \/ Hide) => BrowserInv'
<1> SUFFICES ASSUME BrowserInv, StickMoves \/ StickEnds \/ Heartbeat \/ Halt \/ Hide PROVE BrowserInv'
  OBVIOUS
<1> USE DEF BrowserInv, BrowserTypeOK, stickVars, nippleVars
<1>0. wsMower # None /\ nipple = "ready" /\ ~hidden /\ onLine => Minded(sock, ws, wsTimer)
  BY DEF NeverAbandoned, Minded
<1>1. CASE StickMoves /\ sendMove
  <2>1. UNCHANGED <<nippleVars, hidden, onLine>> /\ ~hidden /\ stick' = "held" /\ joyTimer' = TRUE
    BY <1>1 DEF StickMoves
  <2> QED
    BY <1>1, <2>1, Moving, Callback
<1>2. CASE StickMoves /\ UNCHANGED linkVars
  <2>1. UNCHANGED <<nippleVars, hidden, onLine>> /\ ~hidden /\ stick' = "held" /\ joyTimer' = TRUE
    BY <1>2 DEF StickMoves
  <2>2. LinkTypes'
    BY <1>2 DEF linkVars, LinkTypes
  <2> QED
    BY <1>0, <1>2, <2>1, <2>2, Callback DEF linkVars
<1>3. CASE StickEnds
  <2>1. UNCHANGED <<nippleVars, hidden, onLine>> /\ stick' = "free" /\ Motionless
    BY <1>3 DEF StickEnds
  <2> QED
    BY <1>0, <2>1, Stopping, Callback
<1>4. CASE Heartbeat
  <2>1. UNCHANGED <<stickVars, nippleVars, hidden, onLine>> /\ joyTimer /\ sendMove
    BY <1>4 DEF Heartbeat
  <2> QED
    BY <2>1, Moving, Callback
<1>5. CASE Halt
  <2>1. UNCHANGED <<stick, nippleVars, hidden, onLine>> /\ joystickFailsafeStop
    BY <1>5 DEF Halt
  <2> QED
    BY <1>0, <2>1, Failsafe, Callback
<1>6. CASE Hide
  <2>1. UNCHANGED <<stick, nippleVars, onLine>> /\ hidden' = TRUE /\ joystickFailsafeStop
    BY <1>6 DEF Hide
  <2> QED
    BY <2>1, Failsafe, Callback
<1> QED
  BY <1>1, <1>2, <1>3, <1>4, <1>5, <1>6 DEF StickMoves

-----------------------------------------------------------------------------
(* The user and the browser.                                               *)

LEMMA Loading ==
  ASSUME BrowserTypeOK, loadNipple(nipple, tries)
  PROVE  /\ nipple' \in {"absent", "loading", "ready"} /\ tries' \in 0..MaxNippleTries
         /\ nipple' = "ready" <=> nipple = "ready"
BY BrowserAssumption DEF BrowserTypeOK, loadNipple

LEMMA BrowserInvSelect == ASSUME BrowserInv, NEW m \in PageMowers, Select(m) PROVE BrowserInv'
<1> USE DEF BrowserInv, BrowserTypeOK
<1>1. /\ TornDown \in [Socks -> SockState]
      /\ \A s \in Socks : TornDown[s].state \notin {"connecting", "open"}
  BY TornDownDead
<1>2. LinkOK(TornDown, None, m) /\ Quiet(TornDown)
  BY <1>1 DEF LinkOK, Quiet
<1>3. /\ wsMower' = m /\ joyTimer' = FALSE /\ UNCHANGED <<hidden, onLine>>
      /\ connectJoystickWs(m, None, FALSE, None, TornDown, nipple = "ready")
      /\ loadNipple(nipple, tries)
  BY DEF Select
<1>4. /\ LinkTypes' /\ LinkOK(sock', ws', m) /\ Quiet(sock')
      /\ nipple = "ready" /\ ~hidden' /\ onLine' => Minded(sock', ws', wsTimer')
  BY <1>1, <1>2, <1>3, Connecting, BrowserAssumption
<1>5. stick' \in {"absent", "free", "held"}
  BY DEF Select, mountStick
<1>6. /\ nipple' \in {"absent", "loading", "ready"} /\ tries' \in 0..MaxNippleTries
      /\ nipple' = "ready" <=> nipple = "ready"
  BY <1>3, Loading
<1> QED
  BY <1>3, <1>4, <1>5, <1>6, Callback

LEMMA BrowserInvPage ==
  BrowserInv /\ (Deselect \/ NippleLoads \/ NippleFails \/ NippleAgain \/ GoesOffline) => BrowserInv'
<1> SUFFICES ASSUME BrowserInv, Deselect \/ NippleLoads \/ NippleFails \/ NippleAgain \/ GoesOffline
             PROVE  BrowserInv'
  OBVIOUS
<1> USE DEF BrowserInv, BrowserTypeOK, stickVars, nippleVars
<1>0. wsMower # None /\ nipple = "ready" /\ ~hidden /\ onLine => Minded(sock, ws, wsTimer)
  BY DEF NeverAbandoned, Minded
<1>1. CASE Deselect
  <2>1. /\ TornDown \in [Socks -> SockState]
        /\ \A s \in Socks : TornDown[s].state \notin {"connecting", "open"}
    BY TornDownDead
  <2>2. LinkTypes' /\ LinkOK(sock', ws', wsMower') /\ Quiet(sock')
    BY <1>1, <2>1 DEF Deselect, LinkTypes, LinkOK, Quiet
  <2>3. wsMower' = None /\ UNCHANGED <<stickVars, nippleVars, hidden, onLine>>
    BY <1>1 DEF Deselect
  <2> QED
    BY <2>2, <2>3, Callback
<1>2. CASE NippleLoads /\ wsMower = None
  <2>1. nipple' = "ready" /\ UNCHANGED <<tries, wsMower, joyTimer, hidden, onLine, linkVars, stick>>
    BY <1>2 DEF NippleLoads
  <2>2. LinkTypes'
    BY <2>1 DEF linkVars, LinkTypes
  <2> QED
    BY <1>2, <2>1, <2>2, Callback DEF linkVars
<1>3. CASE NippleLoads /\ wsMower # None
  <2>1. /\ nipple' = "ready" /\ UNCHANGED <<tries, wsMower, joyTimer, hidden, onLine>>
        /\ stick' \in {"absent", "free", "held"}
        /\ connectJoystickWs(wsMower, ws, wsTimer, wsConnectGuard, sock, TRUE)
    BY <1>3 DEF NippleLoads, mountStick
  <2>2. /\ LinkTypes' /\ LinkOK(sock', ws', wsMower) /\ (Quiet(sock) => Quiet(sock'))
        /\ ~hidden' /\ onLine' => Minded(sock', ws', wsTimer')
    BY <1>3, <2>1, Connecting
  <2> QED
    BY <2>1, <2>2, Callback
<1>4. CASE NippleFails
  <2>1. nipple' = "absent" /\ UNCHANGED <<tries, linkVars, stickVars, hidden, onLine>>
    BY <1>4 DEF NippleFails
  <2>2. LinkTypes'
    BY <2>1 DEF linkVars, LinkTypes
  <2> QED
    BY <2>1, <2>2, Callback DEF linkVars
<1>5. CASE NippleAgain
  <2>1. loadNipple(nipple, tries) /\ UNCHANGED <<linkVars, stickVars, hidden, onLine>>
    BY <1>5 DEF NippleAgain
  <2>2. LinkTypes'
    BY <2>1 DEF linkVars, LinkTypes
  <2> QED
    BY <1>0, <2>1, <2>2, Loading, Callback DEF linkVars
<1>6. CASE GoesOffline
  <2>1. onLine' = FALSE /\ UNCHANGED <<linkVars, stickVars, nippleVars, hidden>>
    BY <1>6 DEF GoesOffline
  <2>2. LinkTypes'
    BY <2>1 DEF linkVars, LinkTypes
  <2> QED
    BY <2>1, <2>2, Callback DEF linkVars
<1> QED
  BY <1>1, <1>2, <1>3, <1>4, <1>5, <1>6

LEMMA BrowserInvEnsure ==
  BrowserInv /\ ((\E long \in BOOLEAN : Show(long)) \/ GoesOnline \/ Ensures) => BrowserInv'
<1> SUFFICES ASSUME BrowserInv, (\E long \in BOOLEAN : Show(long)) \/ GoesOnline \/ Ensures
             PROVE  BrowserInv'
  OBVIOUS
<1>1. PICK force \in BOOLEAN : ensureJoystickWs(force)
  BY DEF Show, GoesOnline, Ensures
<1>2. /\ LinkTypes' /\ wsMower' = wsMower /\ LinkOK(sock', ws', wsMower)
      /\ Quiet(sock) => Quiet(sock')
      /\ wsMower # None /\ nipple = "ready" /\ ~hidden' /\ onLine' => Minded(sock', ws', wsTimer')
  BY <1>1, Ensuring
<1>3. hidden \in BOOLEAN /\ onLine \in BOOLEAN
  BY DEF BrowserInv, BrowserTypeOK
<1>4. UNCHANGED <<stickVars, nippleVars>>
  BY DEF Show, GoesOnline, Ensures
<1>5. hidden' = FALSE \/ hidden' = hidden
  BY DEF Show, GoesOnline, Ensures
<1>6. onLine' = TRUE \/ onLine' = onLine
  BY DEF Show, GoesOnline, Ensures
<1>7. hidden' \in BOOLEAN /\ onLine' \in BOOLEAN
  BY <1>3, <1>5, <1>6
<1>8. hidden' => ~joyTimer
  BY <1>3, <1>5 DEF BrowserInv
<1>9. /\ joyTimer' = joyTimer /\ stick' = stick /\ nipple' = nipple /\ tries' = tries
  BY <1>4 DEF stickVars, nippleVars
<1> QED
  BY <1>2, <1>7, <1>8, <1>9, Callback DEF BrowserInv, BrowserTypeOK

LEMMA BrowserInvStep == BrowserInv /\ [BrowserNext]_browserVars => BrowserInv'
<1>1. BrowserInv /\ UNCHANGED browserVars => BrowserInv'
  BY DEF browserVars, linkVars, stickVars, nippleVars, BrowserInv, BrowserTypeOK, LinkOK, Quiet,
         NeverAbandoned
<1> QED
  BY <1>1, BrowserInvOpen, BrowserInvClose, BrowserInvTimers, BrowserInvStick, BrowserInvSelect,
     BrowserInvPage, BrowserInvEnsure DEF BrowserNext

LEMMA BrowserInvAlways == BrowserSpec => []BrowserInv
BY BrowserInvInit, BrowserInvStep, PTL DEF BrowserSpec

-----------------------------------------------------------------------------
(* The theorems.                                                           *)

\* The types of the page's link state.
THEOREM BrowserTypes == BrowserSpec => []BrowserTypeOK
<1>1. BrowserInv => BrowserTypeOK
  BY DEF BrowserInv
<1> QED
  BY <1>1, BrowserInvAlways, PTL

\* connectJoystickWs() and teardownJoystickWs(): whatever the order of callbacks, at
\* most one socket is live, and it is the page's, for the mower on the screen.
THEOREM OneSocketLives == BrowserSpec => []OneLiveSocket
<1>1. BrowserInv => OneLiveSocket
  BY DEF BrowserInv, LinkOK, OneLiveSocket, Live
<1> QED
  BY <1>1, BrowserInvAlways, PTL

\* scheduleWsRetry() and the early returns of connectJoystickWs(): a page that may
\* have a link has one, is about to, or has a retry due.
THEOREM LinkIsMinded == BrowserSpec => []NeverAbandoned
<1>1. BrowserInv => NeverAbandoned
  BY DEF BrowserInv
<1> QED
  BY <1>1, BrowserInvAlways, PTL

\* joystickFailsafeStop(), the stick's "end" and onopen: no open socket has carried
\* a motion last while the heartbeat is off, and it is off on a hidden page.
THEOREM NoMotionAtRest == BrowserSpec => []StopIsOut
<1>1. BrowserInv => StopIsOut
  BY DEF BrowserInv, Quiet, StopIsOut
<1> QED
  BY <1>1, BrowserInvAlways, PTL
=============================================================================
