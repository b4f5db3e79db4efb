----------------------------- MODULE BrowserLink -----------------------------
(***************************************************************************)
(* The page's end of the joystick link (web-server/static/app.js): the     *)
(* WebSocket and its retries, and the stick whose frames it carries.       *)
(*                                                                         *)
(* A page is one thread of callbacks, so each action below is a whole      *)
(* callback.  What is hard is their order: sockets of a mower the user has *)
(* left, sockets that are still closing, timers armed for an earlier       *)
(* attempt, a page that is hidden or offline, a library that arrives late. *)
(***************************************************************************)
EXTENDS Naturals

CONSTANTS
  Socks,          \* WebSockets that exist at a time; one that has closed is used again
  PageMowers,
  MaxNippleTries, \* attempts to load the stick's library (5)
  None

ASSUME BrowserAssumption == None \notin Socks \union PageMowers /\ MaxNippleTries \in Nat

VARIABLES
  sock,            \* per socket: its readyState, whether its handlers are attached, whether
                   \* its `gen` is wsGen, the mower it is for, and the last frame sent on it
  ws, wsMower,
  wsTimer,         \* a retry is due
  wsConnectGuard,  \* the socket the guard's timeout is for
  recent,          \* an attempt was made within WS_ATTEMPT_FLOOR_MS
  joyTimer,        \* the heartbeat runs
  stick,           \* nipplejs's: "absent", "free" or "held"
  nipple, tries,   \* the library: "absent", "loading", "ready"
  hidden, onLine   \* of the document and the navigator

linkVars == <<sock, ws, wsMower, wsTimer, wsConnectGuard, recent>>
stickVars == <<joyTimer, stick>>
nippleVars == <<nipple, tries>>
browserVars == <<linkVars, stickVars, nippleVars, hidden, onLine>>

Closed == [state |-> "none", attached |-> FALSE, fresh |-> FALSE, mower |-> None, last |-> "none"]

SockState ==
  [state: {"none", "connecting", "open", "closing"}, attached: BOOLEAN, fresh: BOOLEAN,
   mower: PageMowers \union {None}, last: {"none", "zero", "move"}]

BrowserTypeOK ==
  /\ sock \in [Socks -> SockState]
  /\ ws \in Socks \union {None}
  /\ wsMower \in PageMowers \union {None}
  /\ wsConnectGuard \in Socks \union {None}
  /\ wsTimer \in BOOLEAN /\ recent \in BOOLEAN
  /\ joyTimer \in BOOLEAN /\ stick \in {"absent", "free", "held"}
  /\ nipple \in {"absent", "loading", "ready"} /\ tries \in 0..MaxNippleTries
  /\ hidden \in BOOLEAN /\ onLine \in BOOLEAN

BrowserInit ==
  /\ sock = [s \in Socks |-> Closed]
  /\ ws = None /\ wsMower = None
  /\ wsTimer = FALSE /\ wsConnectGuard = None /\ recent = FALSE
  /\ joyTimer = FALSE /\ stick = "absent"
  /\ nipple \in {"absent", "ready"} /\ tries = 0
  /\ hidden = FALSE /\ onLine = TRUE

\* readyState of w, among the sockets sk, is one of states.
Is(w, sk, states) == w # None /\ w \in DOMAIN sk /\ sk[w].state \in states

Closing(sk, s) == [sk EXCEPT ![s].state = "closing"]

Detached(sk, s) == [sk EXCEPT ![s].attached = FALSE]

Sent(sk, s, frame) == [sk EXCEPT ![s].last = frame]

-----------------------------------------------------------------------------
(* Connecting.  The operators take the values that the callback has already *)
(* assigned: the mower m, the socket w, the retry timer and the sockets sk.  *)

Stays(w, timer, sk) ==
  /\ ws' = w /\ wsTimer' = timer /\ sock' = sk
  /\ UNCHANGED recent

MayConnect(m, w, sk, ready) ==
  m # None /\ ready /\ ~Is(w, sk, {"connecting", "open"}) /\ ~hidden' /\ onLine'

\* Bug: an attempt that comes too soon after the last is dropped, not put off.
connectJoystickWs_FloorDrops(m, w, timer, guard, sk, ready) ==
  IF ~MayConnect(m, w, sk, ready) \/ recent THEN Stays(w, timer, sk) /\ wsConnectGuard' = guard
  ELSE /\ recent' = TRUE
       /\ \E s \in Socks :
            /\ sk[s] = Closed
            /\ sock' = [sk EXCEPT ![s] = [state |-> "connecting", attached |-> TRUE,
                                          fresh |-> TRUE, mower |-> m, last |-> "none"]]
            /\ ws' = s /\ wsConnectGuard' = s
            /\ wsTimer' = timer

connectJoystickWs(m, w, timer, guard, sk, ready) ==
  IF ~MayConnect(m, w, sk, ready) THEN Stays(w, timer, sk) /\ wsConnectGuard' = guard
  ELSE IF recent THEN Stays(w, TRUE, sk) /\ wsConnectGuard' = guard
  ELSE /\ recent' = TRUE
       /\ \/ \E s \in Socks :
               /\ sk[s] = Closed
               /\ sock' = [sk EXCEPT ![s] = [state |-> "connecting", attached |-> TRUE,
                                             fresh |-> TRUE, mower |-> m, last |-> "none"]]
               /\ ws' = s /\ wsConnectGuard' = s
               /\ wsTimer' = timer
          \/ \* the constructor throws: scheduleWsRetry()
             /\ ws' = w /\ sock' = sk /\ wsConnectGuard' = guard
             /\ wsTimer' = TRUE

ensureJoystickWs(force) ==
  IF wsMower = None \/ hidden' \/ (~force /\ Is(ws, sock, {"connecting", "open"}))
  THEN UNCHANGED linkVars
  ELSE /\ UNCHANGED wsMower
       /\ connectJoystickWs(wsMower, IF force THEN None ELSE ws, FALSE, wsConnectGuard,
            IF force /\ ws # None THEN Detached(Closing(sock, ws), ws) ELSE sock,
            nipple = "ready")

\* Bug: a socket that is not open yet is not closed.
TornDown_OnlyOpen ==
  [s \in Socks |->
    LET old == [sock[s] EXCEPT !.fresh = FALSE]
    IN  IF s # ws \/ old.state # "open" THEN old
        ELSE [old EXCEPT !.attached = FALSE, !.state = "closing", !.last = "zero"]]

\* The sockets after teardownJoystickWs(): a zero frame on an open one, which
\* closes detached; and every socket is of an older generation.
TornDown ==
  [s \in Socks |->
    LET old == [sock[s] EXCEPT !.fresh = FALSE]
    IN  IF s # ws THEN old
        ELSE [old EXCEPT !.attached = FALSE, !.state = "closing",
                         !.last = IF old.state = "open" THEN "zero" ELSE @]]

-----------------------------------------------------------------------------
(* The socket's callbacks and the timers.                                  *)

onopen(s) ==
  /\ sock[s].state = "connecting" /\ sock[s].attached
  /\ wsConnectGuard' = None
  /\ LET up == [sock EXCEPT ![s].state = "open"]
     IN  sock' = IF ~sock[s].fresh \/ s # ws THEN Closing(up, s)
                 ELSE IF joyTimer THEN up ELSE Sent(up, s, "zero")
  /\ UNCHANGED <<ws, wsMower, wsTimer, recent, stickVars, nippleVars, hidden, onLine>>

\* The handshake fails, the server or the network ends it, or close() is done.
onclose(s) ==
  /\ sock[s].state # "none"
  /\ sock' = [sock EXCEPT ![s] = Closed]
  /\ IF sock[s].attached
       THEN /\ wsConnectGuard' = None
            /\ IF s = ws THEN ws' = None /\ wsTimer' = (wsTimer \/ sock[s].fresh)
                         ELSE UNCHANGED <<ws, wsTimer>>
       ELSE UNCHANGED <<ws, wsTimer, wsConnectGuard>>
  /\ UNCHANGED <<wsMower, recent, stickVars, nippleVars, hidden, onLine>>

GuardFires ==
  /\ wsConnectGuard # None
  /\ wsConnectGuard' = None
  /\ sock' = IF wsConnectGuard = ws /\ Is(ws, sock, {"connecting"})
             THEN Closing(sock, ws) ELSE sock
  /\ UNCHANGED <<ws, wsMower, wsTimer, recent, stickVars, nippleVars, hidden, onLine>>

RetryFires ==
  /\ wsTimer
  /\ UNCHANGED <<wsMower, stickVars, nippleVars, hidden, onLine>>
  /\ connectJoystickWs(wsMower, ws, FALSE, wsConnectGuard, sock, nipple = "ready")

FloorPasses ==
  /\ recent
  /\ recent' = FALSE
  /\ UNCHANGED <<sock, ws, wsMower, wsTimer, wsConnectGuard, stickVars, nippleVars, hidden, onLine>>

-----------------------------------------------------------------------------
(* The stick.                                                              *)

Motionless ==
  /\ joyTimer' = FALSE
  /\ sock' = IF Is(ws, sock, {"open"}) THEN Sent(sock, ws, "zero") ELSE sock
  /\ UNCHANGED <<ws, wsMower, wsTimer, wsConnectGuard, recent>>

\* Bug: the heartbeat is stopped and no zero frame sent.
joystickFailsafeStop_Silent ==
  IF joyTimer THEN joyTimer' = FALSE /\ UNCHANGED linkVars
              ELSE UNCHANGED <<joyTimer, linkVars>>

joystickFailsafeStop ==
  IF joyTimer THEN Motionless ELSE UNCHANGED <<joyTimer, linkVars>>

\* A frame of motion that finds the link down may ask for it at once; at most
\* once in two seconds.
sendMove ==
  IF Is(ws, sock, {"open"})
  THEN sock' = Sent(sock, ws, "move") /\ UNCHANGED <<ws, wsMower, wsTimer, wsConnectGuard, recent>>
  ELSE UNCHANGED linkVars \/ ensureJoystickWs(FALSE)

\* nipplejs reports a finger on the stick only when it moves.
StickMoves ==
  /\ stick # "absent" /\ ~hidden
  /\ stick' = "held" /\ joyTimer' = TRUE
  /\ UNCHANGED <<nippleVars, hidden, onLine>>
  /\ IF joyTimer THEN UNCHANGED linkVars ELSE sendMove

StickEnds ==
  /\ stick = "held"
  /\ stick' = "free"
  /\ Motionless
  /\ UNCHANGED <<nippleVars, hidden, onLine>>

Heartbeat ==
  /\ joyTimer
  /\ UNCHANGED <<stickVars, nippleVars, hidden, onLine>>
  /\ sendMove

-----------------------------------------------------------------------------
(* The user and the browser.                                               *)

loadNipple(n, k) ==
  IF n # "absent" \/ k >= MaxNippleTries
  THEN nipple' = n /\ tries' = k
  ELSE nipple' = "loading" /\ tries' = k + 1

\* nipplejs.create() may throw.
mountStick == stick' \in {"absent", "free"}

\* startJoystick(), of selectMower().
Select(m) ==
  /\ wsMower' = m
  /\ joyTimer' = FALSE
  /\ UNCHANGED <<hidden, onLine>>
  /\ connectJoystickWs(m, None, FALSE, None, TornDown, nipple = "ready")
  /\ loadNipple(nipple, tries)
  /\ IF nipple = "ready" THEN mountStick ELSE stick' = "absent"

\* A reload of the list that finds no mower: only the link goes.
Deselect ==
  /\ wsMower' = None /\ ws' = None /\ wsTimer' = FALSE /\ wsConnectGuard' = None
  /\ sock' = TornDown
  /\ UNCHANGED <<recent, stickVars, nippleVars, hidden, onLine>>

NippleLoads ==
  /\ nipple = "loading"
  /\ nipple' = "ready"
  /\ UNCHANGED <<tries, wsMower, joyTimer, hidden, onLine>>
  /\ IF wsMower = None
       THEN UNCHANGED <<linkVars, stick>>
       ELSE /\ IF stick = "absent" THEN mountStick ELSE UNCHANGED stick
            /\ connectJoystickWs(wsMower, ws, wsTimer, wsConnectGuard, sock, TRUE)

\* The script fails, or loads empty.  Another attempt follows, if one is left.
NippleFails ==
  /\ nipple = "loading"
  /\ nipple' = "absent"
  /\ UNCHANGED <<tries, linkVars, stickVars, hidden, onLine>>
NippleAgain ==
  /\ nipple = "absent"
  /\ loadNipple(nipple, tries)
  /\ UNCHANGED <<linkVars, stickVars, hidden, onLine>>

\* blur, STOP, or another tab of the page.
Halt ==
  /\ joystickFailsafeStop
  /\ UNCHANGED <<stick, nippleVars, hidden, onLine>>

\* A finger does not move the stick of a hidden page, but may leave it (touchcancel).
Hide ==
  /\ ~hidden
  /\ hidden' = TRUE
  /\ joystickFailsafeStop
  /\ UNCHANGED <<stick, nippleVars, onLine>>

\* Back after a glance, or after longer than WS_STALE_MS or from the bfcache.
Show(long) ==
  /\ hidden
  /\ hidden' = FALSE
  /\ UNCHANGED <<stickVars, nippleVars, onLine>>
  /\ ensureJoystickWs(long)

GoesOffline ==
  /\ onLine
  /\ onLine' = FALSE
  /\ UNCHANGED <<linkVars, stickVars, nippleVars, hidden>>

GoesOnline ==
  /\ ~onLine
  /\ onLine' = TRUE
  /\ UNCHANGED <<stickVars, nippleVars, hidden>>
  /\ ensureJoystickWs(TRUE)

\* After a reconnect of the mower, or a pageshow.
Ensures ==
  /\ UNCHANGED <<stickVars, nippleVars, hidden, onLine>>
  /\ ensureJoystickWs(FALSE)

BrowserNext ==
  \/ \E s \in Socks : onopen(s) \/ onclose(s)
  \/ GuardFires \/ RetryFires \/ FloorPasses
  \/ StickMoves \/ StickEnds \/ Heartbeat
  \/ \E m \in PageMowers : Select(m)
  \/ Deselect \/ NippleLoads \/ NippleFails \/ NippleAgain
  \/ Halt \/ Hide \/ (\E long \in BOOLEAN : Show(long))
  \/ GoesOffline \/ GoesOnline \/ Ensures

BrowserSpec == BrowserInit /\ [][BrowserNext]_browserVars

-----------------------------------------------------------------------------
(* Properties.                                                             *)

Live(s) == sock[s].state \in {"connecting", "open"}

\* Whatever the order of switches, retries, forced cycles and late closes, at
\* most one socket is live; it is the one the page holds, and for the mower on
\* the screen.
OneLiveSocket ==
  \A s \in Socks : Live(s) => s = ws /\ sock[s].fresh /\ sock[s].mower = wsMower

\* While the page is visible and online and has a mower and a stick, it has a
\* socket that is up or coming up, or a retry due: none of the early returns
\* leaves the link abandoned.
NeverAbandoned ==
  wsMower # None /\ ~hidden /\ onLine /\ nipple = "ready"
    => wsTimer \/ (ws # None /\ sock[ws].attached /\ sock[ws].fresh)

\* With the heartbeat off, or the page hidden, the last frame the server got on
\* an open socket was no motion, whichever of the release, the failsafe and a
\* reconnect came last.
StopIsOut ==
  /\ hidden => ~joyTimer
  /\ ~joyTimer => \A s \in Socks : sock[s].state = "open" => sock[s].last # "move"
=============================================================================
