------------------------------ MODULE Controls ------------------------------
(***************************************************************************)
(* The page's action buttons (web-server/static/app.js, from action() to   *)
(* bladesActionWithConfirm()) and the endpoint behind them (post_action()  *)
(* in web-server/app.py): STOP, the two taps that start the blades, and    *)
(* the set `pending` that keeps a double tap from firing twice.            *)
(*                                                                         *)
(* POSTs are in flight side by side, and are delivered late, out of order, *)
(* after the page has given them up, or not at all.                        *)
(***************************************************************************)
EXTENDS FiniteSets

CONSTANTS
  Posts,       \* POSTs that are in flight at a time
  CtlMowers,
  NoPost       \* no action, no mower

\* The actions with a rule of their own.  The other buttons (pause, resume, dock,
\* undock, start-job, cancel-job) only post, each under its own name.
Actions == {"stop", "blades-on", "blades-off"}

ASSUME ControlsAssumption == NoPost \notin CtlMowers \union Actions

VARIABLES
  currentMower,
  armed,      \* bladesArmTimer
  armedFor,   \* history: the mower on the screen when it was set
  broken,     \* history: no arming tap, or since it the second tap, a STOP, a
              \* blades-off, a switch, a hidden page or the 3.5 s
  pending,
  post,       \* per POST: to whom, what, where it is, and whether the page waits
  blades,     \* per mower: the disc turns
  stopped     \* history, per mower: STOP was pressed with no blade POST of this
              \* mower under way, and its blades-off neither failed nor followed
              \* by a blades-on

ctlVars == <<currentMower, armed, armedFor, broken, pending, post, blades, stopped>>

Idle == [to |-> NoPost, act |-> NoPost, at |-> "free", awaited |-> FALSE]

ControlsTypeOK ==
  /\ currentMower \in CtlMowers
  /\ armed \in BOOLEAN /\ armedFor \in CtlMowers \union {NoPost}
  /\ broken \in BOOLEAN
  /\ pending \subseteq Actions
  /\ post \in [Posts -> [to: CtlMowers \union {NoPost}, act: Actions \union {NoPost},
                         at: {"free", "network", "done", "lost"}, awaited: BOOLEAN]]
  /\ blades \in [CtlMowers -> BOOLEAN]
  /\ stopped \in [CtlMowers -> BOOLEAN]

ControlsInit ==
  /\ currentMower \in CtlMowers
  /\ armed = FALSE /\ armedFor = NoPost /\ broken = TRUE
  /\ pending = {}
  /\ post = [p \in Posts |-> Idle]
  /\ blades = [m \in CtlMowers |-> FALSE]
  /\ stopped = [m \in CtlMowers |-> FALSE]

BladePosts(m) == {p \in Posts : post[p].to = m /\ post[p].act \in {"blades-on", "blades-off"}
                                  /\ post[p].at = "network"}

-----------------------------------------------------------------------------
(* runAction(): a POST for each of the acts that is not pending.           *)

\* Bug: a double tap fires twice.
Fires_Always(acts) == acts

Fires(acts) == acts \ pending

runActions(acts) ==
  LET fired == Fires(acts)
  IN  /\ pending' = pending \union fired
      /\ \E slot \in [fired -> {p \in Posts : post[p] = Idle}] :
           /\ \A a, b \in fired : a # b => slot[a] # slot[b]
           /\ post' = [p \in Posts |->
                IF \E a \in fired : slot[a] = p
                THEN [to |-> currentMower, act |-> CHOOSE a \in fired : slot[a] = p,
                      at |-> "network", awaited |-> TRUE]
                ELSE post[p]]

disarmBlades == armed' = FALSE /\ armedFor' = NoPost

\* What makes of two taps not "same intent, same machine, right now".
BreaksTaps == broken' = TRUE

\* The first of the two taps, and the second.
Arm ==
  /\ "blades-on" \notin pending /\ ~armed
  /\ armed' = TRUE /\ armedFor' = currentMower /\ broken' = FALSE
  /\ UNCHANGED <<currentMower, pending, post, blades, stopped>>

Confirm ==
  /\ "blades-on" \notin pending /\ armed
  /\ disarmBlades /\ BreaksTaps
  /\ runActions({"blades-on"})
  /\ stopped' = [stopped EXCEPT ![currentMower] = FALSE]
  /\ UNCHANGED <<currentMower, blades>>

BladesOff ==
  /\ "blades-off" \notin pending
  /\ disarmBlades /\ BreaksTaps
  /\ runActions({"blades-off"})
  /\ UNCHANGED <<currentMower, blades, stopped>>

\* Bug: STOP halts the motion only.
Stop_MotionOnly ==
  /\ disarmBlades /\ BreaksTaps
  /\ runActions({"stop"})
  /\ stopped' = [stopped EXCEPT ![currentMower] =
       BladePosts(currentMower) = {} /\ "blades-off" \notin pending]
  /\ UNCHANGED <<currentMower, blades>>

\* It stops the stick's heartbeat as well: Halt in BrowserLink.
Stop ==
  /\ disarmBlades /\ BreaksTaps
  /\ runActions({"stop", "blades-off"})
  /\ stopped' = [stopped EXCEPT ![currentMower] =
       BladePosts(currentMower) = {} /\ "blades-off" \notin pending]
  /\ UNCHANGED <<currentMower, blades>>

ArmTimesOut ==
  /\ armed
  /\ disarmBlades /\ BreaksTaps
  /\ UNCHANGED <<currentMower, pending, post, blades, stopped>>

\* Bug: an arm outlives a locked screen.
PageHides_KeepsArm ==
  /\ BreaksTaps
  /\ UNCHANGED <<currentMower, armed, armedFor, pending, post, blades, stopped>>

\* The page is hidden or unloaded.
PageHides ==
  /\ disarmBlades /\ BreaksTaps
  /\ UNCHANGED <<currentMower, pending, post, blades, stopped>>

SelectMower(m) ==
  /\ currentMower' = m
  /\ disarmBlades /\ BreaksTaps
  /\ UNCHANGED <<pending, post, blades, stopped>>

-----------------------------------------------------------------------------
(* A POST's life.                                                          *)

Frees(p, at, awaited) ==
  post' = [post EXCEPT ![p] = IF at # "network" /\ ~awaited THEN Idle
                              ELSE [@ EXCEPT !.at = at, !.awaited = awaited]]

\* post_action() sends the mower the command, or fails to.
Handled(p) ==
  /\ post[p].at = "network"
  /\ Frees(p, "done", post[p].awaited)
  /\ \/ /\ blades' = CASE post[p].act = "blades-on"  -> [blades EXCEPT ![post[p].to] = TRUE]
                       [] post[p].act = "blades-off" -> [blades EXCEPT ![post[p].to] = FALSE]
                       [] OTHER -> blades
        /\ UNCHANGED stopped
     \/ /\ stopped' = IF post[p].act = "blades-off" THEN [stopped EXCEPT ![post[p].to] = FALSE]
                                                    ELSE stopped
        /\ UNCHANGED blades
  /\ UNCHANGED <<currentMower, armed, armedFor, broken, pending>>

Lost(p) ==
  /\ post[p].at = "network"
  /\ Frees(p, "lost", post[p].awaited)
  /\ stopped' = IF post[p].act = "blades-off" THEN [stopped EXCEPT ![post[p].to] = FALSE] ELSE stopped
  /\ UNCHANGED <<currentMower, armed, armedFor, broken, pending, blades>>

\* A mower may end the disc's turning on its own (lift, tilt, bumper).
DiscStops(m) ==
  /\ blades[m]
  /\ blades' = [blades EXCEPT ![m] = FALSE]
  /\ UNCHANGED <<currentMower, armed, armedFor, broken, pending, post, stopped>>

\* The answer, or the deadline: runAction()'s `finally`.  A POST given up may
\* still be delivered.
Settle(p) ==
  /\ post[p].awaited
  /\ pending' = pending \ {post[p].act}
  /\ Frees(p, post[p].at, FALSE)
  /\ UNCHANGED <<currentMower, armed, armedFor, broken, blades, stopped>>

ControlsNext ==
  \/ Arm \/ Confirm \/ BladesOff \/ Stop \/ ArmTimesOut \/ PageHides
  \/ \E m \in CtlMowers : SelectMower(m) \/ DiscStops(m)
  \/ \E p \in Posts : Handled(p) \/ Lost(p) \/ Settle(p)

ControlsSpec == ControlsInit /\ [][ControlsNext]_ctlVars

-----------------------------------------------------------------------------
(* Properties.                                                             *)

\* A POST is awaited exactly for the actions in `pending`, and for each only
\* once: no double tap, switch or late answer fires an action twice or frees it
\* under another POST.
OneAwaited ==
  \A a \in Actions :
    Cardinality({p \in Posts : post[p].awaited /\ post[p].act = a}) = IF a \in pending THEN 1 ELSE 0

\* Blades start only on a mower that was on the screen at both taps, and with no
\* STOP, blades-off, switch, hidden page or timeout between the two, each of which
\* has to take the arm back.
TwoTapsOneMower ==
  [][\A p \in Posts : post[p] = Idle /\ post'[p].act = "blades-on"
       => armed /\ ~broken /\ armedFor = currentMower /\ post'[p].to = armedFor]_ctlVars

\* A STOP that found no blade command of its mower under way leaves the disc at
\* rest once its own have been delivered.
StopCutsBlades ==
  \A m \in CtlMowers : stopped[m] /\ BladePosts(m) = {} => ~blades[m]

\* The comment above STOP: it ends both motion and blades, and is never
\* de-duplicated but for a repeat; so a press leaves a POST of each kind to
\* this mower awaited.
StopReachesThisMower ==
  [][Stop => \A a \in {"stop", "blades-off"} :
       \E p \in Posts : post'[p].to = currentMower /\ post'[p].act = a /\ post'[p].awaited]_ctlVars
=============================================================================
