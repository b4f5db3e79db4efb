------------------------------- MODULE Camera -------------------------------
(***************************************************************************)
(* The camera of the page (web-server/static/app.js, startCamera(),        *)
(* stopCamera() and the part of selectMower() that awaits it) and the      *)
(* endpoints that make a mower publish or stop (camera_start() and         *)
(* camera_stop() in web-server/app.py).                                    *)
(*                                                                         *)
(* One start runs at a time, stops overlap with it and with each other,    *)
(* and a switch of mowers may fall into any of their awaits.  A start      *)
(* takes its time in the server (it asks the cloud first), so a stop that  *)
(* is posted after it may reach the mower before it.  POSTs are delivered  *)
(* and stops carried out, sooner or later; a start may fail.               *)
(***************************************************************************)
EXTENDS Naturals

CONSTANTS
  Clients,    \* Agora clients that exist at a time
  Stops,      \* runs of stopCamera() at a time
  CamMowers,
  MaxPosts,   \* POSTs of a kind to a mower at a time
  NoCam       \* no client, no mower

ASSUME CameraAssumption == NoCam \notin Clients \union CamMowers /\ MaxPosts \in Nat

VARIABLES
  shown,      \* currentMower
  agora,
  client,     \* per client: the mower it is for and how far it is
  start,      \* the run of startCameraInner(), with cam-start in `pending`
  stop,       \* the runs of stopCamera()
  buttons,    \* camStart and camStop that take a press
  camUI,      \* setCamUI()'s
  compass,    \* headingMower
  cameraPost, \* POSTs under way
  publishing, \* per mower
  lateStop    \* history: a stopCamera() offered "Start" over a client or a start

camVars == <<shown, agora, client, start, stop, buttons, camUI, compass,
             cameraPost, publishing, lateStop>>

NoStart == [phase |-> "none", target |-> NoCam, client |-> NoCam]
NoStop  == [phase |-> "none", target |-> NoCam, client |-> NoCam, button |-> FALSE]
NoClient == [target |-> NoCam, state |-> "none"]

OrNone(S) == S \union {NoCam}

ClientState == [target: OrNone(CamMowers), state: {"none", "joining", "joined", "leaving"}]
StartState  == [phase: {"none", "posted", "token", "joining", "superseded", "failed"},
                target: OrNone(CamMowers), client: OrNone(Clients)]
StopState   == [phase: {"none", "leaving", "posting", "posted"},
                target: OrNone(CamMowers), client: OrNone(Clients), button: BOOLEAN]

CameraTypeOK ==
  /\ shown \in CamMowers
  /\ agora \in OrNone(Clients)
  /\ client \in [Clients -> ClientState]
  /\ start \in StartState
  /\ stop \in [Stops -> StopState]
  /\ buttons \subseteq {"start", "stop"}
  /\ camUI \in {"off", "joining", "live"}
  /\ compass \in OrNone(CamMowers)
  /\ cameraPost \in [{"start", "stop"} \X CamMowers -> 0..MaxPosts]
  /\ publishing \in [CamMowers -> BOOLEAN]
  /\ lateStop \in BOOLEAN

CameraInit ==
  /\ shown \in CamMowers
  /\ agora = NoCam
  /\ client = [c \in Clients |-> NoClient]
  /\ start = NoStart
  /\ stop = [k \in Stops |-> NoStop]
  /\ buttons = {"start"}
  /\ camUI = "off" /\ compass = NoCam
  /\ cameraPost = [w \in {"start", "stop"} \X CamMowers |-> 0]
  /\ publishing = [m \in CamMowers |-> FALSE]
  /\ lateStop = FALSE

PostTo(kind, m) ==
  /\ cameraPost[<<kind, m>>] < MaxPosts
  /\ cameraPost' = [cameraPost EXCEPT ![<<kind, m>>] = @ + 1]

-----------------------------------------------------------------------------
(* startCamera().                                                          *)

StartPressed ==
  /\ "start" \in buttons /\ start = NoStart
  /\ start' = [phase |-> "posted", target |-> shown, client |-> NoCam]
  /\ buttons' = buttons \ {"start"}
  /\ camUI' = "joining"
  /\ PostTo("start", shown)
  /\ UNCHANGED <<shown, agora, client, stop, compass, publishing, lateStop>>

\* No token: an error, the deadline, or no Agora library.
StartFails ==
  /\ start.phase \in {"posted", "token"}
  /\ start' = NoStart
  /\ buttons' = buttons \union {"start"}
  /\ camUI' = "off"
  /\ UNCHANGED <<shown, agora, client, stop, compass, cameraPost, publishing, lateStop>>

\* syncCameraButtons().
Synced(a) == IF a = NoCam THEN {"start"} ELSE {"stop"}

SwitchedBeforeToken ==
  /\ start.phase = "token" /\ start.target # shown
  /\ start' = NoStart
  /\ camUI' = "off" /\ buttons' = Synced(agora)
  /\ UNCHANGED <<shown, agora, client, stop, compass, cameraPost, publishing, lateStop>>

\* Bug: a token that comes after a switch is used.
Joins_Switched ==
  /\ start.phase = "token"
  /\ \E c \in Clients :
       /\ client[c] = NoClient
       /\ client' = [client EXCEPT ![c] = [target |-> start.target, state |-> "joining"]]
       /\ agora' = c
       /\ start' = [start EXCEPT !.phase = "joining", !.client = c]
  /\ UNCHANGED <<shown, stop, buttons, camUI, compass, cameraPost, publishing, lateStop>>

Joins ==
  /\ start.phase = "token" /\ start.target = shown
  /\ \E c \in Clients :
       /\ client[c] = NoClient
       /\ client' = [client EXCEPT ![c] = [target |-> start.target, state |-> "joining"]]
       /\ agora' = c
       /\ start' = [start EXCEPT !.phase = "joining", !.client = c]
  /\ UNCHANGED <<shown, stop, buttons, camUI, compass, cameraPost, publishing, lateStop>>

\* A client that is being left, or has been, stays so.
Left(c) == [client EXCEPT ![c] = IF @ = NoClient THEN @ ELSE [@ EXCEPT !.state = "leaving"]]

Joined ==
  /\ start.phase = "joining" /\ start.target = shown /\ start.client = agora
  /\ client' = [client EXCEPT ![agora].state = "joined"]
  /\ start' = NoStart
  /\ buttons' = buttons \union {"stop"}
  /\ camUI' = "live" /\ compass' = start.target
  /\ UNCHANGED <<shown, agora, stop, cameraPost, publishing, lateStop>>

JoinSuperseded ==
  /\ start.phase = "joining" /\ (start.target # shown \/ start.client # agora)
  /\ client' = Left(start.client)
  /\ agora' = IF agora = start.client THEN NoCam ELSE agora
  /\ start' = [start EXCEPT !.phase = "superseded"]
  /\ UNCHANGED <<shown, stop, buttons, camUI, compass, cameraPost, publishing, lateStop>>

\* Bug: the client is dropped without leaving its channel.
JoinFails_Drops ==
  /\ start.phase = "joining"
  /\ agora' = IF agora = start.client THEN NoCam ELSE agora
  /\ start' = [start EXCEPT !.phase = "failed"]
  /\ UNCHANGED <<shown, client, stop, buttons, camUI, compass, cameraPost, publishing, lateStop>>

\* join() rejects, or does not settle in time.
JoinFails ==
  /\ start.phase = "joining"
  /\ client' = Left(start.client)
  /\ agora' = IF agora = start.client THEN NoCam ELSE agora
  /\ start' = [start EXCEPT !.phase = "failed"]
  /\ UNCHANGED <<shown, stop, buttons, camUI, compass, cameraPost, publishing, lateStop>>

\* leave() is done, and the start with it.
StartEnds ==
  /\ start.phase \in {"superseded", "failed"}
  /\ camUI' = "off"
  /\ buttons' = IF start.phase = "superseded" THEN Synced(agora) ELSE buttons \union {"start"}
  /\ client' = [client EXCEPT ![start.client] = IF @.state = "leaving" THEN NoClient ELSE @]
  /\ start' = NoStart
  /\ UNCHANGED <<shown, agora, stop, compass, cameraPost, publishing, lateStop>>

-----------------------------------------------------------------------------
(* stopCamera().                                                           *)

\* Up to its first await: target is the mower selectMower() has left, NoCam for
\* the button, which looks at currentMower only after the client has left.
StopBegins(k, target, button) ==
  /\ stop[k] = NoStop
  /\ compass' = NoCam /\ camUI' = "off"
  /\ agora' = NoCam
  /\ client' = IF agora = NoCam THEN client ELSE Left(agora)
  /\ stop' = [stop EXCEPT ![k] = [phase |-> IF agora = NoCam THEN "posting" ELSE "leaving",
                                  target |-> target, client |-> agora, button |-> button]]
  /\ UNCHANGED <<start, buttons, cameraPost, publishing, lateStop>>

StopPressed ==
  /\ "stop" \in buttons
  /\ \A k \in Stops : ~stop[k].button
  /\ \E k \in Stops : StopBegins(k, NoCam, TRUE)
  /\ UNCHANGED shown

Switch(m) ==
  /\ shown' = m
  /\ \E k \in Stops : StopBegins(k, shown, FALSE)

StopLeft(k) ==
  /\ stop[k].phase = "leaving"
  /\ stop' = [stop EXCEPT ![k].phase = "posting", ![k].client = NoCam]
  /\ client' = [client EXCEPT ![stop[k].client] = IF @.state = "leaving" /\ start.client # stop[k].client
                                                  THEN NoClient ELSE @]
  /\ UNCHANGED <<shown, agora, start, buttons, camUI, compass, cameraPost, publishing, lateStop>>

StopPosts(k) ==
  /\ stop[k].phase = "posting"
  /\ PostTo("stop", IF stop[k].target = NoCam THEN shown ELSE stop[k].target)
  /\ stop' = [stop EXCEPT ![k].phase = "posted"]
  /\ UNCHANGED <<shown, agora, client, start, buttons, camUI, compass, publishing, lateStop>>

\* The answer, an error or the deadline.  The buttons are set whatever has
\* become of the camera meanwhile.
StopEnds(k) ==
  /\ stop[k].phase = "posted"
  /\ stop' = [stop EXCEPT ![k] = NoStop]
  /\ buttons' = {"start"}
  /\ lateStop' = (lateStop \/ agora # NoCam \/ start # NoStart)
  /\ UNCHANGED <<shown, agora, client, start, camUI, compass, cameraPost, publishing>>

-----------------------------------------------------------------------------
(* The server.                                                             *)

camera_start(m) ==
  /\ cameraPost[<<"start", m>>] > 0
  /\ cameraPost' = [cameraPost EXCEPT ![<<"start", m>>] = @ - 1]
  /\ \/ /\ publishing' = [publishing EXCEPT ![m] = TRUE]
        /\ start' = IF start.phase = "posted" /\ start.target = m
                    THEN [start EXCEPT !.phase = "token"] ELSE start
     \/ UNCHANGED <<publishing, start>>
  /\ UNCHANGED <<shown, agora, client, stop, buttons, camUI, compass, lateStop>>

camera_stop(m) ==
  /\ cameraPost[<<"stop", m>>] > 0
  /\ cameraPost' = [cameraPost EXCEPT ![<<"stop", m>>] = @ - 1]
  /\ publishing' = [publishing EXCEPT ![m] = FALSE]
  /\ UNCHANGED <<shown, agora, client, start, stop, buttons, camUI, compass, lateStop>>

CameraNext ==
  \/ StartPressed \/ StartFails \/ SwitchedBeforeToken \/ Joins \/ Joined
  \/ JoinSuperseded \/ JoinFails \/ StartEnds \/ StopPressed
  \/ \E k \in Stops : StopLeft(k) \/ StopPosts(k) \/ StopEnds(k)
  \/ \E m \in CamMowers : Switch(m) \/ camera_start(m) \/ camera_stop(m)

CameraSpec == CameraInit /\ [][CameraNext]_camVars

-----------------------------------------------------------------------------
(* Properties.                                                             *)

\* The client the page holds is for the mower on the screen, and a page that
\* says "live" has one: whichever await a switch falls into, no start revives
\* the camera of a mower the user has left.
CameraIsThisMowers ==
  /\ agora # NoCam => client[agora].target = shown
  /\ camUI = "live" => agora # NoCam /\ client[agora].state = "joined"

\* A client in a channel is the page's, or somebody is about to make it leave.
\* The one way to lose one is a stopCamera() that ends late, and offers "Start"
\* while a camera runs or is being started.
NoClientForgotten ==
  \A c \in Clients : client[c].state \in {"joining", "joined"}
    => c = agora \/ c = start.client \/ lateStop

=============================================================================
